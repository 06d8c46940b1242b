----------------------------- MODULE HandOrders -----------------------------
(***************************************************************************)
(* The commands that trade by hand (cli/commands_execution.py): exec-smoke *)
(* opens and closes a tiny position, manual-close flattens a leg the loop  *)
(* left behind.  One account and one instrument; the adapters keep the     *)
(* promise of VenuePromise, and the account may show an execution late.    *)
(* An order of the dead loop, or one a command lost track of, may still be *)
(* working.                                                                *)
(***************************************************************************)
EXTENDS Integers

CONSTANTS MaxQty,      \* bound on positions and sizes
          MaxCommands  \* bound on the commands of a behaviour

ASSUME HandAssumption == MaxQty \in Nat \ {0} /\ MaxCommands \in Nat

VARIABLES
    pos,       \* the position the account really has
    view,      \* the position a query is given
    working,   \* signed size of the orders still working
    home,      \* sign of the position the commands are about
    slip,      \* why a command was sent that its check should have stopped: an
               \* override, a reading that lagged, a position moved after it
    step, cmd,   \* the command that runs: which, side, size, override
    pre, had,  \* the position its check read, and the one there was then
    last,      \* the first of its last two reads
    opened,    \* lots or shares its last order reported
    complete,  \* every order of it was reported filled
    rc,        \* exit code: 0, 1, and 2 for a refusal
    commands

handVars ==
    <<pos, view, working, home, slip, step, cmd, pre, had, last, opened, complete, rc,
      commands>>

Sizes == -MaxQty..MaxQty
Magnitude(n) == IF n < 0 THEN -n ELSE n
SignOf(n) == IF n > 0 THEN 1 ELSE IF n < 0 THEN -1 ELSE 0

Names == {"ibkr_smoke", "fubon_smoke", "ibkr_close", "fubon_close"}
Smoke(c) == c.name \in {"ibkr_smoke", "fubon_smoke"}

\* What the require_* checks let through; the Fubon smoke always buys.
Commands ==
    {c \in [name : Names, side : {-1, 1}, qty : 1..MaxQty, override : BOOLEAN] :
        /\ c.name = "fubon_smoke" => c.side = 1
        /\ Smoke(c) => ~c.override}

HandInit ==
    /\ pos \in Sizes /\ view = pos
    /\ working \in {w \in Sizes : pos * w <= 0 /\ Magnitude(w) <= Magnitude(pos)}
    /\ home = SignOf(pos) /\ slip = {}
    /\ step = "idle" /\ cmd = CHOOSE c \in Commands : TRUE
    /\ pre = 0 /\ had = 0 /\ last = 0
    /\ opened = 0 /\ complete = FALSE /\ rc = 0 /\ commands = 0

-----------------------------------------------------------------------------
(* The account, external *)

\* A working order fills a part; what is left goes on or is cancelled.
WorkingFills ==
    /\ \E n \in 1..Magnitude(working) :
        /\ pos' = pos + SignOf(working) * n
        /\ working' \in {working - SignOf(working) * n, 0}
    /\ UNCHANGED <<view, home, slip, step, cmd, pre, had, last, opened,
                   complete, rc, commands>>

CatchUp ==
    /\ view # pos
    /\ view' = pos
    /\ UNCHANGED <<pos, working, home, slip, step, cmd, pre, had, last,
                   opened, complete, rc, commands>>

-----------------------------------------------------------------------------
(* A command *)

\* The lease is free and the gates are open.  The account may still lag what the
\* last command did.
Start ==
    /\ step = "idle" /\ commands < MaxCommands
    /\ cmd' \in Commands
    /\ commands' = commands + 1
    /\ step' = "started"
    /\ complete' = TRUE /\ opened' = 0 /\ pre' = 0 /\ had' = 0 /\ last' = 0
    /\ UNCHANGED <<pos, view, working, home, slip, rc>>

\* preflight() of the IBKR adapter and manual-close at either venue read the
\* position, then the open orders; the Fubon preflight reads the orders first.
OrdersFirst == cmd.name = "fubon_smoke"

ReadFirst ==
    /\ step = "started"
    /\ IF OrdersFirst /\ working # 0
       THEN step' = "idle" /\ rc' = 2
       ELSE step' = "checking" /\ UNCHANGED rc
    /\ pre' = view /\ had' = pos
    /\ UNCHANGED <<pos, view, working, home, slip, cmd, last, opened,
                   complete, commands>>

\* side_closes_position, and no more than there is.
Closes(p, c) ==
    /\ SignOf(p) = -c.side
    /\ c.qty <= Magnitude(p)

Position == IF OrdersFirst THEN view ELSE pre
Had == IF OrdersFirst THEN pos ELSE had

Fits == IF Smoke(cmd) THEN Position = 0 ELSE Closes(Position, cmd)

Allowed == Fits \/ cmd.override

\* What the check could not see, or was told not to.
Reasons ==
    (IF Fits THEN {} ELSE {"override"})
    \cup (IF Position = Had THEN {} ELSE {"lag"})
    \cup (IF Had # pos THEN {"moved"} ELSE {})

\* The second read, and what it and the first one allow.
Check ==
    /\ step = "checking"
    /\ IF (~OrdersFirst /\ working # 0) \/ ~Allowed
       THEN step' = "idle" /\ rc' = 2 /\ UNCHANGED <<home, slip>>
       ELSE /\ step' = "sending" /\ UNCHANGED rc
            /\ home' = IF Smoke(cmd) THEN cmd.side ELSE -cmd.side
            /\ slip' = slip \cup Reasons
    /\ UNCHANGED <<pos, view, working, cmd, pre, had, last, opened,
                   complete, commands>>

\* adapter.execute: what executes, what is reported of it, what keeps working.
\* A full report is the whole order.
Executes(side, qty) ==
    \E done \in 0..qty, told \in 0..qty :
        /\ told <= done
        /\ Magnitude(pos + side * qty) <= 2 * MaxQty
        /\ pos' = pos + side * done
        /\ view' \in {view, pos'}
        /\ working' \in {working} \cup (IF told < qty THEN {working + side * (qty - done)} ELSE {})
        /\ opened' = told
        /\ complete' = (complete /\ told = qty)

\* The order of a close, and the first order of a smoke.
SendOrder ==
    /\ step = "sending"
    /\ Executes(cmd.side, cmd.qty)
    /\ step' = IF Smoke(cmd) THEN "opened" ELSE "sent"
    /\ UNCHANGED <<home, slip, cmd, pre, had, last, rc, commands>>

\* Mutant: the smoke closes what it asked for.
CloseSizeAsked == cmd.qty

\* The smoke closes what was reported, not what it asked for.
CloseSize == opened

\* Nothing reported: the command gives up, with what is there.
SmokeCloses ==
    /\ step = "opened"
    /\ IF opened = 0
       THEN /\ step' = "idle" /\ rc' = 1
            /\ UNCHANGED <<pos, view, working, opened, complete>>
       ELSE /\ Executes(-cmd.side, CloseSize)
            /\ step' = "sent" /\ UNCHANGED rc
    /\ UNCHANGED <<home, slip, cmd, pre, had, last, commands>>

\* Mutant: a flat account is enough.
SuccessIfFlat(found, left) == found = 0

\* The last reads: everything reported filled, nothing working, and the
\* position flat, or for a close at IBKR the one the fills leave.
Success(found, left) ==
    /\ complete /\ left = 0
    /\ found = IF cmd.name = "ibkr_close" THEN pre + cmd.side * opened ELSE 0

\* At IBKR the position is read before the open orders, at Fubon after them.
PositionLast == cmd.name \in {"fubon_smoke", "fubon_close"}

ReadLast ==
    /\ step = "sent"
    /\ step' = "reading"
    /\ last' = IF PositionLast THEN working ELSE view
    /\ UNCHANGED <<pos, view, working, home, slip, cmd, pre, had, opened,
                   complete, rc, commands>>

\* fetch_position_with_retry gives up with what it last saw; an account that
\* cannot be read is no success.
End ==
    /\ step = "reading"
    /\ step' = "idle"
    /\ LET done == IF PositionLast THEN Success(view, last) ELSE Success(last, working)
       IN  rc' \in {1} \cup (IF done THEN {0} ELSE {})
    /\ UNCHANGED <<pos, view, working, home, slip, cmd, pre, had, last, opened,
                   complete, commands>>

HandNext ==
    \/ WorkingFills \/ CatchUp
    \/ Start \/ ReadFirst \/ Check \/ SendOrder \/ SmokeCloses \/ ReadLast \/ End

HandSpec == HandInit /\ [][HandNext]_handVars

-----------------------------------------------------------------------------

HandTypeOK ==
    /\ {pos, view, working, had, last} \subseteq -2 * MaxQty..2 * MaxQty
    /\ step \in {"idle", "started", "checking", "sending", "opened", "sent", "reading"}
    /\ cmd \in Commands /\ pre \in Int /\ opened \in 0..MaxQty
    /\ complete \in BOOLEAN /\ slip \subseteq {"override", "lag", "moved"}
    /\ rc \in 0..2 /\ home \in -1..1 /\ commands \in 0..MaxCommands

\* What is there, and what there is when all that works has filled.
SameSide == pos * home >= 0 /\ (pos + working) * home >= 0

\* A command whose check saw the position it acts on never crosses zero, whatever
\* fills in part, is under-reported, keeps working or is lost track of.
NeverCrossesZero == slip = {} => SameSide

\* Exit code 0: nothing is working, and the position is what the command was
\* for, in the account and not in its view.
CompleteMeansClosed ==
    step = "idle" /\ commands > 0 /\ rc = 0 /\ slip = {}
    => working = 0 /\ pos = IF cmd.name = "ibkr_close" THEN pre + cmd.side * opened ELSE 0
=============================================================================
