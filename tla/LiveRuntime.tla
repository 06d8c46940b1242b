---------------------------- MODULE LiveRuntime ----------------------------
(***************************************************************************)
(* The live-execute process (runtime/live, cli/commands_execution.py), its *)
(* SQLite store, the two brokers, the lender who may recall UMC shares,    *)
(* and the recovery commands an operator runs while the process is down.   *)
(* A plan behaves as PairPromise says; everything around it is modelled    *)
(* step by step: the startup gate, resume, entries, exits, post-trade      *)
(* reconciliation, the drift check and its unwind, crashes and recovery.   *)
(***************************************************************************)
EXTENDS RecallPolicy

CONSTANTS
    CcfQty, UmcQty,     \* size of a position, contracts and shares
    MaxPlans,           \* bound: plans executed in a behaviour
    MaxUnwinds,         \* max_daily_recalls
    StrayOrders         \* TRUE: a UMC order may outlive the plan that sent it

Brokers == {"ccf", "umc"}

ASSUME SizeAssumption ==
    CcfQty \in Nat \ {0} /\ UmcQty \in Nat \ {0} /\ MaxPlans \in Nat
ASSUME PolicyAssumption == MaxUnwinds \in Nat /\ StrayOrders \in BOOLEAN

VARIABLES
    proc,       \* the process: "down", "boot" after the gate, "up" in its loop
    step,       \* in a bar: "idle", "placing", "settled", "confirming"; in the
                \* drift check: "drifted", "unwinding"
    mem,        \* strategy.state: [mode, dir]; dir 1 is short UMC, long CCF
    gate,       \* reconciliation_entry_blocked: "open" or "closed"
    first,      \* issues of the reconciliation awaiting confirmation
    rows,       \* exposure by recorded fills, the open transaction included
    disk,       \* committed [mode, dir, rows]
    run,        \* status of the latest live_runs row
    closes,     \* pending_manual_closes rows not settled
    pnl,        \* pnl_status
    unwinds,    \* umc_recall_unwound events today
    read,       \* UMC shares the unwind under way is sized by
    broker,     \* true positions
    stray,      \* signed UMC shares an order of an earlier plan may still trade
    plan,       \* the latest plan: [kind, dir, from]
    net, disturbed, verdict,    \* what became of it: see PairPromise
    alien,      \* broker minus state, as far as recalls, unwinds and orders that
                \* outlived their plan explain it
    plans       \* plans executed

process == <<mem, gate, first, unwinds, read>>
store   == <<disk, run, closes, pnl>>
promise == <<net, disturbed, verdict>>
vars == <<proc, step, process, rows, store, broker, stray, plan, promise,
          alien, plans>>

Plan == INSTANCE PairPromise

Flat    == [b \in Brokers |-> 0]
Held(d) == [ccf |-> d * CcfQty, umc |-> -d * UmcQty]

\* The side on which a plan trades at a broker.
Side(b) == LET s == IF plan.kind = "ENTRY" THEN plan.dir ELSE -plan.dir
           IN  IF b = "ccf" THEN s ELSE -s

FlatState == [mode |-> "FLAT", dir |-> 0]
Fresh     == [mode |-> "FLAT", dir |-> 0, rows |-> Flat]

Init ==
    /\ proc = "down" /\ step = "idle"
    /\ mem = FlatState /\ gate = "open" /\ first = {} /\ unwinds = 0 /\ read = 0
    /\ rows = Flat /\ disk = Fresh
    /\ run = "none" /\ closes = 0 /\ pnl = "complete"
    /\ broker = Flat /\ stray = 0 /\ alien = Flat
    /\ plan = [kind |-> "EXIT", dir |-> 0, from |-> "FLAT"]
    /\ Plan!Init
    /\ plans = 0

-----------------------------------------------------------------------------
(* The brokers and the lender *)

Trade(b, n) == broker' = [broker EXCEPT ![b] = @ + n]

\* Orders of the plan being executed trade.
PlanTrades ==
    /\ step = "placing"
    /\ Plan!Move
    /\ broker' = [b \in Brokers |-> broker[b] + Side(b) * (net'[b] - net[b])]
    /\ UNCHANGED <<proc, step, process, rows, store, stray, plan, alien, plans>>

\* An order left behind by an earlier plan trades, or ends.
StrayTrades ==
    /\ \E n \in -UmcQty..UmcQty :
         /\ n # 0
         /\ IF stray > 0 THEN 0 < n /\ n <= stray ELSE stray <= n /\ n < 0
         /\ Trade("umc", n) /\ stray' = stray - n
         /\ alien' = [alien EXCEPT !.umc = @ + n]
    /\ UNCHANGED <<proc, step, process, rows, store, plan, promise, plans>>

StrayEnds ==
    /\ stray # 0 /\ stray' = 0
    /\ UNCHANGED <<proc, step, process, rows, store, broker, plan, promise,
                   alien, plans>>

\* The lender buys in shares of a short.  While a plan is buying UMC back it
\* cannot be told from the plan's own fills.
Recall ==
    /\ \E n \in 1..(-broker.umc) :
         Trade("umc", n) /\ alien' = [alien EXCEPT !.umc = @ + n]
    /\ IF step = "placing" /\ Side("umc") > 0 THEN Plan!Disturb
                                              ELSE UNCHANGED promise
    /\ UNCHANGED <<proc, step, process, rows, store, stray, plan, plans>>

-----------------------------------------------------------------------------
(* Reconciliation *)

\* BrokerReconciler: the issues found at the brokers that answered.
Issues(answered, dir) ==
    {<<b, broker[b]>> : b \in {c \in answered : broker[c] # Held(dir)[c]}}
      \cup {<<"order", stray>> : b \in {c \in answered : c = "umc" /\ stray # 0}}

Matched(dir) == Issues(Brokers, dir) = {}

Commit(state) ==
    disk' = [mode |-> state.mode, dir |-> state.dir, rows |-> rows]

\* The bar (or the resume) is over and its transaction committed.
Conclude(state) ==
    /\ mem' = state
    /\ Commit(state)
    /\ step' = "idle" /\ proc' = "up" /\ run' = "running"
    /\ first' = {}

\* The first reading, after a trade or on resume with a position.
Reconcile ==
    /\ step = "settled"
    /\ \E answered \in SUBSET Brokers :
         LET issues == Issues(answered, mem.dir)
         IN  \/ /\ answered # Brokers
                /\ gate' = "closed"
                /\ Conclude(mem)
             \/ /\ answered = Brokers /\ issues = {}
                /\ gate' = IF rows = Held(mem.dir) THEN "open" ELSE gate
                /\ Conclude(mem)
             \/ /\ answered = Brokers /\ issues # {}
                /\ first' = issues /\ step' = "confirming"
                /\ UNCHANGED <<mem, gate, disk, proc, run>>
    /\ UNCHANGED <<unwinds, read, rows, closes, pnl, broker, stray, plan, promise,
                   alien, plans>>

\* Only a mismatch read twice, the same both times, pauses.
AfterConfirmation(again) ==
    IF again = first THEN [mem EXCEPT !.mode = "PAUSED"] ELSE mem

ReconcileAgain ==
    /\ step = "confirming"
    /\ \E answered \in SUBSET Brokers :
         LET again == Issues(answered, mem.dir)
         IN  /\ Conclude(AfterConfirmation(again))
             /\ gate' = IF again = first THEN gate
                        ELSE IF answered = Brokers THEN "open" ELSE "closed"
    /\ UNCHANGED <<unwinds, read, rows, closes, pnl, broker, stray, plan, promise,
                   alien, plans>>

-----------------------------------------------------------------------------
(* Starting and stopping *)

\* command_live_execute: read-only reconciliation must have matched.
GateOpen == Matched(disk.dir)

Start ==
    /\ proc = "down" /\ GateOpen
    /\ proc' = "boot"
    /\ mem' = [mode |-> disk.mode, dir |-> disk.dir]
    /\ step' = IF disk.dir = 0 THEN "idle" ELSE "settled"
    /\ alien' = Flat
    /\ net' = Flat /\ disturbed' = FALSE /\ verdict' = "working"
    /\ UNCHANGED <<gate, first, unwinds, read, rows, store, broker, stray, plan,
                   plans>>

\* on_resume has nothing to verify without a position.
EnterLoop ==
    /\ proc = "boot" /\ step = "idle"
    /\ Conclude(mem)
    /\ UNCHANGED <<gate, unwinds, read, rows, closes, pnl, broker, stray, plan,
                   promise, alien, plans>>

\* What is left of a process that has gone: what it committed, and its orders.
Gone ==
    /\ proc # "down"
    /\ proc' = "down" /\ step' = "idle"
    /\ mem' = FlatState /\ gate' = "open" /\ first' = {} /\ read' = 0
    /\ rows' = disk'.rows
    /\ stray' \in IF step = "placing" /\ StrayOrders
                  THEN {stray, Side("umc") * (UmcQty - net.umc)} ELSE {stray}
    /\ IF step = "placing" THEN verdict' = "lost" ELSE UNCHANGED verdict
    /\ UNCHANGED <<net, disturbed, unwinds, closes, pnl, broker, plan, alien, plans>>

\* The process is killed.
Crash == UNCHANGED <<disk, run>> /\ Gone

\* Ctrl-C, or an exception the loop does not catch: the finally clause of run()
\* closes the run and commits what was recorded; the state is not saved.
Interrupt ==
    /\ disk' \in {disk, [disk EXCEPT !.rows = rows]}
    /\ run' = IF proc = "up" THEN "closed" ELSE run
    /\ Gone

-----------------------------------------------------------------------------
(* A bar *)

\* Mutant: the guard only looks at the leg that no third party can touch.
GuardHoldsForCcf(held) == broker.ccf = held.ccf

\* verify_plan_against_broker, when both brokers answer.
GuardHolds(held) == broker = held

\* execute() is entered; a guard that fails, or a broker that does not answer,
\* rejects the plan, which pauses.
Execute(kind, dir, held) ==
    /\ plans < MaxPlans /\ plans' = plans + 1
    /\ plan' = [kind |-> kind, dir |-> dir, from |-> mem.mode]
    /\ net' = Flat /\ disturbed' = FALSE
    /\ \/ /\ GuardHolds(held)
          /\ step' = "placing" /\ verdict' = "working" /\ alien' = Flat
          /\ UNCHANGED mem
       \/ /\ step' = "settled" /\ verdict' = "paused"
          /\ mem' = [mem EXCEPT !.mode = "PAUSED"]
          /\ UNCHANGED alien
    /\ UNCHANGED <<proc, gate, first, unwinds, read, rows, store, broker, stray>>

Running == proc = "up" /\ step = "idle"

\* An entry signal; with the gate closed it is cancelled and nothing changes.
EntryBar ==
    /\ Running /\ mem.mode = "FLAT" /\ gate = "open"
    /\ \E dir \in {-1, 1} : Execute("ENTRY", dir, Flat)

\* An exit signal while OPEN, or a rollover or weekend force exit, which
\* resolve_force_exit_reason asks for in any state that has a position.
ExitBar ==
    /\ Running /\ mem.dir # 0
    /\ Execute("EXIT", mem.dir, Held(mem.dir))

Record(fills) ==
    rows' = [b \in Brokers |-> rows[b] + Side(b) * fills[b]]

\* execute() came back filled: apply_entry_execution, apply_exit_execution; an
\* entry whose fills do not form a pair pauses without a position.
PlanFilled ==
    /\ step = "placing" /\ Plan!Hedge
    /\ mem' \in IF plan.kind = "EXIT" THEN {FlatState}
                ELSE {[mode |-> "OPEN", dir |-> plan.dir], [mode |-> "PAUSED", dir |-> 0]}
    /\ Record(Plan!Full)
    /\ stray' \in IF StrayOrders THEN {stray, Side("umc") * (UmcQty - net.umc)}
                                 ELSE {stray}
    /\ step' = "settled"
    /\ UNCHANGED <<proc, gate, first, unwinds, read, store, broker, plan, alien,
                   plans>>

\* execute() came back with anything else; the fills it knew of are recorded.
PlanStopped ==
    /\ step = "placing" /\ Plan!Stop /\ verdict' = "paused"
    /\ mem' = [mem EXCEPT !.mode = "PAUSED"]
    /\ \E fills \in [Brokers -> 0..(CcfQty + UmcQty)] :
         /\ \A b \in Brokers : fills[b] <= Plan!Full[b]
         /\ Record(fills)
    /\ stray' \in IF StrayOrders THEN {stray, Side("umc") * (UmcQty - net.umc)}
                                 ELSE {stray}
    /\ step' = "settled"
    /\ UNCHANGED <<proc, gate, first, unwinds, read, store, broker, plan, alien,
                   plans>>

-----------------------------------------------------------------------------
(* The drift check and the recall unwind *)

\* What the surviving shares still hedge; only the ratio is the entry's.
UnwindTarget(remaining) == HedgeTarget(Held(mem.dir).ccf, Held(mem.dir).umc, remaining)

\* Mutant: only a leg that is gone altogether is drift.
DriftedIfGone == Running /\ mem.mode = "OPEN" /\ broker.umc = 0

Drifted == Running /\ mem.mode = "OPEN" /\ broker.umc # Held(mem.dir).umc

\* _check_umc_position_drift: the shares in the snapshot of the margin check are
\* not those of the strategy.
DriftSeen ==
    /\ Drifted
    /\ step' = "drifted"
    /\ UNCHANGED <<proc, process, rows, store, broker, stray, plan, promise, alien,
                   plans>>

\* on_umc_position_drift reads both brokers again.  What they say then may be
\* refused, need no order or be unreadable, and the budget may be spent.
DriftPauses ==
    /\ step = "drifted" /\ step' = "idle"
    /\ mem' = [mem EXCEPT !.mode = "PAUSED"] /\ Commit(mem')
    /\ UNCHANGED <<proc, gate, first, unwinds, read, rows, run, closes, pnl,
                   broker, stray, plan, promise, alien, plans>>

\* Otherwise the order is planned from what the brokers say; nothing holds the
\* shares still until it is sent.
ReadForUnwind ==
    /\ step = "drifted" /\ step' = "unwinding"
    /\ ~BudgetExhausted(unwinds, MaxUnwinds)
    /\ RequiresOrder(Action(UnwindTarget(broker.umc), broker.ccf))
    /\ read' = broker.umc
    /\ UNCHANGED <<proc, mem, gate, first, unwinds, rows, store, broker, stray, plan,
                   promise, alien, plans>>

\* The order closes the contracts the reading leaves over: in the loop nobody
\* else trades CCF, so that it takes them to the target.
Close(c) ==
    /\ broker' = [broker EXCEPT !.ccf = c]
    /\ read' = 0

\* The order filled: the strategy starts over, FLAT, and that is committed.  What
\* it held of UMC is nobody's now.  _send_recall_unwind records neither plan,
\* order nor fill.
Unwind ==
    /\ step = "unwinding" /\ step' = "idle"
    /\ Close(UnwindTarget(read))
    /\ unwinds' = unwinds + 1
    /\ mem' = FlatState /\ Commit(mem')
    /\ alien' = [alien EXCEPT !.ccf = UnwindTarget(read), !.umc = @ + Held(mem.dir).umc]
    /\ UNCHANGED <<proc, gate, first, rows, run, closes, pnl, stray, plan, promise,
                   plans>>

\* The contracts between what is held and the target.
Between(a, b) == IF a <= b THEN a..b ELSE b..a

\* The order did not report filled; some of it may have traded.
UnwindFails ==
    /\ step = "unwinding" /\ step' = "idle"
    /\ \E c \in Between(UnwindTarget(read), broker.ccf) :
         /\ Close(c)
         /\ alien' = [alien EXCEPT !.ccf = c - Held(mem.dir).ccf]
    /\ mem' = [mem EXCEPT !.mode = "PAUSED"] /\ Commit(mem')
    /\ UNCHANGED <<proc, gate, first, unwinds, rows, run, closes, pnl, stray, plan,
                   promise, plans>>

\* The process is killed after the order and before the state is saved.
UnwindCut ==
    /\ step = "unwinding" /\ step' = "idle"
    /\ Close(UnwindTarget(read))
    /\ proc' = "down" /\ mem' = FlatState /\ gate' = "open" /\ rows' = disk.rows
    /\ UNCHANGED <<first, unwinds, store, stray, plan, promise, alien, plans>>

DriftCheck == DriftSeen \/ DriftPauses \/ ReadForUnwind \/ Unwind \/ UnwindFails

NewDay ==
    /\ unwinds > 0 /\ unwinds' = 0
    /\ UNCHANGED <<proc, step, mem, gate, first, read, rows, store, broker, stray,
                   plan, promise, alien, plans>>

-----------------------------------------------------------------------------
(* The operator *)

\* A leg is closed by hand, while nothing runs or the strategy is paused.
HandClose(b) ==
    /\ proc = "down" \/ (Running /\ mem.mode = "PAUSED")
    /\ broker[b] # 0
    /\ broker' = [broker EXCEPT ![b] = 0]
    /\ UNCHANGED <<proc, step, process, rows, store, stray, plan, promise,
                   alien, plans>>

Command == proc = "down" /\ UNCHANGED <<proc, step, process, run, broker, stray,
                                        plan, promise, alien, plans>>

\* Mutant: clearing a pause always starts over flat.
ClearPauseToFlat ==
    /\ Command
    /\ disk.mode = "PAUSED" /\ Matched(disk.dir)
    /\ closes > 0 => rows = Held(disk.dir)
    /\ disk' = [disk EXCEPT !.mode = "FLAT"]
    /\ UNCHANGED <<rows, closes, pnl>>

\* Mutant: the ledger is asked about a pause that no hand close led to.
ClearPauseByLedger ==
    /\ Command
    /\ disk.mode = "PAUSED" /\ Matched(disk.dir)
    /\ rows = Held(disk.dir)
    /\ disk' = [disk EXCEPT !.mode = IF disk.dir # 0 THEN "OPEN" ELSE "FLAT"]
    /\ UNCHANGED <<rows, closes, pnl>>

\* recover clear-pause; with a manual close pending the ledger must agree too.
ClearPause ==
    /\ Command
    /\ disk.mode = "PAUSED" /\ Matched(disk.dir)
    /\ closes > 0 => rows = Held(disk.dir)
    /\ disk' = [disk EXCEPT !.mode = IF disk.dir # 0 THEN "OPEN" ELSE "FLAT"]
    /\ UNCHANGED <<rows, closes, pnl>>

\* The adjustment takes the ledger to zero, whatever it holds.
Squared == Flat

\* recover manual-flat, the first time.
ManualFlat ==
    /\ Command
    /\ run # "running"
    /\ disk.mode = "PAUSED" /\ disk.dir # 0
    /\ Matched(0)
    /\ closes' = closes + 1 /\ pnl' = "pending"
    /\ rows' = Squared
    /\ disk' = [disk EXCEPT !.dir = 0, !.rows = rows']

\* recover manual-flat again: only an off-square ledger is repaired.
RepairLedger ==
    /\ Command
    /\ run # "running"
    /\ closes > 0 /\ disk.dir = 0
    /\ Matched(0)
    /\ rows # Flat /\ rows' = Squared
    /\ disk' = [disk EXCEPT !.rows = rows']
    /\ UNCHANGED <<closes, pnl>>

\* recover settle-manual-close books the latest pending one.
SettleManualClose ==
    /\ Command
    /\ run # "running"
    /\ closes > 0 /\ disk.dir = 0 /\ pnl = "pending"
    /\ closes' = closes - 1 /\ pnl' = "complete"
    /\ UNCHANGED <<disk, rows>>

Recovery == ClearPause \/ ManualFlat \/ RepairLedger \/ SettleManualClose

-----------------------------------------------------------------------------
Bar  == EntryBar \/ ExitBar \/ PlanFilled \/ PlanStopped \/ Reconcile \/ ReconcileAgain
Next == PlanTrades \/ StrayTrades \/ StrayEnds \/ Recall
        \/ Start \/ EnterLoop \/ Crash \/ Interrupt \/ Bar
        \/ DriftCheck \/ UnwindCut \/ NewDay
        \/ (\E b \in Brokers : HandClose(b)) \/ Recovery

Spec == Init /\ [][Next]_vars

\* execute() always comes back, reconciliation runs to its end, and bars and
\* margin checks keep coming while the process is up.
LoopRuns ==
    /\ WF_vars(PlanFilled \/ PlanStopped) /\ WF_vars(Reconcile \/ ReconcileAgain)
    /\ WF_vars(EnterLoop) /\ WF_vars(DriftCheck) /\ WF_vars(EntryBar)

\* An operator who has closed a position by hand runs the recovery commands.
OperatorRecovers ==
    WF_vars(ClearPause) /\ WF_vars(ManualFlat) /\ WF_vars(RepairLedger)

\* Nobody has to start the process again.
FairSpec == Spec /\ LoopRuns /\ OperatorRecovers

-----------------------------------------------------------------------------
(* Properties *)

\* FLAT holds no position, OPEN holds one, PAUSED may hold one.
State == {s \in [mode : {"FLAT", "OPEN", "PAUSED"}, dir : {-1, 0, 1}] :
            (s.mode = "FLAT" => s.dir = 0) /\ (s.mode = "OPEN" => s.dir # 0)}
Position == [Brokers -> Int]

TypeOK ==
    /\ proc \in {"down", "boot", "up"}
    /\ step \in {"idle", "placing", "settled", "confirming", "drifted", "unwinding"}
    /\ mem \in State
    /\ gate \in {"open", "closed"}
    /\ rows \in Position
    /\ [mode |-> disk.mode, dir |-> disk.dir] \in State /\ disk.rows \in Position
    /\ run \in {"none", "running", "closed"}
    /\ closes \in Nat /\ pnl \in {"complete", "pending"} /\ unwinds \in Nat
    /\ broker \in Position /\ alien \in Position /\ stray \in Int
    /\ read \in Int
    /\ plan.kind \in {"ENTRY", "EXIT"} /\ plan.dir \in {-1, 0, 1}
    /\ net \in Position /\ disturbed \in BOOLEAN
    /\ verdict \in {"working", "hedged", "paused", "lost"}
    /\ plans \in Nat

\* While the strategy runs unpaused, the brokers hold what its state says: a
\* difference is explained by shares recalled and contracts an unwind left, or
\* by a recall that hit while a plan was buying UMC back.  It holds across
\* crashes, restarts, hand closes and recovery commands.
RunningMatchesBrokers ==
    Running /\ mem.mode # "PAUSED" /\ ~disturbed =>
      \A b \in Brokers : broker[b] = Held(mem.dir)[b] + alien[b]

Abs(n) == IF n < 0 THEN -n ELSE n

\* What the CCF leg leaves uncovered of the UMC leg, in units of both sizes.
Uncovered(ccf, umc) == Abs(ccf * UmcQty + umc * CcfQty)

\* The one order sent in an abnormal state only closes: outside a plan the CCF
\* leg of an open position never grows, never flips and never hedges the shares
\* that were read worse than before; once it filled, what stays uncovered of them
\* is at most half a contract (plan_recall_response, on_umc_position_drift).
UnwindOnlyReduces ==
    [][proc = "up" /\ step # "placing" /\ mem.mode = "OPEN" /\ broker'.ccf # broker.ccf =>
         /\ Abs(broker'.ccf) <= Abs(broker.ccf)
         /\ broker'.ccf * broker.ccf >= 0
         /\ Uncovered(broker'.ccf, read) <= Uncovered(broker.ccf, read)
         /\ mem'.mode = "FLAT" => 2 * Uncovered(broker'.ccf, read) <= UmcQty]_vars

\* UMC shares that went missing under an open position are noticed: the position
\* is unwound or the strategy pauses (margin_monitor.maybe_run in the loop).
DriftIsAnswered ==
    Running /\ mem.mode = "OPEN" /\ broker.umc # Held(mem.dir).umc
      ~> mem.mode # "OPEN" \/ proc # "up"

HandClosed == proc = "down" /\ broker = Flat /\ stray = 0

\* After a graceful stop, a paused pair that was closed by hand can always be
\* brought back by the recovery commands, whatever the ledger recorded of it
\* (command_recover_manual_flat: a ledger off square must not block clear-pause
\* forever).
StuckPauseClears ==
    HandClosed /\ disk.mode = "PAUSED" /\ run # "running"
      ~> disk.mode # "PAUSED" \/ proc # "down"

\* A flat strategy's entry gate that a failed reconciliation closed opens again
\* when the brokers can be read.
GateReopens ==
    Running /\ mem.mode = "FLAT" /\ gate = "closed" ~> gate = "open" \/ proc # "up"

\* A strategy that is flat, its entry gate open, holds nothing at the brokers: no
\* position survives that the strategy no longer manages.
FlatHoldsNothing ==
    Running /\ mem.mode = "FLAT" /\ gate = "open" /\ ~disturbed => broker = Flat

=============================================================================
