------------------------------ MODULE IbkrOrder ------------------------------
(***************************************************************************)
(* IbkrUmcExecutionAdapter.execute (integrations/ibkr/execution.py) and    *)
(* place_and_confirm_umc_order of its worker (client_process.py).  The     *)
(* status of an order is a report that may be wrong; executions and the    *)
(* position decide, and the connection may go at any moment.               *)
(***************************************************************************)
EXTENDS Venue, IbkrSession, FiniteSets, FiniteSetsExt

VARIABLES
    pc,         \* where execute() is
    cur,        \* the order being worked on, 0 before the first
    base,       \* position_before
    born,       \* the session each order was sent in
    report,     \* orderStatus when the wait ended: the status and the shares filled
    told        \* the outcome, once there is one

order == <<pc, cur, base, born, report, told>>
vars  == <<venue, ibkr, order>>

NoReport == [status |-> "none", fills |-> 0]
NoRow    == [status |-> "none", filled |-> 0]

Init ==
    /\ VenueInit /\ SessionInit
    /\ pc = "idle" /\ cur = 0 /\ base = view
    /\ born = [o \in Orders |-> 0]
    /\ report = NoRow /\ told = NoReport

Tell(status, fills) ==
    /\ told' = [status |-> status, fills |-> fills]
    /\ pc' = "idle" /\ report' = NoRow

\* The positions the worker's client holds; an empty list reads as a flat account.
Position == IF known' THEN view ELSE 0

\* No leg, closed gates or less than one share: nothing is sent.  So with a
\* request that fails before the order goes out, which is reported unknown.
NotSent ==
    /\ pc = "idle" /\ cur < MaxOrders
    /\ cur' = cur + 1
    /\ Tell("rejected", 0) \/ Tell("unknown", 0)
    /\ UNCHANGED <<venue, ibkr, base, born>>

\* The position is read, then the order is sent.
Begin ==
    /\ pc = "idle" /\ cur < MaxOrders
    /\ cur' = cur + 1
    /\ ReadPositions
    /\ base' = Position
    /\ born' = [born EXCEPT ![cur'] = session']
    /\ pc' = "wait" /\ told' = NoReport
    /\ UNCHANGED <<venue, report>>

\* It arrives only on the connection it was sent on.
Arrives ==
    /\ pc # "idle" /\ ~placed[cur]
    /\ link = "up" /\ born[cur] = session
    /\ Reaches(cur)
    /\ UNCHANGED <<ibkr, order>>

\* What the status may say.  A warning reads as a cancellation of an order that
\* lives on (error 10349).
Rows ==
    {[status |-> "Submitted", filled |-> n] : n \in 0..exec[cur]}
      \cup {[status |-> "Cancelled", filled |-> 0]}
      \cup {[status |-> "Cancelled", filled |-> n] :
              n \in {k \in {exec[cur]} : placed[cur] /\ ~live[cur] /\ k < Qty}}
      \cup {[status |-> "Filled", filled |-> Qty] : o \in {cur} \cap {p \in Orders : exec[p] = Qty}}

\* A terminal status, or the end of the wait and the query that follows it.
WaitEnds ==
    /\ pc = "wait" /\ pc' = "account"
    /\ report' \in Rows
    /\ EnsureConnected /\ UNCHANGED <<ticker, verified, known>>
    /\ UNCHANGED <<venue, cur, base, born, told>>

\* Order ids start over with every connection.
OrderId(o) == Cardinality({p \in 1..o : born[p] = born[o]})

Namesakes == {o \in 1..cur : OrderId(o) = OrderId(cur) /\ born[o] # 0}

SharesOf(orders) == MapThenSumSet(LAMBDA o : exec[o], orders)

\* No earlier order of this id executed anything.
NameIsOwn == \A o \in Namesakes \ {cur} : exec[o] = 0

\* _umc_execution_shares: what the account lists under the id of the order.
Listed == IF NameIsOwn THEN exec[cur] ELSE SharesOf(Namesakes)

Unfilled == report = [status |-> "Cancelled", filled |-> 0]

Larger(m, n) == IF m < n THEN n ELSE m

\* The classification, mapped to an outcome by _outcome_from_result.
ByAccount(shares, moved) ==
    LET filled == Larger(report.filled, shares)
    IN  IF report.status = "Filled" \/ report.filled = Qty
        THEN [status |-> "filled", fills |-> Qty]
        ELSE IF shares = Qty \/ moved = Qty
        THEN [status |-> "filled", fills |-> Larger(filled, Qty)]
        ELSE [status |-> IF Unfilled /\ shares = 0 /\ moved = 0 THEN "failed" ELSE "unknown",
              fills  |-> filled]

\* Mutant: a terminal status without fills is taken at its word.
ByStatus(shares, moved) ==
    IF Unfilled THEN [status |-> "failed", fills |-> 0] ELSE ByAccount(shares, moved)

Classify(shares, moved) == ByAccount(shares, moved)

\* The settle wait re-reads executions and position until one of them moved or
\* its time is over; a list of executions that is not refreshed may be short.
Conclude ==
    /\ pc = "account"
    /\ ReadPositions
    /\ \E shares \in 0..Listed :
         LET said == Classify(shares, Moved(cur, base, Position))
         IN  Tell(said.status, said.fills)
    /\ UNCHANGED <<venue, cur, base, born>>

\* Any exception on the way, or a worker that died or ran out of time.
Breaks ==
    /\ pc # "idle"
    /\ Tell("unknown", 0)
    /\ UNCHANGED ibkr \/ Killed
    /\ UNCHANGED <<venue, cur, base, born>>

\* Between orders the same client answers quotes and reads, and is reconnected.
Request ==
    /\ pc = "idle"
    /\ Connect \/ ForceReconnect \/ ReadPositions \/ Quote \/ Killed
    /\ UNCHANGED <<venue, order>>

Link == (Dies \/ Drops) /\ UNCHANGED <<venue, order>>

\* Positions are pushed to a client that is connected.
AtVenue == VenueNext /\ (link = "dead" => view' = view) /\ UNCHANGED <<ibkr, order>>

Adapter == NotSent \/ Begin \/ WaitEnds \/ Conclude \/ Breaks

Next == AtVenue \/ Link \/ Arrives \/ Request \/ Adapter

Spec == Init /\ [][Next]_vars


-----------------------------------------------------------------------------
(* Properties *)

TypeOK ==
    /\ VenueTypeOK /\ SessionTypeOK
    /\ pc \in {"idle", "wait", "account"}
    /\ cur \in 0..MaxOrders /\ base \in Int
    /\ born \in [Orders -> 0..MaxSessions]
    /\ report.status \in {"none", "Submitted", "Cancelled", "Filled"} /\ report.filled \in 0..Qty
    /\ told.status \in {"none", "filled", "failed", "rejected", "unknown"}
    /\ told.fills \in Nat

\* What the client serves from its caches was asked for on the connection it
\* has, through drops, kills, and closes that fail half way.
ServesThisSession ==
    /\ ticker # 0 => ticker = session
    /\ verified => known

\* Shares this order actually executed: no other order's executions are counted.
ListsOwnExecutions == pc = "account" => Listed <= exec[cur]

=============================================================================
