---------------------------- MODULE VenuePromise ----------------------------
(***************************************************************************)
(* What the pair coordinator relies on when it calls an execution adapter: *)
(* an order reaches its venue at most once, is reported on once, and what  *)
(* the report says was filled was either executed or moved at the account  *)
(* by as much.  A report need not wait for its order to end.               *)
(***************************************************************************)
EXTENDS Venue

VARIABLES
    cur,        \* the order being worked on, 0 before the first
    base,       \* the position shown before it was placed
    told        \* what was reported of it

vars == <<venue, cur, base, told>>

NoReport == [status |-> "none", fills |-> 0]

Init ==
    /\ VenueInit
    /\ cur = 0 /\ base = view /\ told = NoReport

AtVenue == VenueNext /\ UNCHANGED <<cur, base, told>>

Open == cur # 0 /\ told = NoReport
Idle == cur < MaxOrders /\ ~Open

\* The next order; the position is read before it goes out.
Begin ==
    /\ Idle
    /\ cur' = cur + 1 /\ base' = view /\ told' = NoReport
    /\ UNCHANGED venue

Place ==
    /\ Open /\ ~placed[cur]
    /\ Reaches(cur)
    /\ UNCHANGED <<cur, base, told>>

\* A fill is claimed on executions, or on what the account moved.
Backed(fills) == fills <= exec[cur] \/ fills <= Moved(cur, base, view)

Report(status, fills) ==
    /\ Open
    /\ status = "filled" <=> fills = Qty
    /\ status \in {"rejected", "failed"} => fills = 0
    /\ fills > 0 => Backed(fills)
    /\ told' = [status |-> status, fills |-> fills]
    /\ UNCHANGED <<venue, cur, base>>

\* An order that is turned down never reaches its venue.
TurnDown ==
    /\ Idle
    /\ cur' = cur + 1
    /\ told' \in {[status |-> s, fills |-> 0] : s \in {"rejected", "failed", "unknown"}}
    /\ UNCHANGED <<venue, base>>

Statuses == {"filled", "partial_fill", "failed", "unknown"}

Next == \/ AtVenue \/ Begin \/ Place \/ TurnDown
        \/ \E status \in Statuses, fills \in 0..Qty : Report(status, fills)

Spec == Init /\ [][Next]_vars

=============================================================================
