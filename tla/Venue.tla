-------------------------------- MODULE Venue --------------------------------
(***************************************************************************)
(* What an execution adapter deals with: orders of one size that a venue   *)
(* executes in its own time, and an account that shows them later.  The    *)
(* adapter works on one order at a time; an earlier one may still be live. *)
(***************************************************************************)
EXTENDS Integers

CONSTANTS
    Qty,        \* lots or shares an order asks for
    MaxOrders,  \* bound: orders in a behaviour
    MaxThird    \* bound: trades of somebody else in the same account

ASSUME VenueAssumption == Qty \in Nat \ {0} /\ MaxOrders \in Nat /\ MaxThird \in Nat

Orders == 1..MaxOrders

VARIABLES
    side,       \* 1 buys, -1 sells; the first order buys, the rest is symmetric
    exec,       \* executed so far
    live,       \* may still execute
    placed,     \* reached the venue
    pos,        \* the true position
    view,       \* the position a query of the account shows
    third       \* trades of somebody else

venue == <<side, exec, live, placed, pos, view, third>>

VenueInit ==
    /\ side \in {s \in [Orders -> {-1, 1}] : \A o \in Orders : o = 1 => s[o] = 1}
    /\ exec = [o \in Orders |-> 0]
    /\ live = [o \in Orders |-> FALSE] /\ placed = live
    /\ pos = Qty /\ view = pos
    /\ third = 0

Reaches(o) ==
    /\ live' = [live EXCEPT ![o] = TRUE] /\ placed' = [placed EXCEPT ![o] = TRUE]
    /\ UNCHANGED <<side, exec, pos, view, third>>

Trade(o) ==
    /\ live[o]
    /\ \E n \in 1..(Qty - exec[o]) :
         /\ exec' = [exec EXCEPT ![o] = @ + n]
         /\ pos' = pos + side[o] * n
    /\ UNCHANGED <<side, live, placed, view, third>>

\* Filled, cancelled, rejected or expired.
Ends(o) ==
    /\ live[o] /\ live' = [live EXCEPT ![o] = FALSE]
    /\ UNCHANGED <<side, exec, placed, pos, view, third>>

CatchUp ==
    /\ view # pos /\ view' = pos
    /\ UNCHANGED <<side, exec, live, placed, pos, third>>

\* A recall, or an operator at another terminal.
SomebodyTrades ==
    /\ third < MaxThird /\ third' = third + 1
    /\ pos' \in {pos - 1, pos + 1}
    /\ UNCHANGED <<side, exec, live, placed, view>>

VenueNext == CatchUp \/ SomebodyTrades \/ (\E o \in Orders : Trade(o) \/ Ends(o))

\* What the account moved since a reading, in the direction of the order.
Moved(o, base, now) == side[o] * (now - base)

VenueTypeOK ==
    /\ side \in [Orders -> {-1, 1}]
    /\ exec \in [Orders -> 0..Qty]
    /\ live \in [Orders -> BOOLEAN] /\ placed \in [Orders -> BOOLEAN]
    /\ pos \in Int /\ view \in Int
    /\ third \in 0..MaxThird

=============================================================================
