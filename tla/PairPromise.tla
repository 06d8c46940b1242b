---------------------------- MODULE PairPromise ----------------------------
(***************************************************************************)
(* What RealExecutionCoordinator.execute promises its caller about one     *)
(* two-leg plan, whatever the venues do: the plan never moves a leg past   *)
(* its own size or past where it found it, and only a pair that is         *)
(* executed in full lets the strategy run on.  LiveRuntime is built on     *)
(* this promise; PairCoordinator keeps it.                                 *)
(***************************************************************************)
EXTENDS Integers

CONSTANTS CcfQty, UmcQty

VARIABLES
    net,        \* what the plan has moved at each broker, in its direction
    disturbed,  \* a third party has traded UMC since the plan started
    verdict     \* "working", then "hedged", "paused", or "lost" to a crash

vars == <<net, disturbed, verdict>>

Full == [ccf |-> CcfQty, umc |-> UmcQty]

Init ==
    /\ net = [b \in {"ccf", "umc"} |-> 0]
    /\ disturbed = FALSE
    /\ verdict = "working"

\* The legs move at any time, after a pause or a crash too; a hedged pair does
\* not, unless a third party's trade was taken for one of its fills.
Move ==
    /\ verdict = "hedged" => disturbed
    /\ UNCHANGED <<disturbed, verdict>>
    /\ \E b \in {"ccf", "umc"} : \E n \in 0..Full[b] :
         net' = [net EXCEPT ![b] = n]

Disturb == disturbed' = TRUE /\ UNCHANGED <<net, verdict>>

Hedge ==
    /\ verdict = "working"
    /\ disturbed \/ \A b \in {"ccf", "umc"} : net[b] = Full[b]
    /\ verdict' = "hedged"
    /\ UNCHANGED <<net, disturbed>>

Stop ==
    /\ verdict = "working"
    /\ verdict' \in {"paused", "lost"}
    /\ UNCHANGED <<net, disturbed>>

Next == Disturb \/ Hedge \/ Stop \/ Move

Spec == Init /\ [][Next]_vars

=============================================================================
