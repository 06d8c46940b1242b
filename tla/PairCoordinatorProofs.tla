----------------------- MODULE PairCoordinatorProofs -----------------------
(***************************************************************************)
(* Proofs about PairCoordinator, for every size of the legs and every      *)
(* number of recalled shares.                                              *)
(***************************************************************************)
EXTENDS PairCoordinator, TLAPS

-----------------------------------------------------------------------------
(* What the operators return *)

\* A position is a whole number.
LEMMA PosType ==
    ASSUME TypeOK, NEW b \in Brokers
    PROVE  Pos(b) \in Int
<1>1. Net(b) \in Int
  BY DEF TypeOK, Net, Reversal, Brokers, OrderIds, FubonOrders, IbkrOrders
<1>2. start[b] \in Int /\ recalled \in Int
  BY DEF TypeOK
<1> QED BY <1>1, <1>2 DEF Pos, Signed

\* So is what a broker's account query shows.
LEMMA SeenType ==
    ASSUME TypeOK, NEW b \in Brokers
    PROVE  Seen(b) \in Int
BY PosType DEF Seen, TypeOK

\* The account moved by a whole number.
LEMMA DeltaType ==
    ASSUME TypeOK, NEW o \in OrderIds
    PROVE  Delta(o) \in Int
<1>1. Broker(o) \in Brokers
  BY DEF Broker, Brokers
<1>2. Seen(Broker(o)) \in Int
  BY <1>1, SeenType
<1>3. order[o].base \in Int
  BY DEF TypeOK
<1> QED BY <1>2, <1>3 DEF Delta, Signed

\* What Fubon can be made to say about an order is a number of lots.
LEMMA EvidenceType ==
    ASSUME TypeOK, NEW o \in OrderIds
    PROVE  FubonEvidence(o) \subseteq Nat
<1>1. order[o].qty \in Nat /\ order[o].exec \in Nat
  BY DEF TypeOK
<1>2. DeltaFill(o) \in Nat
  BY <1>1, DeltaType DEF DeltaFill
<1> QED BY <1>1, <1>2 DEF FubonEvidence

\* An order is for a number of lots or shares.
LEMMA OrderQtyType ==
    ASSUME TypeOK, NEW o \in OrderIds
    PROVE  OrderQty(o) \in Nat
<1>1. Broker(o) \in OrderIds
  BY DEF Broker, OrderIds, FubonOrders, IbkrOrders
<1>2. report[Broker(o)].fills \in Nat
  BY <1>1 DEF TypeOK
<1> QED BY <1>2, QtyAssumption DEF OrderQty, Qty

-----------------------------------------------------------------------------
(* Type correctness *)

\* Every initial state is well typed.
LEMMA InitType == Init => TypeOK
BY QtyAssumption DEF Init, TypeOK, Plans, NoOrder, NoReport, Qty, Brokers,
   OrderIds, FubonOrders, IbkrOrders, Statuses, AttemptStates

\* The venues and the accounts keep the types.
LEMMA VenuesKeepType ==
    ASSUME TypeOK, Venues
    PROVE  TypeOK'
<1>1. CASE Recall
  BY <1>1 DEF TypeOK, Recall
<1>2. ASSUME NEW o \in OrderIds, Trade(o)
      PROVE  TypeOK'
  BY <1>2 DEF TypeOK, Trade
<1>3. ASSUME NEW o \in OrderIds, Expire(o)
      PROVE  TypeOK'
  BY <1>3 DEF TypeOK, Expire
<1>4. ASSUME NEW b \in Brokers, CatchUp(b)
      PROVE  TypeOK'
  <2>1. Pos(b) \in Int
    BY PosType
  <2> QED BY <1>4, <2>1 DEF TypeOK, CatchUp
<1> QED BY <1>1, <1>2, <1>3, <1>4 DEF Venues

\* An adapter call that returns a number of fills keeps the types.
LEMMA ReturnKeepsType ==
    ASSUME TypeOK, NEW status \in Statuses, NEW fills \in Nat, Return(status, fills)
    PROVE  TypeOK'
BY DEF TypeOK, Return, venueVars

\* Whatever an adapter does keeps the types.
LEMMA AdapterKeepsType ==
    ASSUME TypeOK, Adapter
    PROVE  TypeOK'
<1>0. cur \in OrderIds /\ order[cur].qty \in Nat /\ order[cur].exec \in Nat
  BY DEF TypeOK
<1>1. CASE PlaceOrder
  <2>1. Broker(cur) \in Brokers
    BY DEF Broker, Brokers
  <2>2. Seen(Broker(cur)) \in Int
    BY <2>1, SeenType
  <2>3. OrderQty(cur) \in Nat
    BY <1>0, OrderQtyType
  <2> QED BY <1>1, <2>2, <2>3 DEF TypeOK, PlaceOrder
<1>2. CASE NothingSent
  BY <1>2, ReturnKeepsType DEF NothingSent, Statuses
<1>3. CASE FubonReports
  <2>1. PICK fills \in FubonEvidence(cur) :
          \E status \in FubonStatus(cur, fills) : Return(status, fills)
    BY <1>3 DEF FubonReports
  <2>2. fills \in Nat
    BY <1>0, <2>1, EvidenceType
  <2>3. FubonStatus(cur, fills) \subseteq Statuses
    BY DEF FubonStatus, Statuses
  <2> QED BY <2>1, <2>2, <2>3, ReturnKeepsType
<1>4. CASE IbkrReportsFilled
  BY <1>0, <1>4, ReturnKeepsType DEF IbkrReportsFilled, Statuses
<1>5. CASE IbkrReportsFailed
  BY <1>5, ReturnKeepsType DEF IbkrReportsFailed, Statuses
<1>6. CASE IbkrReportsUnknown
  BY <1>0, <1>6, ReturnKeepsType DEF IbkrReportsUnknown, Statuses
<1>7. CASE WorkerLost
  BY <1>7, ReturnKeepsType DEF WorkerLost, Statuses
<1>8. CASE AdapterRaises
  BY <1>8, ReturnKeepsType DEF AdapterRaises, Statuses
<1> QED BY <1>1, <1>2, <1>3, <1>4, <1>5, <1>6, <1>7, <1>8 DEF Adapter

\* An outcome is well formed.
LEMMA FinishType ==
    ASSUME NEW status \in Statuses \cup {"none"}, NEW reversed \in BOOLEAN,
           Finish(status, reversed)
    PROVE  outcome' \in [status : Statuses \cup {"none"}, paused : BOOLEAN]
<1>1. (status # "filled" \/ reversed) \in BOOLEAN
  OBVIOUS
<1> QED BY <1>1 DEF Finish

\* So does every step of the coordinator.
LEMMA CoordinatorKeepsType ==
    ASSUME TypeOK, Coordinator
    PROVE  TypeOK'
<1>1. CASE RejectInvalidPlan
  BY <1>1 DEF TypeOK, RejectInvalidPlan, Finish, venueVars, Statuses
<1>2. CASE CheckPositions
  <2>1. outcome' \in [status : Statuses \cup {"none"}, paused : BOOLEAN]
    BY <1>2, FinishType DEF TypeOK, CheckPositions, Statuses
  <2>2. pc' \in {"baseline", "done"}
    BY <1>2 DEF CheckPositions, Finish
  <2> QED BY <1>2, <2>1, <2>2 DEF TypeOK, CheckPositions, venueVars
<1>3. CASE TakeBaseline
  <2>1. Readings("umc") \subseteq Int \cup {Unreadable}
    BY SeenType DEF Readings, Brokers
  <2> QED BY <1>3, <2>1 DEF TypeOK, TakeBaseline, venueVars
<1>4. CASE StartAttempt
  <2>1. attempt' \in [FubonOrders -> [mem : AttemptStates, disk : AttemptStates]]
    BY <1>4 DEF TypeOK, StartAttempt, AttemptStates
  <2> QED BY <1>4, <2>1 DEF TypeOK, StartAttempt, venueVars
<1>5. CASE CcfReturned
  <2>1. report["ccf"].status \in Statuses \cup {"none"}
    BY DEF TypeOK, OrderIds, FubonOrders
  <2>2. attempt' \in [FubonOrders -> [mem : AttemptStates, disk : AttemptStates]]
    BY <1>5, <2>1 DEF TypeOK, CcfReturned, AttemptStates
  <2>3. pc' \in {"call", "done"} /\ cur' \in OrderIds
    BY <1>5 DEF TypeOK, CcfReturned, Finish, Reverse, Reversal, OrderIds,
       FubonOrders, IbkrOrders
  <2>4. outcome' \in [status : Statuses \cup {"none"}, paused : BOOLEAN]
    BY <1>5, <2>1, FinishType DEF TypeOK, CcfReturned
  <2>5. events' \in SUBSET EventTypes
    BY <1>5 DEF TypeOK, CcfReturned, Reverse, EventTypes
  <2> QED BY <1>5, <2>2, <2>3, <2>4, <2>5 DEF TypeOK, CcfReturned, venueVars
<1>6. CASE UmcReturned
  <2>1. report["umc"].status \in Statuses \cup {"none"}
    BY DEF TypeOK, OrderIds, IbkrOrders
  <2>2. pc' \in {"call", "done"} /\ cur' \in OrderIds
    BY <1>6 DEF TypeOK, UmcReturned, Finish, Reverse, Reversal, OrderIds,
       FubonOrders, IbkrOrders
  <2>3. outcome' \in [status : Statuses \cup {"none"}, paused : BOOLEAN]
    BY <1>6, <2>1, FinishType DEF TypeOK, UmcReturned, Statuses
  <2>4. events' \in SUBSET EventTypes
    BY <1>6 DEF TypeOK, UmcReturned, Reverse, EventTypes
  <2> QED BY <1>6, <2>2, <2>3, <2>4 DEF TypeOK, UmcReturned, venueVars
<1>7. CASE EmergencyReturned
  <2>1. /\ report["umc"].status \in Statuses \cup {"none"}
        /\ report["ccf"].status \in Statuses \cup {"none"}
    BY DEF TypeOK, OrderIds, FubonOrders, IbkrOrders
  <2>2. pc' \in {"call", "done"} /\ cur' \in OrderIds
    BY <1>7 DEF TypeOK, EmergencyReturned, Finish, OrderIds, FubonOrders, IbkrOrders
  <2>3. outcome' \in [status : Statuses \cup {"none"}, paused : BOOLEAN]
    <3>1. CASE cur = "ccfX" /\ report.umc.fills > 0
      BY <1>7, <3>1 DEF TypeOK, EmergencyReturned
    <3>2. CASE ~(cur = "ccfX" /\ report.umc.fills > 0)
      BY <1>7, <2>1, <3>2, FinishType DEF EmergencyReturned
    <3> QED BY <3>1, <3>2
  <2>4. EmergencyEvents(cur) \subseteq EventTypes
    BY DEF EmergencyEvents, EventTypes
  <2>5. events' \in SUBSET EventTypes
    BY <1>7, <2>4 DEF TypeOK, EmergencyReturned, EventTypes
  <2> QED BY <1>7, <2>2, <2>3, <2>5 DEF TypeOK, EmergencyReturned, venueVars
<1> QED BY <1>1, <1>2, <1>3, <1>4, <1>5, <1>6, <1>7 DEF Coordinator

\* TypeOK is inductive by itself.
LEMMA TypeIsKept == TypeOK /\ [Next]_vars => TypeOK'
<1> SUFFICES ASSUME TypeOK, [Next]_vars PROVE TypeOK'
  OBVIOUS
<1>1. CASE Crash
  BY <1>1 DEF TypeOK, Crash, venueVars
<1>2. CASE UNCHANGED vars
  BY <1>2 DEF TypeOK, vars
<1> QED BY <1>1, <1>2, VenuesKeepType, AdapterKeepsType, CoordinatorKeepsType DEF Next

\* TypeOK holds in every reachable state, whatever the brokers do.
THEOREM TypeCorrect == Spec => []TypeOK
BY InitType, TypeIsKept, PTL DEF Spec

-----------------------------------------------------------------------------
(* The order of the orders *)

Before == {"recv", "baseline", "intent"}

\* The orders that may still follow o.
After(o) == IF o = "ccf" THEN {"umc", "ccfX", "umcX"}
            ELSE IF o = "umc" THEN {"ccfX", "umcX"}
            ELSE IF o = "ccfX" THEN {"umcX"} ELSE {}

\* An order is worked on once: what follows is neither placed nor reported.
InTurn ==
    /\ pc \in Before => cur = "ccf"
    /\ \A o \in After(cur) : order[o].qty = 0 /\ report[o] = NoReport
    /\ pc \in Before \cup {"call"} => order[cur].qty = 0
    /\ pc \in Before \cup {"call", "wait"} => report[cur] = NoReport

\* The strengthening that makes IntentIsDurable inductive.
DurableInv == (pc = "call" /\ cur = "ccf" => attempt["ccf"].disk = "submitting")
              /\ IntentIsDurable

\* Placing and reporting keep the turn of the orders.
LEMMA AdapterKeepsTurn ==
    ASSUME TypeOK, InTurn, Adapter
    PROVE  InTurn'
<1>0. cur \in OrderIds /\ cur \notin After(cur) /\ After(cur) \subseteq OrderIds
  BY DEF TypeOK, After, OrderIds, FubonOrders, IbkrOrders
<1>1. ASSUME NEW status, NEW fills, Return(status, fills)
      PROVE  InTurn'
  <2>1. cur' = cur /\ order' = order /\ pc' = "ret"
    BY <1>1 DEF Return, venueVars
  <2>2. \A o \in After(cur) : report'[o] = report[o]
    BY <1>0, <1>1 DEF TypeOK, Return
  <2> QED BY <2>1, <2>2 DEF InTurn, Before
<1>2. CASE PlaceOrder
  <2>1. cur' = cur /\ report' = report /\ pc = "call" /\ pc' = "wait"
    BY <1>2 DEF PlaceOrder
  <2>2. \A o \in After(cur) : order'[o] = order[o]
    BY <1>0, <1>2 DEF TypeOK, PlaceOrder
  <2> QED BY <2>1, <2>2 DEF InTurn, Before
<1> QED BY <1>1, <1>2 DEF Adapter, NothingSent, FubonReports, IbkrReportsFilled,
        IbkrReportsFailed, IbkrReportsUnknown, WorkerLost, AdapterRaises

\* The coordinator only moves on to an order that comes after.
LEMMA CoordinatorKeepsTurn ==
    ASSUME TypeOK, InTurn, Coordinator
    PROVE  InTurn'
<1>0. order' = order /\ report' = report
  BY DEF Coordinator, RejectInvalidPlan, CheckPositions, TakeBaseline, StartAttempt,
     CcfReturned, UmcReturned, EmergencyReturned, venueVars
<1>1. CASE RejectInvalidPlan \/ CheckPositions \/ TakeBaseline \/ StartAttempt
  <2>1. pc \in Before /\ pc' \in Before \cup {"call", "done"} /\ cur' = cur
    BY <1>1 DEF RejectInvalidPlan, CheckPositions, TakeBaseline, StartAttempt,
       Finish, Before
  <2> QED BY <1>0, <2>1 DEF InTurn, Before
<1>2. CASE CcfReturned \/ UmcReturned \/ EmergencyReturned
  <2>1. \/ cur' = cur /\ pc' = "done"
        \/ cur' \in After(cur) /\ pc' = "call"
    BY <1>2 DEF CcfReturned, UmcReturned, EmergencyReturned, Finish, Reverse,
       Reversal, After
  <2>2. CASE cur' = cur /\ pc' = "done"
    BY <1>0, <2>2 DEF InTurn, Before
  <2>3. CASE cur' \in After(cur) /\ pc' = "call"
    <3>1. After(cur') \subseteq After(cur)
      BY <2>3 DEF After
    <3> QED BY <1>0, <2>3, <3>1 DEF InTurn, Before
  <2> QED BY <2>1, <2>2, <2>3
<1> QED BY <1>1, <1>2 DEF Coordinator

\* The venues change no quantity and no report.
LEMMA VenuesKeepTurn ==
    ASSUME TypeOK, InTurn, Venues
    PROVE  InTurn'
<1>0. cur \in OrderIds /\ After(cur) \subseteq OrderIds
  BY DEF TypeOK, After, OrderIds, FubonOrders, IbkrOrders
<1>1. UNCHANGED <<pc, cur, report>>
  BY DEF Venues, Recall, Trade, Expire, CatchUp
<1>2. \A o \in OrderIds : order'[o].qty = order[o].qty
  <2>1. CASE \E o \in OrderIds : Trade(o) \/ Expire(o)
    BY <2>1 DEF Trade, Expire, TypeOK
  <2>2. CASE Recall \/ \E b \in Brokers : CatchUp(b)
    BY <2>2 DEF Recall, CatchUp
  <2> QED BY <2>1, <2>2 DEF Venues
<1> QED BY <1>0, <1>1, <1>2 DEF InTurn

\* The orders are placed one after the other, each at most once.
LEMMA TurnIsKept == TypeOK /\ InTurn /\ [Next]_vars => InTurn'
<1> SUFFICES ASSUME TypeOK, InTurn, [Next]_vars PROVE InTurn'
  OBVIOUS
<1>1. CASE Crash
  BY <1>1 DEF Crash, InTurn, Before, venueVars
<1>2. CASE UNCHANGED vars
  BY <1>2 DEF InTurn, vars
<1> QED BY <1>1, <1>2, AdapterKeepsTurn, CoordinatorKeepsTurn, VenuesKeepTurn DEF Next

\* It holds when execute() is entered.
LEMMA InitTurn == Init => InTurn
BY DEF Init, InTurn, After, NoOrder, OrderIds, FubonOrders, IbkrOrders

-----------------------------------------------------------------------------
(* Durability *)

\* No step takes the attempt row off the disk or places the CCF leg without it.
LEMMA DurableIsKept == TypeOK /\ InTurn /\ DurableInv /\ [Next]_vars => DurableInv'
<1> SUFFICES ASSUME TypeOK, InTurn, DurableInv, [Next]_vars PROVE DurableInv'
  OBVIOUS
<1> USE DEF DurableInv, IntentIsDurable, Placed
<1>0. "ccf" \in OrderIds /\ "ccf" \in FubonOrders
  BY DEF OrderIds, FubonOrders
<1>1. CASE Venues
  <2>1. UNCHANGED <<pc, cur, attempt>>
    BY <1>1 DEF Venues, Recall, Trade, Expire, CatchUp
  <2>2. order'["ccf"].qty = order["ccf"].qty
    BY <1>0, <1>1 DEF Venues, Recall, Trade, Expire, CatchUp, TypeOK
  <2> QED BY <2>1, <2>2
<1>2. CASE PlaceOrder
  <2>1. attempt' = attempt /\ pc = "call" /\ pc' = "wait"
    BY <1>2 DEF PlaceOrder
  <2>2. cur # "ccf" => order'["ccf"] = order["ccf"]
    BY <1>0, <1>2 DEF PlaceOrder, TypeOK
  <2> QED BY <2>1, <2>2
<1>3. ASSUME NEW status, NEW fills, Return(status, fills)
      PROVE  DurableInv'
  BY <1>3 DEF Return, venueVars
<1>4. CASE StartAttempt
  <2>1. cur = "ccf"
    BY <1>4 DEF StartAttempt, InTurn, Before
  <2>2. attempt'["ccf"].disk = "submitting"
    BY <1>0, <1>4, <2>1 DEF StartAttempt, TypeOK
  <2> QED BY <2>2
<1>5. CASE CcfReturned
  <2>1. attempt'["ccf"].disk = attempt["ccf"].disk
    BY <1>0, <1>5 DEF CcfReturned, TypeOK
  <2>2. order' = order /\ ~(pc' = "call" /\ cur' = "ccf")
    BY <1>5 DEF CcfReturned, Finish, Reverse, Reversal, venueVars
  <2> QED BY <2>1, <2>2
<1>6. CASE UmcReturned \/ EmergencyReturned
  BY <1>6 DEF UmcReturned, EmergencyReturned, Finish, Reverse, Reversal, venueVars
<1>7. CASE RejectInvalidPlan \/ CheckPositions \/ TakeBaseline
  BY <1>7 DEF RejectInvalidPlan, CheckPositions, TakeBaseline, Finish, venueVars
<1>8. CASE Crash
  <2>1. attempt'["ccf"].disk = attempt["ccf"].disk
    BY <1>0, <1>8 DEF Crash, TypeOK
  <2> QED BY <1>8, <2>1 DEF Crash, venueVars
<1>9. CASE UNCHANGED vars
  BY <1>9 DEF vars
<1> QED BY <1>1, <1>2, <1>3, <1>4, <1>5, <1>6, <1>7, <1>8, <1>9
        DEF Next, Adapter, Coordinator, NothingSent, FubonReports, IbkrReportsFilled,
        IbkrReportsFailed, IbkrReportsUnknown, WorkerLost, AdapterRaises

\* The CCF leg is never at Fubon without its attempt row on disk.
THEOREM IntentDurable == Spec => []IntentIsDurable
<1>1. Init => DurableInv
  BY DEF Init, DurableInv, IntentIsDurable, Placed, NoOrder, OrderIds, FubonOrders
<1>2. TypeOK /\ InTurn /\ DurableInv /\ [Next]_vars => DurableInv'
  BY DurableIsKept
<1>3. DurableInv => IntentIsDurable
  BY DEF DurableInv
<1>4. Spec => []TypeOK
  BY TypeCorrect
<1> QED BY <1>1, <1>2, <1>3, <1>4, InitTurn, TurnIsKept, PTL DEF Spec

-----------------------------------------------------------------------------
(* The accounts, seen from the plan *)

\* What third parties moved at a broker, in the direction of the plan's leg: a
\* recall helps a leg that buys UMC and works against one that sells.
Drift(b) == IF b = "umc" THEN Signed(Buys("umc"), recalled) ELSE 0

\* What the account shows the broker's position to have moved.
Shown(b) == Signed(Buys(b), Seen(b) - start[b])

\* The same of the reading an order was placed on.
Based(o) == Signed(Buys(Broker(o)), order[o].base - start[Broker(o)])

\* The plan of an order's sizes: a leg is the plan's, a reversal what its leg
\* reported.
Sizes ==
    /\ order["ccf"].qty \in {0, CcfQty} /\ order["umc"].qty \in {0, UmcQty}
    /\ order["ccfX"].qty \in {0, report["ccf"].fills}
    /\ order["umcX"].qty \in {0, report["umc"].fills}
    /\ pc = "wait" => order[cur].qty = OrderQty(cur)

\* What an order reports, or is sized by, its leg has executed.  A UMC leg that
\* is reported filled may owe that to a recall, but it is never reversed.
Quantities ==
    /\ \A o \in OrderIds : order[o].exec <= order[o].qty
    /\ order["ccfX"].qty <= order["ccf"].exec
    /\ order["umcX"].qty <= order["umc"].exec
    /\ report["ccf"].fills <= order["ccf"].exec
    /\ report["umc"].status # "filled" => report["umc"].fills <= order["umc"].exec
    /\ cur \in Emergency => report["umc"].status # "filled"

\* Lagging or not, an account that nobody else moved the plan's way never shows
\* a leg, since the start or since the order was placed, to have moved further
\* than it executed; nor its reversal, where nobody else trades at all.
Accounts ==
    \A b \in Brokers : Drift(b) <= 0 =>
      /\ Shown(b) <= order[b].exec
      /\ order[Reversal(b)].qty = 0 => Drift(b) <= Shown(b)
      /\ pc = "wait" /\ cur = b =>
           Drift(b) <= Based(b) /\ Shown(b) - Based(b) <= order[b].exec
      /\ pc = "wait" /\ cur = Reversal(b) /\ Drift(b) = 0 =>
           /\ Based(Reversal(b)) <= order[b].exec
           /\ Based(Reversal(b)) - Shown(b) <= order[Reversal(b)].exec

FlipInv == InTurn /\ Sizes /\ Quantities /\ Accounts

\* The names and ranges that every proof below needs.
InRange ==
    /\ cur \in OrderIds
    /\ \A o \in OrderIds : /\ order[o].qty \in Nat /\ order[o].exec \in Nat
                           /\ order[o].base \in Int /\ order[o].open \in BOOLEAN
                           /\ report[o].fills \in Nat
    /\ \A b \in Brokers : start[b] \in Int /\ view[b] \in Int /\ Seen(b) \in Int
    /\ recalled \in Nat

LEMMA Ranges == TypeOK => InRange
BY SeenType DEF TypeOK, InRange

\* Which order belongs to which broker, and which reverses it.
LEMMA Names ==
    /\ OrderIds = {"ccf", "umc", "ccfX", "umcX"} /\ Brokers = {"ccf", "umc"}
    /\ Broker("ccf") = "ccf" /\ Broker("ccfX") = "ccf"
    /\ Broker("umc") = "umc" /\ Broker("umcX") = "umc"
    /\ Reversal("ccf") = "ccfX" /\ Reversal("umc") = "umcX"
    /\ CcfQty \in Nat \ {0} /\ UmcQty \in Nat \ {0}
BY QtyAssumption DEF Broker, Reversal, FubonOrders, IbkrOrders, OrderIds, Brokers

\* The measures are whole numbers, and the position is the start with what the
\* plan and the third parties moved.
Measured ==
    \A b \in Brokers :
      /\ Drift(b) \in Int /\ Shown(b) \in Int /\ Net(b) \in Int
      /\ Based(b) \in Int /\ Based(Reversal(b)) \in Int
      /\ Signed(Buys(b), Pos(b) - start[b]) = Net(b) + Drift(b)

LEMMA Measures == TypeOK => Measured
<1> SUFFICES ASSUME TypeOK, NEW b \in Brokers
             PROVE  /\ Drift(b) \in Int /\ Shown(b) \in Int /\ Net(b) \in Int
                    /\ Based(b) \in Int /\ Based(Reversal(b)) \in Int
                    /\ Signed(Buys(b), Pos(b) - start[b]) = Net(b) + Drift(b)
  BY DEF Measured
<1>1. Net(b) \in Int
  BY Ranges, Names DEF Net, InRange
<1> QED BY <1>1, Ranges, Names DEF InRange, Drift, Shown, Based, Pos, Signed

\* What the venues and the accounts may do in a step: orders fill within their
\* size, recalls add up, and an account shows what it showed or what is true.
LEMMA VenuesStep ==
    ASSUME TypeOK, Quantities, Venues
    PROVE  /\ UNCHANGED <<plan, start, pc, cur, baseline, report, events, outcome>>
           /\ \E n \in Nat : recalled' = recalled + n
           /\ \A o \in OrderIds : /\ order'[o].qty = order[o].qty
                                  /\ order'[o].base = order[o].base
                                  /\ order[o].exec <= order'[o].exec
                                  /\ order'[o].exec <= order'[o].qty
           /\ \A b \in Brokers : Seen(b)' \in {Seen(b), Pos(b)'}
<1>1. CASE Recall
  <2>1. order' = order /\ view' = view /\ \E n \in Nat : recalled' = recalled + n
    BY <1>1 DEF Recall
  <2>2. \A b \in Brokers : Seen(b)' \in {Seen(b), Pos(b)'}
    BY <2>1 DEF Seen
  <2> QED BY <1>1, <2>1, <2>2, Ranges DEF Recall, Quantities, InRange
<1>2. ASSUME NEW o \in OrderIds, Trade(o)
      PROVE  /\ recalled' = recalled /\ view' = view
             /\ UNCHANGED <<plan, start, pc, cur, baseline, report, events, outcome>>
             /\ \A q \in OrderIds : /\ order'[q].qty = order[q].qty
                                    /\ order'[q].base = order[q].base
                                    /\ order[q].exec <= order'[q].exec
                                    /\ order'[q].exec <= order'[q].qty
  <2>1. PICK n \in 1..(order[o].qty - order[o].exec) :
          order' = [order EXCEPT ![o].exec = @ + n]
    BY <1>2 DEF Trade
  <2>2. \A q \in OrderIds : /\ order'[q].qty = order[q].qty
                            /\ order'[q].base = order[q].base
                            /\ order'[q].exec = IF q = o THEN order[q].exec + n
                                                ELSE order[q].exec
    BY <2>1 DEF TypeOK
  <2> QED BY <1>2, <2>2, Ranges DEF Trade, Quantities, InRange
<1>3. ASSUME NEW o \in OrderIds, Expire(o)
      PROVE  /\ recalled' = recalled /\ view' = view
             /\ UNCHANGED <<plan, start, pc, cur, baseline, report, events, outcome>>
             /\ \A q \in OrderIds : /\ order'[q].qty = order[q].qty
                                    /\ order'[q].base = order[q].base
                                    /\ order'[q].exec = order[q].exec
  BY <1>3 DEF Expire, TypeOK
<1>4. ASSUME NEW b \in Brokers, CatchUp(b)
      PROVE  \A c \in Brokers : Seen(c)' \in {Seen(c), Pos(c)'}
  <2>1. UNCHANGED <<plan, start, order, recalled>> /\ AccountsLag
    BY <1>4 DEF CatchUp
  <2>2. \A c \in Brokers : view'[c] \in {view[c], Pos(c)}
    BY <1>4 DEF CatchUp, TypeOK
  <2>3. \A c \in Brokers : Pos(c)' = Pos(c)
    BY <2>1 DEF Pos, Net, Buys
  <2> QED BY <2>1, <2>2, <2>3 DEF Seen
<1>5. ASSUME view' = view PROVE \A b \in Brokers : Seen(b)' \in {Seen(b), Pos(b)'}
  BY <1>5 DEF Seen
<1>6. CASE \E o \in OrderIds : Trade(o) \/ Expire(o)
  <2>1. recalled' = recalled + 0
    BY <1>2, <1>3, <1>6, Ranges DEF InRange
  <2> QED BY <2>1, <1>2, <1>3, <1>5, <1>6, Ranges DEF Quantities, InRange
<1>7. CASE \E b \in Brokers : CatchUp(b)
  <2>1. UNCHANGED <<plan, start, recalled, order, pc, cur, baseline, report,
                    events, outcome>>
    BY <1>7 DEF CatchUp
  <2>2. \A b \in Brokers : Seen(b)' \in {Seen(b), Pos(b)'}
    BY <1>4, <1>7
  <2>3. recalled' = recalled + 0
    BY <2>1, Ranges DEF InRange
  <2> QED BY <2>1, <2>2, <2>3, Ranges DEF Quantities, InRange
<1> QED BY <1>1, <1>6, <1>7 DEF Venues

\* The venues keep sizes, quantities and what the accounts show.
LEMMA VenuesKeepFlip ==
    ASSUME TypeOK, FlipInv, Venues
    PROVE  (Sizes /\ Quantities /\ Accounts)'
<1>0. TypeOK'
  BY VenuesKeepType
<1>1. InRange /\ InRange' /\ Measured /\ Measured'
  BY <1>0, Ranges, Measures, PTL
<1>2. Sizes'
  BY <1>1, VenuesStep, Names DEF FlipInv, Sizes, OrderQty, InRange
<1>3. Quantities'
  BY <1>1, VenuesStep, Names DEF FlipInv, Quantities, InRange
<1>4. ASSUME NEW b \in Brokers, Drift(b)' <= 0
      PROVE  /\ Shown(b)' <= order'[b].exec
             /\ order'[Reversal(b)].qty = 0 => Drift(b)' <= Shown(b)'
             /\ pc' = "wait" /\ cur' = b =>
                  Drift(b)' <= Based(b)' /\ Shown(b)' - Based(b)' <= order'[b].exec
             /\ pc' = "wait" /\ cur' = Reversal(b) /\ Drift(b)' = 0 =>
                  /\ Based(Reversal(b))' <= order'[b].exec
                  /\ Based(Reversal(b))' - Shown(b)' <= order'[Reversal(b)].exec
  <2>1. b \in OrderIds /\ Reversal(b) \in OrderIds
    BY Names
  <2>2. Buys(b)' = Buys(b) /\ Buys("umc")' = Buys("umc")
    BY VenuesStep DEF Buys, FlipInv
  <2>3. Based(b)' = Based(b)
    BY <2>1, <2>2, VenuesStep, Names DEF Based, FlipInv
  <2>4. Based(Reversal(b))' = Based(Reversal(b))
    BY <2>1, <2>2, VenuesStep, Names DEF Based, FlipInv
  <2>5. Drift(b) <= 0 /\ Drift(b)' <= Drift(b) /\ (Drift(b)' = 0 => Drift(b) = 0)
    <3>1. PICK n \in Nat : recalled' = recalled + n
      BY VenuesStep DEF FlipInv
    <3>2. recalled \in Nat
      BY <1>1 DEF InRange
    <3> QED BY <1>4, <2>2, <3>1, <3>2 DEF Drift, Signed
  <2>6. Shown(b)' = Shown(b) \/ Shown(b)' = Net(b)' + Drift(b)'
    <3>1. CASE Seen(b)' = Seen(b)
      BY <2>2, <3>1, VenuesStep DEF Shown, FlipInv
    <3>2. CASE Seen(b)' = Pos(b)'
      BY <1>1, <3>2 DEF Shown, Measured
    <3> QED BY <3>1, <3>2, VenuesStep DEF FlipInv
  <2>7. Net(b)' = order'[b].exec - order'[Reversal(b)].exec
    BY DEF Net, Reversal
  <2>8. /\ order[b].exec \in Nat /\ order'[b].exec \in Nat
        /\ order[b].exec <= order'[b].exec
        /\ order[Reversal(b)].exec \in Nat /\ order'[Reversal(b)].exec \in Nat
        /\ order[Reversal(b)].exec <= order'[Reversal(b)].exec
        /\ order'[Reversal(b)].qty = order[Reversal(b)].qty
        /\ order'[Reversal(b)].exec <= order[Reversal(b)].qty
    BY <1>1, <2>1, VenuesStep DEF FlipInv, InRange
  <2>9. /\ Drift(b) \in Int /\ Shown(b) \in Int /\ Based(b) \in Int
        /\ Based(Reversal(b)) \in Int /\ Drift(b)' \in Int /\ Shown(b)' \in Int
    BY <1>1 DEF Measured
  <2>10. UNCHANGED <<pc, cur>>
    BY VenuesStep DEF FlipInv
  <2>11. /\ Shown(b) <= order[b].exec
         /\ order[Reversal(b)].qty = 0 => Drift(b) <= Shown(b)
         /\ pc = "wait" /\ cur = b =>
              Drift(b) <= Based(b) /\ Shown(b) - Based(b) <= order[b].exec
         /\ pc = "wait" /\ cur = Reversal(b) /\ Drift(b) = 0 =>
              /\ Based(Reversal(b)) <= order[b].exec
              /\ Based(Reversal(b)) - Shown(b) <= order[Reversal(b)].exec
    BY <2>5 DEF Accounts, FlipInv
  <2>12. Shown(b)' <= order'[b].exec
    BY <1>4, <2>5, <2>6, <2>7, <2>8, <2>9, <2>11
  <2>13. order'[Reversal(b)].qty = 0 => Drift(b)' <= Shown(b)'
    BY <2>5, <2>6, <2>7, <2>8, <2>9, <2>11
  <2>14. ASSUME pc' = "wait", cur' = b
         PROVE  Drift(b)' <= Based(b)' /\ Shown(b)' - Based(b)' <= order'[b].exec
    BY <1>4, <2>3, <2>5, <2>6, <2>7, <2>8, <2>9, <2>10, <2>11, <2>14
  <2>15. ASSUME pc' = "wait", cur' = Reversal(b), Drift(b)' = 0
         PROVE  /\ Based(Reversal(b))' <= order'[b].exec
                /\ Based(Reversal(b))' - Shown(b)' <= order'[Reversal(b)].exec
    BY <2>4, <2>5, <2>6, <2>7, <2>8, <2>9, <2>10, <2>11, <2>15
  <2> QED BY <2>12, <2>13, <2>14, <2>15
<1> QED BY <1>2, <1>3, <1>4 DEF Accounts

\* With orders, recalls and views as they were, so are the measures.
LEMMA SameMeasures ==
    ASSUME UNCHANGED <<plan, start, recalled, view>>, NEW b \in Brokers,
           \A o \in OrderIds : order'[o].exec = order[o].exec
    PROVE  /\ Drift(b)' = Drift(b) /\ Shown(b)' = Shown(b) /\ Seen(b)' = Seen(b)
           /\ Net(b)' = Net(b) /\ Pos(b)' = Pos(b)
<1>1. Net(b)' = Net(b)
  BY Names DEF Net
<1>2. Buys(b)' = Buys(b) /\ Buys("umc")' = Buys("umc")
  BY DEF Buys
<1>3. Pos(b)' = Pos(b)
  BY <1>1, <1>2 DEF Pos
<1> QED BY <1>1, <1>2, <1>3 DEF Drift, Shown, Seen

\* An order is new when it is placed, so placing it undoes no execution.
LEMMA PlaceKeepsExec ==
    ASSUME TypeOK, FlipInv, PlaceOrder
    PROVE  \A o \in OrderIds : order'[o].exec = order[o].exec
<1>1. /\ pc = "call" /\ cur \in OrderIds
      /\ order' = [order EXCEPT ![cur] = [qty |-> OrderQty(cur), exec |-> 0,
                                          open |-> TRUE, base |-> Seen(Broker(cur))]]
  BY Ranges DEF PlaceOrder, InRange
<1>2. order[cur].qty = 0
  BY <1>1 DEF FlipInv, InTurn, Before
<1>3. order'[cur].exec = 0
  BY <1>1 DEF TypeOK
<1>4. order[cur].exec = 0
  BY <1>1, <1>2, Ranges DEF FlipInv, Quantities, InRange
<1>5. \A o \in OrderIds : o # cur => order'[o] = order[o]
  BY <1>1 DEF TypeOK
<1> QED BY <1>3, <1>4, <1>5

\* An order goes out on the reading its account shows, with nothing of it done.
LEMMA PlaceKeepsFlip ==
    ASSUME TypeOK, FlipInv, PlaceOrder
    PROVE  (Sizes /\ Quantities /\ Accounts)'
<1>0. TypeOK'
  BY AdapterKeepsType DEF Adapter
<1>1. InRange /\ InRange' /\ Measured /\ Measured'
  BY <1>0, Ranges, Measures, PTL
<1>2. /\ UNCHANGED <<plan, start, recalled, view, cur, report>>
      /\ pc = "call" /\ pc' = "wait" /\ cur \in OrderIds
      /\ order' = [order EXCEPT ![cur] = [qty |-> OrderQty(cur), exec |-> 0,
                                          open |-> TRUE, base |-> Seen(Broker(cur))]]
  BY <1>1 DEF PlaceOrder, InRange
<1>3. /\ order'[cur].qty = OrderQty(cur) /\ order'[cur].base = Seen(Broker(cur))
      /\ \A o \in OrderIds : o # cur => order'[o] = order[o]
  BY <1>2 DEF TypeOK
<1>4. order[cur].qty = 0 /\ \A o \in After(cur) : order[o].qty = 0
  BY <1>2 DEF FlipInv, InTurn, Before
<1>5. \A o \in OrderIds : order'[o].exec = order[o].exec
  BY PlaceKeepsExec
<1>6. OrderQty(cur) = IF cur = "ccf" THEN CcfQty ELSE IF cur = "umc" THEN UmcQty
                      ELSE IF cur = "ccfX" THEN report["ccf"].fills
                      ELSE report["umc"].fills
  BY <1>2, Names DEF OrderQty, Qty, Primary
<1>7. Sizes'
  <2>1. OrderQty(cur)' = OrderQty(cur)
    BY <1>2 DEF OrderQty
  <2> QED BY <1>2, <1>3, <1>6, <2>1, Names DEF FlipInv, Sizes
<1>8. Quantities'
  <2>0. \A o \in OrderIds : order[o].exec \in Nat /\ order'[o].qty \in Nat
    BY <1>1 DEF InRange
  <2>1. order'["ccfX"].qty <= order'["ccf"].exec
    <3>1. CASE cur = "ccfX"
      BY <1>3, <1>5, <1>6, <3>1, Names DEF FlipInv, Quantities
    <3>2. CASE cur # "ccfX"
      BY <1>3, <1>5, <3>2, Names DEF FlipInv, Quantities
    <3> QED BY <3>1, <3>2
  <2>2. order'["umcX"].qty <= order'["umc"].exec
    <3>1. CASE cur = "umcX"
      BY <1>3, <1>5, <1>6, <3>1, Names DEF FlipInv, Quantities, Emergency
    <3>2. CASE cur # "umcX"
      BY <1>3, <1>5, <3>2, Names DEF FlipInv, Quantities
    <3> QED BY <3>1, <3>2
  <2>3. ASSUME NEW o \in OrderIds PROVE order'[o].exec <= order'[o].qty
    <3>1. CASE o = cur
      <4>1. order'[o].exec = 0
        BY <1>2, <3>1 DEF TypeOK
      <4> QED BY <2>0, <4>1
    <3>2. CASE o # cur
      BY <1>3, <3>2 DEF FlipInv, Quantities
    <3> QED BY <3>1, <3>2
  <2> QED BY <1>2, <1>5, <2>1, <2>2, <2>3, Names DEF FlipInv, Quantities
<1>9. ASSUME NEW b \in Brokers, Drift(b)' <= 0
      PROVE  /\ Shown(b)' <= order'[b].exec
             /\ order'[Reversal(b)].qty = 0 => Drift(b)' <= Shown(b)'
             /\ pc' = "wait" /\ cur' = b =>
                  Drift(b)' <= Based(b)' /\ Shown(b)' - Based(b)' <= order'[b].exec
             /\ pc' = "wait" /\ cur' = Reversal(b) /\ Drift(b)' = 0 =>
                  /\ Based(Reversal(b))' <= order'[b].exec
                  /\ Based(Reversal(b))' - Shown(b)' <= order'[Reversal(b)].exec
  <2>1. b \in OrderIds /\ Reversal(b) \in OrderIds /\ Broker(b) = b /\ Broker(Reversal(b)) = b
    BY Names
  <2>2. Drift(b)' = Drift(b) /\ Shown(b)' = Shown(b)
    BY <1>2, <1>5, SameMeasures
  <2>3. /\ Shown(b) <= order[b].exec
        /\ order[Reversal(b)].qty = 0 => Drift(b) <= Shown(b)
    BY <1>9, <2>2 DEF FlipInv, Accounts
  <2>4. Broker(cur) = b => Based(cur)' = Shown(b)
    BY <1>2, <1>3 DEF Based, Shown, Buys
  <2>5. cur = b => order[Reversal(b)].qty = 0
    BY <1>4, Names DEF After
  <2>6. order'[Reversal(b)].qty = 0 => order[Reversal(b)].qty = 0
    BY <1>3, <1>4, <2>1
  <2>7. /\ order[b].exec \in Nat /\ order[Reversal(b)].exec \in Nat
        /\ Shown(b) \in Int /\ Drift(b) \in Int
    BY <1>1, <2>1 DEF InRange, Measured
  <2>8. CASE cur = b
    BY <1>2, <1>5, <2>1, <2>2, <2>3, <2>4, <2>5, <2>7, <2>8
  <2>9. CASE cur # b
    BY <1>2, <1>5, <2>1, <2>2, <2>3, <2>4, <2>6, <2>7, <2>9
  <2> QED BY <2>8, <2>9
<1> QED BY <1>7, <1>8, <1>9 DEF Accounts

\* What a report may be taken for: fills are executed fills, and "filled" means
\* all of the order - for a UMC order, unless a third party's trade passed for it.
Truthful(status, fills) ==
    /\ cur \in FubonOrders \/ status # "filled" => fills <= order[cur].exec
    /\ status = "filled" => pc = "wait" /\ fills = order[cur].qty
    /\ status = "filled" /\ ((cur \in Primary /\ Drift(Broker(cur)) <= 0)
                             \/ Drift(Broker(cur)) = 0) =>
         order[cur].exec = order[cur].qty

\* What the account moved since the order was placed, the order executed.
LEMMA DeltaIsExecuted ==
    ASSUME TypeOK, FlipInv, pc = "wait",
           (cur \in Primary /\ Drift(Broker(cur)) <= 0) \/ Drift(Broker(cur)) = 0
    PROVE  Delta(cur) <= order[cur].exec
<1>1. InRange /\ Measured
  BY Ranges, Measures
<1>2. CASE cur \in Primary
  <2>1. cur \in Brokers /\ Broker(cur) = cur /\ Drift(cur) <= 0
    BY <1>1, <1>2, Names DEF Primary, Measured
  <2>2. Shown(cur) - Based(cur) <= order[cur].exec
    BY <2>1 DEF FlipInv, Accounts
  <2>3. Delta(cur) = Shown(cur) - Based(cur)
    BY <1>1, <1>2, <2>1, Names DEF Delta, OrderBuys, Shown, Based, Signed, InRange
  <2> QED BY <2>2, <2>3
<1>3. CASE cur \notin Primary
  <2>1. PICK b \in Brokers : cur = Reversal(b) /\ Broker(cur) = b
    BY <1>1, <1>3, Names DEF Primary, InRange
  <2>2. Based(cur) - Shown(b) <= order[cur].exec
    BY <1>3, <2>1 DEF FlipInv, Accounts
  <2>3. Delta(cur) = Based(cur) - Shown(b)
    BY <1>1, <1>3, <2>1, Names DEF Delta, OrderBuys, Shown, Based, Signed, InRange
  <2> QED BY <2>2, <2>3
<1> QED BY <1>2, <1>3

\* Every report of an adapter is truthful in that sense.
LEMMA ReportsAreTruthful ==
    ASSUME TypeOK, FlipInv, Adapter, ~PlaceOrder
    PROVE  \E status \in Statuses : \E fills \in Nat :
             Return(status, fills) /\ Truthful(status, fills) /\ pc \in {"call", "wait"}
<1>1. /\ cur \in OrderIds /\ order[cur].qty \in Nat /\ order[cur].exec \in Nat
      /\ order[cur].exec <= order[cur].qty
  BY Ranges DEF FlipInv, Quantities, InRange
<1>2. Delta(cur) \in Int
  BY <1>1, DeltaType
<1>3. CASE NothingSent \/ IbkrReportsFailed \/ WorkerLost \/ AdapterRaises
  BY <1>1, <1>3 DEF NothingSent, IbkrReportsFailed, WorkerLost, AdapterRaises,
     Statuses, Truthful
<1>4. CASE IbkrReportsUnknown
  <2>1. PICK fills \in 0..order[cur].exec : Return("unknown", fills)
    BY <1>4 DEF IbkrReportsUnknown
  <2>2. Truthful("unknown", fills) /\ fills \in Nat /\ pc = "wait"
    BY <1>1, <1>4, <2>1 DEF Truthful, IbkrReportsUnknown
  <2> QED BY <2>1, <2>2 DEF Statuses
<1>5. CASE IbkrReportsFilled
  <2>1. /\ Return("filled", order[cur].qty) /\ pc = "wait" /\ cur \notin FubonOrders
        /\ order[cur].exec = order[cur].qty \/ Delta(cur) = order[cur].qty
    BY <1>5 DEF IbkrReportsFilled, FubonOrders, IbkrOrders
  <2>2. Truthful("filled", order[cur].qty)
    BY <1>1, <2>1, DeltaIsExecuted DEF Truthful
  <2> QED BY <1>1, <2>1, <2>2 DEF Statuses
<1>6. CASE FubonReports
  <2>1. cur \in FubonOrders /\ pc = "wait"
    BY <1>6 DEF FubonReports
  <2>2. PICK fills \in FubonEvidence(cur) : \E status \in FubonStatus(cur, fills) :
          Return(status, fills)
    BY <1>6 DEF FubonReports
  <2>3. PICK status \in FubonStatus(cur, fills) : Return(status, fills)
    BY <2>2
  <2>4. Drift(Broker(cur)) = 0
    BY <2>1 DEF Drift, Broker
  <2>5. Delta(cur) <= order[cur].exec
    BY <2>1, <2>4, DeltaIsExecuted
  <2>6. fills \in Nat /\ fills <= order[cur].exec
    BY <1>1, <1>2, <2>2, <2>5 DEF FubonEvidence, DeltaFill
  <2>7. status \in Statuses /\ (status = "filled" => fills = order[cur].qty)
    BY <2>3 DEF FubonStatus, Statuses
  <2>8. Truthful(status, fills)
    BY <1>1, <2>1, <2>6, <2>7 DEF Truthful
  <2> QED BY <2>1, <2>3, <2>6, <2>7, <2>8
<1> QED BY <1>3, <1>4, <1>5, <1>6 DEF Adapter

\* A truthful report keeps what is known of the sizes.
LEMMA ReportKeepsFlip ==
    ASSUME TypeOK, FlipInv, NEW status \in Statuses, NEW fills \in Nat,
           Return(status, fills), Truthful(status, fills)
    PROVE  (Sizes /\ Quantities /\ Accounts)'
<1>1. /\ UNCHANGED <<plan, start, recalled, order, view, cur>> /\ pc' = "ret"
      /\ cur \in OrderIds
  BY Ranges DEF Return, venueVars, InRange
<1>2. /\ report'[cur].status = status /\ report'[cur].fills = fills
      /\ \A o \in OrderIds : o # cur => report'[o] = report[o]
  BY <1>1 DEF Return, TypeOK
<1>3. /\ cur = "ccf" => order["ccfX"].qty = 0
      /\ cur = "umc" => order["umcX"].qty = 0
  BY DEF FlipInv, InTurn, After
<1>4. Sizes'
  BY <1>1, <1>2, <1>3, Names DEF FlipInv, Sizes
<1>5. Quantities'
  BY <1>1, <1>2, Names DEF FlipInv, Quantities, Truthful, FubonOrders, Emergency
<1>6. Accounts'
  BY <1>1, SameMeasures DEF FlipInv, Accounts
<1> QED BY <1>4, <1>5, <1>6

\* The coordinator reverses no UMC leg that was reported filled.
LEMMA CoordinatorKeepsFlip ==
    ASSUME TypeOK, FlipInv, Coordinator
    PROVE  (Sizes /\ Quantities /\ Accounts)'
<1>1. UNCHANGED <<plan, start, recalled, order, view, report>> /\ pc' # "wait"
  BY DEF Coordinator, RejectInvalidPlan, CheckPositions, TakeBaseline, StartAttempt,
     CcfReturned, UmcReturned, EmergencyReturned, Finish, Reverse, venueVars
<1>2. cur' \in Emergency => report["umc"].status # "filled"
  <2>1. CASE CcfReturned
    <3>1. report["umc"] = NoReport
      BY <2>1 DEF CcfReturned, FlipInv, InTurn, After
    <3> QED BY <3>1 DEF NoReport
  <2>2. CASE UmcReturned
    BY <2>2 DEF UmcReturned, Emergency
  <2>3. CASE EmergencyReturned
    BY <2>3 DEF EmergencyReturned, FlipInv, Quantities
  <2>4. CASE RejectInvalidPlan \/ CheckPositions \/ TakeBaseline \/ StartAttempt
    BY <2>4 DEF RejectInvalidPlan, CheckPositions, TakeBaseline, StartAttempt,
       FlipInv, Quantities
  <2> QED BY <2>1, <2>2, <2>3, <2>4 DEF Coordinator
<1>3. Sizes' /\ Quantities'
  BY <1>1, <1>2 DEF FlipInv, Sizes, Quantities
<1>4. Accounts'
  BY <1>1, SameMeasures DEF FlipInv, Accounts
<1> QED BY <1>3, <1>4

\* FlipInv is inductive.
LEMMA FlipIsKept == TypeOK /\ FlipInv /\ [Next]_vars => FlipInv'
<1> SUFFICES ASSUME TypeOK, FlipInv, [Next]_vars PROVE FlipInv'
  OBVIOUS
<1>1. InTurn'
  BY TurnIsKept DEF FlipInv
<1>2. CASE Venues
  BY <1>1, <1>2, VenuesKeepFlip DEF FlipInv
<1>3. CASE Adapter
  BY <1>1, <1>3, PlaceKeepsFlip, ReportsAreTruthful, ReportKeepsFlip DEF FlipInv
<1>4. CASE Coordinator
  BY <1>1, <1>4, CoordinatorKeepsFlip DEF FlipInv
<1>5. CASE Crash \/ UNCHANGED vars
  <2>1. /\ UNCHANGED <<plan, start, recalled, order, view, report, cur>>
        /\ pc' # "wait" \/ pc' = pc
    BY <1>5 DEF Crash, vars, venueVars
  <2>2. Sizes' /\ Quantities'
    BY <2>1 DEF FlipInv, Sizes, Quantities, OrderQty
  <2>3. \A o \in OrderIds : Based(o)' = Based(o)
    BY <2>1 DEF Based, Buys
  <2>4. Accounts'
    BY <2>1, <2>3, SameMeasures, Names DEF FlipInv, Accounts
  <2> QED BY <1>1, <2>2, <2>4 DEF FlipInv
<1> QED BY <1>2, <1>3, <1>4, <1>5 DEF Next

\* Where nobody else traded, nothing drifts.
LEMMA Undrifted ==
    ASSUME TypeOK, recalled = 0, NEW b \in Brokers
    PROVE  Drift(b) = 0
<1>1. \A n \in Int : Signed(Buys("umc"), n) + n = 0 \/ Signed(Buys("umc"), n) = n
  BY DEF Signed
<1>2. Drift(b) \in Int
  BY Measures DEF Measured
<1> QED BY <1>1, <1>2 DEF Drift

\* It holds when execute() is entered, with no order and an account that is true.
LEMMA InitFlip == Init => FlipInv
<1> SUFFICES ASSUME Init PROVE FlipInv
  OBVIOUS
<1>1. InTurn /\ TypeOK
  BY InitTurn, InitType
<1>2. \A o \in OrderIds : order[o] = NoOrder /\ report[o] = NoReport
  BY DEF Init
<1>3. recalled = 0 /\ view = start /\ pc = "recv" /\ cur = "ccf"
  BY DEF Init
<1>4. Sizes /\ Quantities
  BY <1>2, <1>3, Names DEF Sizes, Quantities, NoOrder, NoReport, Emergency
<1>5. ASSUME NEW b \in Brokers PROVE Drift(b) = 0 /\ Shown(b) = 0
  <2>0. order[b].exec = 0 /\ order[Reversal(b)].exec = 0
    BY <1>2, Names DEF NoOrder
  <2>1. Net(b) = 0 /\ start[b] \in Int
    BY <1>1, <2>0 DEF Net, TypeOK
  <2>2. Drift(b) = 0
    BY <1>1, <1>3, Undrifted
  <2>3. Pos(b) = start[b]
    BY <1>3, <2>1 DEF Pos, Signed
  <2> QED BY <1>3, <2>1, <2>2, <2>3 DEF Shown, Seen, Signed
<1>6. Accounts
  BY <1>2, <1>3, <1>5, Names DEF Accounts, NoOrder
<1> QED BY <1>1, <1>4, <1>6 DEF FlipInv

\* Every reachable state is one FlipInv describes.
LEMMA FlipHolds == Spec => [](TypeOK /\ FlipInv)
BY InitFlip, FlipIsKept, TypeCorrect, PTL DEF Spec

\* The emergency path never trades a leg past where the plan found it.
THEOREM NeverFlipped == Spec => []NeverFlips
<1>1. TypeOK /\ FlipInv => NeverFlips
  <2> SUFFICES ASSUME TypeOK, FlipInv, NEW b \in Brokers
               PROVE  order[Reversal(b)].exec <= order[b].exec
    BY DEF NeverFlips
  <2>1. InRange
    BY Ranges
  <2> QED BY <2>1, Names DEF FlipInv, Quantities, InRange
<1> QED BY <1>1, FlipHolds, PTL

-----------------------------------------------------------------------------
(* What is traded was verified *)

\* Past its guard, the plan works on brokers that held what it expected.
Begun == pc \in {"baseline", "intent", "call", "wait", "ret"} \/ \E o \in OrderIds : Placed(o)

Verified == recalled = 0 /\ Begun => \A b \in Brokers : start[b] = Expected(b)

\* What the plan moved lies between nothing and the size of its leg.
LEMMA NetBounds ==
    ASSUME TypeOK, FlipInv, NEW b \in Brokers
    PROVE  /\ Net(b) \in Int /\ 0 <= Net(b) /\ Net(b) <= Qty(b)
           /\ ~Begun => order[b].exec = 0 /\ order[Reversal(b)].qty = 0 /\ Net(b) = 0
<1>1. b \in OrderIds /\ Reversal(b) \in OrderIds
  BY Names
<1>2. /\ order[b].exec \in Nat /\ order[Reversal(b)].exec \in Nat
      /\ order[b].qty \in Nat /\ order[Reversal(b)].qty \in Nat
  BY <1>1, Ranges DEF InRange
<1>3. /\ order[b].exec <= order[b].qty /\ order[Reversal(b)].exec <= order[Reversal(b)].qty
      /\ order[Reversal(b)].qty <= order[b].exec
  BY <1>1, Names DEF FlipInv, Quantities
<1>4. Qty(b) \in Nat /\ order[b].qty \in {0, Qty(b)}
  BY Names DEF FlipInv, Sizes, Qty
<1>5. ~Begun => order[b].qty = 0 /\ order[Reversal(b)].qty = 0
  BY <1>1, <1>2 DEF Begun, Placed
<1> QED BY <1>2, <1>3, <1>4, <1>5 DEF Net

\* What the plan expects to find is a whole number.
LEMMA ExpectedType == ASSUME NEW b \in Brokers PROVE Expected(b) \in Int
BY Names DEF Expected, Signed, Qty

\* The guard lets a plan through on what the accounts show, which is then true.
LEMMA GuardVerifies ==
    ASSUME TypeOK, FlipInv, ~Begun, recalled = 0, NEW r \in GuardReadings, GuardHolds(r),
           NEW b \in Brokers
    PROVE  start[b] = Expected(b)
<1>1. r[b] = Expected(b) /\ r[b] \in {Seen(b), Unreadable}
  BY DEF GuardReadings, GuardHolds, Readings
<1>2. Seen(b) = Expected(b)
  BY <1>1, ExpectedType, ReadAssumption
<1>3. order[b].exec = 0 /\ order[Reversal(b)].qty = 0
  BY NetBounds
<1>4. Drift(b) = 0
  BY Undrifted
<1>5. Shown(b) = 0
  BY <1>3, <1>4, Measures DEF FlipInv, Accounts, Measured
<1>6. Seen(b) \in Int /\ start[b] \in Int
  BY Ranges DEF InRange
<1>7. Seen(b) = start[b]
  BY <1>5, <1>6 DEF Shown, Signed
<1> QED BY <1>2, <1>7

\* No step lets a plan past its guard on anything else.
LEMMA VerifiedIsKept == TypeOK /\ FlipInv /\ Verified /\ [Next]_vars => Verified'
<1> SUFFICES ASSUME TypeOK, FlipInv, Verified, [Next]_vars, recalled' = 0, Begun',
                    NEW b \in Brokers
             PROVE  start'[b] = Expected(b)'
  BY DEF Verified
<1>1. ASSUME UNCHANGED <<plan, start>>, recalled = 0, Begun
      PROVE  start'[b] = Expected(b)'
  BY <1>1 DEF Verified, Expected, Buys
<1>2. CASE Venues
  <2>1. PICK n \in Nat : recalled' = recalled + n
    BY <1>2, VenuesStep DEF FlipInv
  <2>2. recalled = 0
    BY <2>1, Ranges DEF InRange
  <2>3. Begun
    BY <1>2, VenuesStep DEF FlipInv, Begun, Placed
  <2> QED BY <1>1, <1>2, <2>2, <2>3, VenuesStep DEF FlipInv
<1>3. CASE Adapter
  <2>1. pc \in {"call", "wait"} /\ UNCHANGED <<plan, start, recalled>>
    BY <1>3, ReportsAreTruthful DEF PlaceOrder, Return, venueVars
  <2> QED BY <1>1, <2>1 DEF Begun
<1>4. CASE CheckPositions
  <2>1. UNCHANGED <<plan, start, recalled, order>>
    BY <1>4 DEF CheckPositions, venueVars
  <2>2. CASE Begun
    BY <1>1, <2>1, <2>2
  <2>3. CASE ~Begun
    <3>1. PICK r \in GuardReadings : IF GuardHolds(r) THEN pc' = "baseline"
                                     ELSE pc' = "done"
      BY <1>4 DEF CheckPositions, Finish
    <3>2. GuardHolds(r)
      BY <2>1, <2>3, <3>1 DEF Begun, Placed
    <3>3. start[b] = Expected(b)
      BY <2>1, <2>3, <3>2, GuardVerifies
    <3> QED BY <2>1, <3>3 DEF Expected, Buys
  <2> QED BY <2>2, <2>3
<1>5. CASE RejectInvalidPlan \/ Crash \/ UNCHANGED vars
  <2>1. UNCHANGED <<plan, start, recalled, order>> /\ pc' \in {"done", "crashed", pc}
    BY <1>5 DEF RejectInvalidPlan, Crash, vars, venueVars, Finish
  <2>2. Begun
    BY <2>1 DEF Begun, Placed
  <2> QED BY <1>1, <2>1, <2>2
<1>6. CASE TakeBaseline \/ StartAttempt \/ CcfReturned \/ UmcReturned \/ EmergencyReturned
  <2>1. UNCHANGED <<plan, start, recalled>> /\ pc \in {"baseline", "intent", "ret"}
    BY <1>6 DEF TakeBaseline, StartAttempt, CcfReturned, UmcReturned,
       EmergencyReturned, venueVars
  <2> QED BY <1>1, <2>1 DEF Begun
<1> QED BY <1>2, <1>3, <1>4, <1>5, <1>6 DEF Next, Coordinator

\* A plan that has not begun has verified nothing.
LEMMA InitVerified == Init => Verified
BY DEF Init, Verified, Begun, Placed, NoOrder

\* With no third party trading, what the plan trades is what it verified: an
\* exit stays between flat and the position it closes, an entry starts flat.
THEOREM TradesVerified == Spec => []TradesOnlyWhatItVerified
<1>1. TypeOK /\ FlipInv /\ Verified => TradesOnlyWhatItVerified
  <2> SUFFICES ASSUME TypeOK, FlipInv, Verified, recalled = 0, NEW b \in Brokers
               PROVE  IF plan.type = "EXIT"
                      THEN \/ 0 <= Pos(b) /\ Pos(b) <= start[b]
                           \/ start[b] <= Pos(b) /\ Pos(b) <= 0
                      ELSE start[b] # 0 => Pos(b) = start[b]
    BY DEF TradesOnlyWhatItVerified
  <2>1. start[b] \in Int /\ Qty(b) \in Nat
    BY Ranges, Names DEF InRange, Qty
  <2>2. Pos(b) = start[b] + Signed(Buys(b), Net(b))
    BY <2>1, NetBounds DEF Pos, Signed
  <2>3. CASE Begun
    <3>1. start[b] = Expected(b)
      BY <2>3 DEF Verified
    <3> QED BY <2>1, <2>2, <3>1, NetBounds DEF Expected, Signed
  <2>4. CASE ~Begun
    <3>1. Pos(b) = start[b]
      BY <2>1, <2>2, <2>4, NetBounds DEF Signed
    <3> QED BY <2>1, <3>1
  <2> QED BY <2>3, <2>4
<1> QED BY <1>1, InitVerified, VerifiedIsKept, FlipHolds, PTL DEF Spec

-----------------------------------------------------------------------------
(* What a report concludes *)

\* A leg that counts as filled is executed in full - the UMC leg unless a recall
\* helped it - and only such a pair lets the strategy run on.
Concluded ==
    /\ report["ccf"].status = "filled" =>
         report["ccf"].fills = CcfQty /\ order["ccf"].exec = CcfQty
    /\ report["umc"].status = "filled" /\ Drift("umc") <= 0 =>
         order["umc"].exec = UmcQty
    /\ cur = "umc" => report["ccf"].status = "filled"
    /\ pc = "done" /\ ~outcome.paused => cur = "umc" /\ report["umc"].status = "filled"

\* What a venue step leaves of a conclusion: fills are never undone, and help by
\* a third party never taken back.
LEMMA VenuesKeepFills ==
    ASSUME TypeOK, FlipInv, Venues
    PROVE  /\ \A o \in OrderIds : \A n \in Nat :
                order[o].exec = n /\ order[o].qty \in {0, n} => order'[o].exec = n
           /\ Drift("umc")' <= 0 => Drift("umc") <= 0
           /\ recalled' = 0 => recalled = 0
<1>0. TypeOK'
  BY VenuesKeepType
<1>1. InRange /\ InRange'
  BY <1>0, Ranges, PTL
<1>2. \A o \in OrderIds : /\ order'[o].exec \in Nat /\ order[o].exec <= order'[o].exec
                          /\ order'[o].exec <= order[o].qty
  BY <1>1, VenuesStep DEF FlipInv, InRange
<1>3. PICK n \in Nat : recalled' = recalled + n
  BY VenuesStep DEF FlipInv
<1>4. recalled \in Nat
  BY <1>1 DEF InRange
<1>5. Buys("umc")' = Buys("umc")
  BY VenuesStep DEF FlipInv, Buys
<1> QED BY <1>1, <1>2, <1>3, <1>4, <1>5 DEF Drift, Signed, InRange

\* The orders of a leg are for all of it.
LEMMA LegSizes ==
    ASSUME TypeOK, FlipInv
    PROVE  /\ order["ccf"].qty \in {0, CcfQty} /\ order["umc"].qty \in {0, UmcQty}
           /\ pc = "wait" /\ cur = "ccf" => order["ccf"].qty = CcfQty
           /\ pc = "wait" /\ cur = "umc" => order["umc"].qty = UmcQty
BY Names DEF FlipInv, Sizes, OrderQty, Primary, Qty

\* No step concludes too much.
LEMMA ConcludedIsKept == TypeOK /\ FlipInv /\ Concluded /\ [Next]_vars => Concluded'
<1> SUFFICES ASSUME TypeOK, FlipInv, Concluded, [Next]_vars PROVE Concluded'
  OBVIOUS
<1>1. CASE Venues
  <2>1. UNCHANGED <<report, cur, pc, outcome>>
    BY <1>1, VenuesStep DEF FlipInv
  <2>2. report["ccf"].status = "filled" => order'["ccf"].exec = CcfQty
    BY <1>1, VenuesKeepFills, LegSizes, Names DEF Concluded
  <2>3. report["umc"].status = "filled" /\ Drift("umc")' <= 0 => order'["umc"].exec = UmcQty
    BY <1>1, VenuesKeepFills, LegSizes, Names DEF Concluded
  <2> QED BY <2>1, <2>2, <2>3 DEF Concluded
<1>2. CASE PlaceOrder
  <2>1. UNCHANGED <<plan, recalled, report, cur>> /\ pc' = "wait" /\ report[cur] = NoReport
    BY <1>2 DEF PlaceOrder, FlipInv, InTurn, Before
  <2>2. \A o \in OrderIds : o # cur => order'[o] = order[o]
    BY <1>2 DEF PlaceOrder, TypeOK
  <2>3. Drift("umc")' = Drift("umc")
    BY <2>1 DEF Drift, Buys
  <2>4. report["ccf"].status = "filled" => cur # "ccf"
    BY <2>1 DEF NoReport
  <2>5. report["umc"].status = "filled" => cur # "umc"
    BY <2>1 DEF NoReport
  <2> QED BY <2>1, <2>2, <2>3, <2>4, <2>5, Names DEF Concluded
<1>3. ASSUME NEW status \in Statuses, NEW fills \in Nat, Return(status, fills),
             Truthful(status, fills)
      PROVE  Concluded'
  <2>1. UNCHANGED <<plan, recalled, order, cur>> /\ pc' = "ret" /\ cur \in OrderIds
    BY <1>3, Ranges DEF Return, venueVars, InRange
  <2>2. /\ report'[cur].status = status /\ report'[cur].fills = fills
        /\ \A o \in OrderIds : o # cur => report'[o] = report[o]
    BY <1>3, <2>1 DEF Return, TypeOK
  <2>3. Drift("umc")' = Drift("umc") /\ Drift("ccf") = 0
    BY <2>1 DEF Drift, Buys
  <2>4. CASE cur = "ccf"
    BY <1>3, <2>1, <2>2, <2>3, <2>4, LegSizes, Names DEF Concluded, Truthful
  <2>5. CASE cur = "umc"
    BY <1>3, <2>1, <2>2, <2>3, <2>5, LegSizes, Names DEF Concluded, Truthful, Primary
  <2>6. CASE cur \notin {"ccf", "umc"}
    BY <2>1, <2>2, <2>3, <2>6, Names DEF Concluded
  <2> QED BY <2>4, <2>5, <2>6
<1>4. CASE Adapter
  BY <1>2, <1>3, <1>4, ReportsAreTruthful
<1>5. CASE Coordinator
  <2>1. UNCHANGED <<plan, recalled, order, report>>
    BY <1>5 DEF Coordinator, RejectInvalidPlan, CheckPositions, TakeBaseline,
       StartAttempt, CcfReturned, UmcReturned, EmergencyReturned, venueVars
  <2>2. Drift("umc")' = Drift("umc")
    BY <2>1 DEF Drift, Buys
  <2>3. cur' = "umc" => report["ccf"].status = "filled"
    BY <1>5 DEF Coordinator, RejectInvalidPlan, CheckPositions, TakeBaseline,
       StartAttempt, CcfReturned, UmcReturned, EmergencyReturned, Reverse,
       Reversal, Concluded
  <2>4. ASSUME pc' = "done", ~outcome'.paused
        PROVE  cur' = "umc" /\ report["umc"].status = "filled"
    <3>1. ASSUME NEW status, NEW reversed \in BOOLEAN, Finish(status, reversed)
          PROVE  status = "filled" /\ ~reversed
      BY <2>4, <3>1 DEF Finish
    <3>2. ~EmergencyReturned
      BY <2>4, <3>1 DEF EmergencyReturned
    <3>3. ~CcfReturned
      BY <2>4, <3>1 DEF CcfReturned, Reverse
    <3>4. ~RejectInvalidPlan /\ ~CheckPositions
      <4>1. RejectInvalidPlan \/ CheckPositions => Finish("rejected", FALSE)
        BY <2>4 DEF RejectInvalidPlan, CheckPositions
      <4>2. ASSUME NEW status, Finish(status, FALSE) PROVE status = "filled"
        BY <2>4, <4>2 DEF Finish
      <4>3. ~Finish("rejected", FALSE)
        BY <4>2
      <4> QED BY <4>1, <4>3
    <3>5. ~TakeBaseline /\ ~StartAttempt
      BY <2>4 DEF TakeBaseline, StartAttempt
    <3>6. UmcReturned
      BY <1>5, <3>2, <3>3, <3>4, <3>5 DEF Coordinator
    <3> QED BY <2>4, <3>1, <3>6 DEF UmcReturned, Reverse
  <2> QED BY <2>1, <2>2, <2>3, <2>4 DEF Concluded
<1>6. CASE Crash \/ UNCHANGED vars
  <2>1. UNCHANGED <<plan, recalled, order, report, cur, outcome>> /\ pc' \in {pc, "crashed"}
    BY <1>6 DEF Crash, vars, venueVars
  <2>2. Drift("umc")' = Drift("umc")
    BY <2>1 DEF Drift, Buys
  <2> QED BY <2>1, <2>2 DEF Concluded
<1> QED BY <1>1, <1>4, <1>5, <1>6 DEF Next

\* Nothing is concluded at the start.
LEMMA InitConcluded == Init => Concluded
BY DEF Init, Concluded, NoReport, OrderIds, FubonOrders, IbkrOrders

\* A strategy that runs on after execute() holds a pair executed in full, of
\* which nothing was reversed.
THEOREM RunsOnHedged == Spec => []RunsOnOnlyWhenHedged
<1>1. TypeOK /\ FlipInv /\ Concluded => RunsOnOnlyWhenHedged
  <2> SUFFICES ASSUME TypeOK, FlipInv, Concluded, pc = "done", ~outcome.paused,
                      recalled = 0, NEW b \in Brokers
               PROVE  order[b].exec = Qty(b) /\ order[Reversal(b)].exec = 0
    BY DEF RunsOnOnlyWhenHedged
  <2>1. cur = "umc" /\ report["umc"].status = "filled" /\ report["ccf"].status = "filled"
    BY DEF Concluded
  <2>2. Drift("umc") = 0
    BY Undrifted, Names
  <2>3. order[b].exec = Qty(b)
    BY <2>1, <2>2, Names DEF Concluded, Qty
  <2>4. order[Reversal(b)].qty = 0
    BY <2>1, Names DEF FlipInv, InTurn, After
  <2>5. order[Reversal(b)].exec \in Nat /\ order[Reversal(b)].exec <= order[Reversal(b)].qty
    BY Ranges, Names DEF FlipInv, Quantities, InRange
  <2> QED BY <2>3, <2>4, <2>5
<1> QED BY <1>1, InitConcluded, ConcludedIsKept, FlipHolds, PTL DEF Spec

-----------------------------------------------------------------------------
(* What an unwind tells *)

\* An emergency order that counts as filled reversed all that its leg reported,
\* and an unwind that raises nothing critical is made of such orders.
Told ==
    /\ report["ccfX"].status = "filled" => order["ccfX"].exec = report["ccf"].fills
    /\ report["umcX"].status = "filled" /\ recalled = 0 =>
         order["umcX"].exec = report["umc"].fills
    /\ cur = "umcX" /\ ~Critical => report["ccfX"].status = "filled"
    /\ pc = "done" /\ report["ccf"].fills > 0 /\ outcome.status # "filled" /\ ~Critical =>
         /\ report["ccfX"].status = "filled"
         /\ report["umc"].fills > 0 => report["umcX"].status = "filled"

\* The coordinator never takes an event back.
LEMMA CriticalStays ==
    ASSUME Coordinator, ~Critical'
    PROVE  ~Critical
BY DEF Coordinator, RejectInvalidPlan, CheckPositions, TakeBaseline, StartAttempt,
   CcfReturned, UmcReturned, EmergencyReturned, Reverse, Critical

\* An emergency order that did not fill is critical.
LEMMA EmergencyTold ==
    ASSUME EmergencyReturned, ~Critical'
    PROVE  report[cur].status = "filled"
BY DEF EmergencyReturned, EmergencyEvents, Critical

\* No step tells of a reversal that is not there.
LEMMA ToldIsKept == TypeOK /\ FlipInv /\ Told /\ [Next]_vars => Told'
<1> SUFFICES ASSUME TypeOK, FlipInv, Told, [Next]_vars PROVE Told'
  OBVIOUS
<1>0. /\ report["ccf"].fills \in Nat /\ report["umc"].fills \in Nat
      /\ order["ccfX"].qty \in {0, report["ccf"].fills}
      /\ order["umcX"].qty \in {0, report["umc"].fills}
  BY Ranges, Names DEF FlipInv, Sizes, InRange
<1>1. CASE Venues
  <2>1. UNCHANGED <<report, cur, pc, outcome, events>>
    BY <1>1, VenuesStep DEF FlipInv
  <2>2. report["ccfX"].status = "filled" => order'["ccfX"].exec = report["ccf"].fills
    BY <1>0, <1>1, VenuesKeepFills, Names DEF Told
  <2>3. report["umcX"].status = "filled" /\ recalled' = 0 =>
          order'["umcX"].exec = report["umc"].fills
    BY <1>0, <1>1, VenuesKeepFills, Names DEF Told
  <2> QED BY <2>1, <2>2, <2>3 DEF Told, Critical
<1>2. CASE PlaceOrder
  <2>1. /\ UNCHANGED <<recalled, report, cur, events, outcome>> /\ pc' = "wait"
        /\ report[cur] = NoReport
    BY <1>2 DEF PlaceOrder, FlipInv, InTurn, Before
  <2>2. \A o \in OrderIds : o # cur => order'[o] = order[o]
    BY <1>2 DEF PlaceOrder, TypeOK
  <2>3. report["ccfX"].status = "filled" => cur # "ccfX"
    BY <2>1 DEF NoReport
  <2>4. report["umcX"].status = "filled" => cur # "umcX"
    BY <2>1 DEF NoReport
  <2> QED BY <2>1, <2>2, <2>3, <2>4, Names DEF Told, Critical
<1>3. ASSUME NEW status \in Statuses, NEW fills \in Nat, Return(status, fills),
             Truthful(status, fills)
      PROVE  Told'
  <2>1. /\ UNCHANGED <<recalled, order, cur, events>> /\ pc' = "ret" /\ cur \in OrderIds
    BY <1>3, Ranges DEF Return, venueVars, InRange
  <2>2. /\ report'[cur].status = status /\ report'[cur].fills = fills
        /\ \A o \in OrderIds : o # cur => report'[o] = report[o]
    BY <1>3, <2>1 DEF Return, TypeOK
  <2>3. \A o \in After(cur) : report[o].status # "filled"
    BY DEF FlipInv, InTurn, NoReport
  <2>4. /\ pc = "wait" /\ cur = "ccfX" => order["ccfX"].qty = report["ccf"].fills
        /\ pc = "wait" /\ cur = "umcX" => order["umcX"].qty = report["umc"].fills
    BY Names DEF FlipInv, Sizes, OrderQty, Primary
  <2>5. CASE cur = "ccf"
    BY <2>1, <2>2, <2>3, <2>5, Names DEF Told, After
  <2>6. CASE cur = "umc"
    BY <2>1, <2>2, <2>3, <2>6, Names DEF Told, After
  <2>7. CASE cur = "ccfX"
    <3>1. Drift(Broker(cur)) = 0
      BY <2>7, Names DEF Drift
    <3> QED BY <1>3, <2>1, <2>2, <2>3, <2>4, <2>7, <3>1, Names
            DEF Told, After, Truthful
  <2>8. CASE cur = "umcX"
    <3>1. recalled = 0 => Drift(Broker(cur)) = 0
      BY <2>8, Names, Undrifted
    <3> QED BY <1>3, <2>1, <2>2, <2>4, <2>8, <3>1, Names DEF Told, Truthful, Critical
  <2> QED BY <2>1, <2>5, <2>6, <2>7, <2>8, Names
<1>4. CASE Adapter
  BY <1>2, <1>3, <1>4, ReportsAreTruthful
<1>5. CASE Coordinator
  <2>1. UNCHANGED <<recalled, order, report>>
    BY <1>5 DEF Coordinator, RejectInvalidPlan, CheckPositions, TakeBaseline,
       StartAttempt, CcfReturned, UmcReturned, EmergencyReturned, venueVars
  <2>2. ASSUME cur' = "umcX", ~Critical'
        PROVE  report["ccfX"].status = "filled"
    <3>1. CASE cur = "umcX"
      BY <1>5, <2>2, <3>1, CriticalStays DEF Told
    <3>2. CASE cur # "umcX"
      <4>1. EmergencyReturned /\ cur = "ccfX"
        BY <1>5, <2>2, <3>2 DEF Coordinator, RejectInvalidPlan, CheckPositions,
           TakeBaseline, StartAttempt, CcfReturned, UmcReturned, EmergencyReturned,
           Reverse, Reversal
      <4> QED BY <2>2, <4>1, EmergencyTold
    <3> QED BY <3>1, <3>2
  <2>3. ASSUME pc' = "done", report["ccf"].fills > 0, outcome'.status # "filled", ~Critical'
        PROVE  /\ report["ccfX"].status = "filled"
               /\ report["umc"].fills > 0 => report["umcX"].status = "filled"
    <3>1. ~(RejectInvalidPlan \/ CheckPositions)
      <4>1. pc = "recv" => report["ccf"] = NoReport
        BY DEF FlipInv, InTurn, Before
      <4>2. ~(report["ccf"].fills > 0 /\ report["ccf"] = NoReport)
        BY DEF NoReport
      <4> QED BY <2>3, <4>1, <4>2 DEF RejectInvalidPlan, CheckPositions
    <3>2. ~(TakeBaseline \/ StartAttempt)
      BY <2>3 DEF TakeBaseline, StartAttempt
    <3>3. ~CcfReturned
      <4>1. ~(report["ccf"].fills > 0 /\ report["ccf"].fills = 0)
        OBVIOUS
      <4> QED BY <2>3, <4>1 DEF CcfReturned, Reverse
    <3>4. ~UmcReturned
      BY <2>3 DEF UmcReturned, Reverse, Finish, Critical
    <3>5. EmergencyReturned
      BY <1>5, <3>1, <3>2, <3>3, <3>4 DEF Coordinator
    <3>6. report[cur].status = "filled" /\ cur \in {"ccfX", "umcX"}
      BY <2>3, <3>5, EmergencyTold DEF EmergencyReturned, Emergency
    <3>7. CASE cur = "ccfX"
      BY <2>3, <3>5, <3>6, <3>7 DEF EmergencyReturned
    <3>8. CASE cur = "umcX"
      BY <1>5, <2>3, <3>6, <3>8, CriticalStays DEF Told
    <3> QED BY <3>6, <3>7, <3>8
  <2> QED BY <2>1, <2>2, <2>3 DEF Told
<1>6. CASE Crash \/ UNCHANGED vars
  <2>1. UNCHANGED <<recalled, order, report, cur, outcome, events>> /\ pc' \in {pc, "crashed"}
    BY <1>6 DEF Crash, vars, venueVars
  <2> QED BY <2>1 DEF Told, Critical
<1> QED BY <1>1, <1>4, <1>5, <1>6 DEF Next

\* Nothing is told at the start.
LEMMA InitTold == Init => Told
BY DEF Init, Told, NoReport, OrderIds, FubonOrders, IbkrOrders

\* When execute() stops with known CCF fills and raises no critical event, its
\* emergency orders really executed all of the fills it knew of.
THEOREM ExposureReversed == Spec => []ExposureIsReversedOrCritical
<1>1. TypeOK /\ FlipInv /\ Told => ExposureIsReversedOrCritical
  <2> SUFFICES ASSUME TypeOK, FlipInv, Told, pc = "done", outcome.status # "filled",
                      report["ccf"].fills > 0, ~Critical
               PROVE  /\ order["ccfX"].exec = report["ccf"].fills
                      /\ recalled = 0 => order["umcX"].exec = report["umc"].fills
    BY DEF ExposureIsReversedOrCritical
  <2>1. order["ccfX"].exec = report["ccf"].fills
    BY DEF Told
  <2>2. ASSUME recalled = 0, report["umc"].fills > 0
        PROVE  order["umcX"].exec = report["umc"].fills
    BY <2>2 DEF Told
  <2>3. ASSUME ~(report["umc"].fills > 0)
        PROVE  order["umcX"].exec = report["umc"].fills
    <3>1. report["umc"].fills \in Nat /\ order["umcX"].exec \in Nat
      BY Ranges, Names DEF InRange
    <3>2. report["umc"].fills = 0 /\ order["umcX"].qty \in {0, report["umc"].fills}
      BY <2>3, <3>1 DEF FlipInv, Sizes
    <3>3. order["umcX"].exec <= order["umcX"].qty
      BY Names DEF FlipInv, Quantities
    <3> QED BY <3>1, <3>2, <3>3
  <2> QED BY <2>1, <2>2, <2>3
<1> QED BY <1>1, InitTold, ToldIsKept, FlipHolds, PTL DEF Spec

-----------------------------------------------------------------------------
(* The coordinator implements PairPromise *)

\* What the promise speaks of: the legs, the third party, the end.
LegsMoved == [b \in Brokers |-> Net(b)]
Disturbed == recalled > 0 /\ Buys("umc")

\* A pair on which execute() lets the strategy run on, and which no recall helped,
\* is complete: no order of it has anything left to trade.
LEMMA HedgedIsComplete ==
    ASSUME TypeOK, FlipInv, Concluded, Verdict = "hedged", ~Disturbed
    PROVE  /\ \A b \in Brokers : Net(b) = Qty(b)
           /\ \A o \in OrderIds : order[o].exec = order[o].qty
<1>1. cur = "umc" /\ report["umc"].status = "filled" /\ report["ccf"].status = "filled"
  BY DEF Concluded, Verdict
<1>2. Drift("umc") <= 0
  <2>1. recalled \in Nat
    BY Ranges DEF InRange
  <2>2. CASE recalled = 0
    BY <2>2, Undrifted, Names
  <2>3. CASE recalled # 0
    BY <2>1, <2>3 DEF Disturbed, Drift, Signed
  <2> QED BY <2>2, <2>3
<1>3. order["ccf"].exec = CcfQty /\ order["umc"].exec = UmcQty
  BY <1>1, <1>2 DEF Concluded
<1>4. order["ccfX"].qty = 0 /\ order["umcX"].qty = 0
  BY <1>1 DEF FlipInv, InTurn, After
<1>5. \A o \in OrderIds : order[o].exec \in Nat /\ order[o].exec <= order[o].qty
  BY Ranges DEF InRange, FlipInv, Quantities
<1>6. order["ccfX"].exec = 0 /\ order["umcX"].exec = 0
  BY <1>4, <1>5, Names
<1>7. order["ccf"].qty = CcfQty /\ order["umc"].qty = UmcQty
  BY <1>3, <1>5, LegSizes, Names
<1> QED BY <1>3, <1>4, <1>6, <1>7, Names DEF Net, Qty

\* No leg moves past its size.
LEMMA Bounded == TypeOK /\ FlipInv => \A b \in Brokers : Net(b) \in 0..Qty(b)
<1> SUFFICES ASSUME TypeOK, FlipInv, NEW b \in Brokers PROVE Net(b) \in 0..Qty(b)
  OBVIOUS
<1>1. Qty(b) \in Nat
  BY Names DEF Qty
<1> QED BY <1>1, NetBounds

\* The same of a pair that is complete.
LEMMA CompleteIsFull ==
    TypeOK /\ FlipInv /\ Concluded /\ Verdict = "hedged" /\ ~Disturbed =>
      \A b \in Brokers : Net(b) = Qty(b)
BY HedgedIsComplete

\* A step that leaves the executions and the recalls alone moves the promise only
\* by the end of execute(), which it may declare once.
LEMMA EndIsPromised ==
    ASSUME TypeOK, FlipInv', TypeOK', Concluded',
           UNCHANGED <<plan, start, recalled, view>>,
           \A o \in OrderIds : order'[o].exec = order[o].exec,
           Verdict' = Verdict \/ Verdict = "working"
    PROVE  [Promise!Next]_(Promise!vars)
<1>1. LegsMoved' = LegsMoved /\ Disturbed' = Disturbed
  BY SameMeasures DEF LegsMoved, Disturbed, Buys
<1>2. CASE Verdict' = Verdict
  BY <1>1, <1>2 DEF Promise!vars, LegsMoved, Disturbed
<1>3. CASE Verdict = "working" /\ Verdict' \in {"paused", "lost"}
  BY <1>1, <1>3 DEF Promise!Next, Promise!Stop, LegsMoved, Disturbed
<1>4. CASE Verdict = "working" /\ Verdict' = "hedged"
  <2>1. (TypeOK /\ FlipInv /\ Concluded /\ Verdict = "hedged" /\ ~Disturbed =>
           \A b \in Brokers : Net(b) = Qty(b))'
    BY CompleteIsFull, PTL
  <2>2. Disturbed \/ \A b \in Brokers : Net(b)' = Qty(b)
    BY <1>1, <1>4, <2>1 DEF Qty
  <2>3. Disturbed \/ \A b \in {"ccf", "umc"} : LegsMoved[b] = Promise!Full[b]
    BY <1>1, <2>2, Names DEF LegsMoved, Promise!Full, Qty
  <2> QED BY <1>1, <1>4, <2>3 DEF Promise!Next, Promise!Hedge, LegsMoved, Disturbed
<1> QED BY <1>2, <1>3, <1>4 DEF Verdict

\* What the venues do is a move of the legs or a third party's trade.
LEMMA VenuesArePromised ==
    ASSUME TypeOK, FlipInv, Concluded, Venues, TypeOK', FlipInv', Concluded'
    PROVE  [Promise!Next]_(Promise!vars)
<1>1. UNCHANGED <<plan, start, pc, outcome>> /\ Verdict' = Verdict
  BY VenuesStep DEF FlipInv, Verdict
<1>2. CASE Recall
  <2>1. UNCHANGED order /\ recalled' > 0
    BY <1>2, Ranges DEF Recall, InRange
  <2>2. LegsMoved' = LegsMoved
    BY <2>1 DEF LegsMoved, Net
  <2>3. Disturbed' = Buys("umc")
    BY <1>1, <2>1 DEF Disturbed, Buys
  <2>4. Disturbed' = TRUE \/ Disturbed' = Disturbed
    BY <2>3 DEF Disturbed, Buys
  <2> QED BY <1>1, <2>2, <2>4 DEF Promise!Next, Promise!Disturb, Promise!vars,
          LegsMoved, Disturbed
<1>3. ASSUME NEW o \in OrderIds, Trade(o)
      PROVE  [Promise!Next]_(Promise!vars)
  <2>1. PICK n \in 1..(order[o].qty - order[o].exec) :
          order' = [order EXCEPT ![o].exec = @ + n]
    BY <1>3 DEF Trade
  <2>2. Disturbed' = Disturbed
    BY <1>1, <1>3 DEF Trade, Disturbed, Buys
  <2>3. order[o].exec # order[o].qty
    BY <2>1, Ranges DEF InRange
  <2>4. Verdict = "hedged" => Disturbed
    BY <2>3, HedgedIsComplete
  <2>5. Broker(o) \in Brokers
    BY Names
  <2>6. \A b \in Brokers : b # Broker(o) => Net(b)' = Net(b)
    BY <2>1, Names DEF Net, TypeOK
  <2>7. Net(Broker(o))' \in 0..Qty(Broker(o))
    <3>1. (TypeOK /\ FlipInv => \A b \in Brokers : Net(b) \in 0..Qty(b))'
      BY Bounded, PTL
    <3> QED BY <2>5, <3>1 DEF Qty
  <2>8. LegsMoved' = [LegsMoved EXCEPT ![Broker(o)] = Net(Broker(o))']
    BY <2>5, <2>6 DEF LegsMoved
  <2>9. Qty(Broker(o)) = Promise!Full[Broker(o)]
    BY <2>5, Names DEF Qty, Promise!Full
  <2> QED BY <1>1, <2>2, <2>4, <2>5, <2>7, <2>8, <2>9, Names
          DEF Promise!Next, Promise!Move, LegsMoved, Disturbed
<1>4. CASE \E o \in OrderIds : Expire(o)
  <2>1. /\ UNCHANGED <<plan, start, recalled, view>>
        /\ \A o \in OrderIds : order'[o].exec = order[o].exec
    BY <1>4 DEF Expire, TypeOK
  <2> QED BY <1>1, <2>1, EndIsPromised
<1>5. CASE \E b \in Brokers : CatchUp(b)
  <2>1. UNCHANGED <<plan, start, recalled, order>>
    BY <1>5 DEF CatchUp
  <2>2. LegsMoved' = LegsMoved /\ Disturbed' = Disturbed
    BY <2>1 DEF LegsMoved, Net, Disturbed, Buys
  <2> QED BY <1>1, <2>2 DEF Promise!vars, LegsMoved, Disturbed
<1> QED BY <1>2, <1>3, <1>4, <1>5 DEF Venues

\* Every step of the coordinator among its venues is a step of the promise.
LEMMA StepIsPromised ==
    TypeOK /\ FlipInv /\ Concluded /\ TypeOK' /\ FlipInv' /\ Concluded' /\ [Next]_vars
      => [Promise!Next]_(Promise!vars)
<1> SUFFICES ASSUME TypeOK, FlipInv, Concluded, TypeOK', FlipInv', Concluded', [Next]_vars
             PROVE  [Promise!Next]_(Promise!vars)
  OBVIOUS
<1>1. CASE PlaceOrder
  <2>1. UNCHANGED <<plan, start, recalled, view>> /\ pc = "call" /\ pc' = "wait"
    BY <1>1 DEF PlaceOrder
  <2>2. \A o \in OrderIds : order'[o].exec = order[o].exec
    BY <1>1, PlaceKeepsExec
  <2> QED BY <2>1, <2>2, EndIsPromised DEF Verdict
<1>2. CASE Adapter /\ ~PlaceOrder
  <2>1. UNCHANGED <<plan, start, recalled, view, order>> /\ pc \in {"call", "wait"}
    BY <1>2, ReportsAreTruthful DEF Return, venueVars
  <2> QED BY <2>1, EndIsPromised DEF Verdict
<1>3. CASE Coordinator \/ Crash
  <2>1. UNCHANGED <<plan, start, recalled, view, order>> /\ pc \notin {"done", "crashed"}
    BY <1>3 DEF Coordinator, RejectInvalidPlan, CheckPositions, TakeBaseline,
       StartAttempt, CcfReturned, UmcReturned, EmergencyReturned, Crash, venueVars
  <2> QED BY <2>1, EndIsPromised DEF Verdict
<1>4. CASE UNCHANGED vars
  <2>1. UNCHANGED <<plan, start, recalled, view, order, pc, outcome>>
    BY <1>4 DEF vars
  <2> QED BY <2>1, EndIsPromised DEF Verdict
<1> QED BY <1>1, <1>2, <1>3, <1>4, VenuesArePromised DEF Next

\* It starts as the promise does.
LEMMA InitIsPromised == Init => Promise!Init
<1> SUFFICES ASSUME Init PROVE Promise!Init
  OBVIOUS
<1>1. \A b \in Brokers : Net(b) = 0
  BY Names DEF Init, Net, NoOrder
<1>2. LegsMoved = [b \in {"ccf", "umc"} |-> 0]
  BY <1>1, Names DEF LegsMoved
<1>3. ~Disturbed /\ Verdict = "working"
  BY DEF Init, Disturbed, Verdict
<1> QED BY <1>2, <1>3 DEF Promise!Init, LegsMoved, Disturbed

\* The coordinator keeps PairPromise, for every size of the legs, every number of
\* shares recalled and every way the venues may lag, fail or report late.
THEOREM PromiseKept == Spec => KeepsPromise
BY FlipHolds, InitConcluded, ConcludedIsKept, InitIsPromised, StepIsPromised, PTL
   DEF Spec, KeepsPromise, Promise!Spec

-----------------------------------------------------------------------------
(* Calm venues *)

\* With calm venues an order that is done with stays done with: a UMC leg that
\* did not count as filled has ended, and a baseline read before any order is the
\* position the plan found, so an unwind starts from a UMC leg that never traded.
CalmInv ==
    /\ pc \in Before \cup {"call"} => ~order[cur].open
    /\ \A o \in After(cur) : ~order[o].open
    /\ recalled = 0 /\ baseline # Unreadable => baseline = start["umc"]
    /\ cur = "umc" /\ pc = "ret" /\ report["umc"].status # "filled" => ~order["umc"].open
    /\ cur \in Emergency /\ report["ccf"].status = "filled" =>
         ~order["umc"].open /\ (recalled = 0 => order["umc"].exec = 0)

\* A UMC leg that has not traded, nor its reversal, leaves UMC where it was.
LEMMA UnmovedUmc ==
    ASSUME TypeOK, FlipInv, recalled = 0, ~AccountsLag, order["umcX"].qty = 0
    PROVE  Seen("umc") = start["umc"] <=> order["umc"].exec = 0
<1>1. /\ order["umc"].exec \in Nat /\ order["umcX"].exec \in Nat
      /\ order["umcX"].exec <= order["umcX"].qty /\ start["umc"] \in Int
  BY Ranges, Names DEF InRange, FlipInv, Quantities
<1>2. Net("umc") = order["umc"].exec
  BY <1>1, Names DEF Net
<1>3. Seen("umc") = start["umc"] + Signed(Buys("umc"), order["umc"].exec)
  BY <1>1, <1>2 DEF Seen, Pos, Signed
<1>4. CASE Buys("umc")
  BY <1>1, <1>3, <1>4 DEF Signed
<1>5. CASE ~Buys("umc")
  BY <1>1, <1>3, <1>5 DEF Signed
<1> QED BY <1>4, <1>5

\* A calm adapter gives up on a UMC order only when it has ended.
LEMMA CalmReports ==
    ASSUME TypeOK, CalmInv, ~LateFills, cur = "umc", Adapter, ~PlaceOrder
    PROVE  report'["umc"].status = "filled" \/ ~order["umc"].open
<1>1. ASSUME NEW status, NEW fills, Return(status, fills)
      PROVE  report'["umc"].status = status
  BY <1>1, Names DEF Return, TypeOK
<1>2. CASE NothingSent
  BY <1>2 DEF NothingSent, CalmInv, Before
<1>3. CASE IbkrReportsFilled
  BY <1>1, <1>3 DEF IbkrReportsFilled
<1>4. CASE IbkrReportsFailed \/ IbkrReportsUnknown \/ WorkerLost \/ AdapterRaises
  BY <1>4 DEF IbkrReportsFailed, IbkrReportsUnknown, WorkerLost, AdapterRaises, CanReport
<1>5. ~FubonReports
  BY DEF FubonReports, FubonOrders
<1> QED BY <1>2, <1>3, <1>4, <1>5 DEF Adapter

\* CalmInv is inductive where the venues are calm.
LEMMA CalmIsKept ==
    TypeOK /\ FlipInv /\ CalmInv /\ ~AccountsLag /\ ~LateFills /\ [Next]_vars => CalmInv'
<1> SUFFICES ASSUME TypeOK, FlipInv, CalmInv, ~AccountsLag, ~LateFills, [Next]_vars
             PROVE  CalmInv'
  OBVIOUS
<1>0. cur \in OrderIds /\ cur \notin After(cur) /\ After(cur) \subseteq OrderIds
  BY Ranges, Names DEF InRange, After
<1>1. CASE Venues
  <2>1. UNCHANGED <<start, pc, cur, baseline, report>>
    BY <1>1, VenuesStep DEF FlipInv
  <2>2. \A o \in OrderIds : order'[o].open => order[o].open
    BY <1>1 DEF Venues, Recall, Trade, Expire, CatchUp, TypeOK
  <2>3. \A o \in OrderIds : ~order[o].open => order'[o].exec = order[o].exec
    <3>1. ASSUME NEW o \in OrderIds, ~order[o].open, NEW q \in OrderIds, Trade(q)
          PROVE  order'[o].exec = order[o].exec
      BY <3>1 DEF Trade, TypeOK
    <3>2. ASSUME NEW o \in OrderIds, NEW q \in OrderIds, Expire(q)
          PROVE  order'[o].exec = order[o].exec
      BY <3>2 DEF Expire, TypeOK
    <3>3. CASE Recall \/ \E b \in Brokers : CatchUp(b)
      BY <3>3 DEF Recall, CatchUp
    <3> QED BY <1>1, <3>1, <3>2, <3>3 DEF Venues
  <2>4. recalled' = 0 => recalled = 0
    BY <1>1, VenuesKeepFills
  <2> QED BY <1>0, <2>1, <2>2, <2>3, <2>4, Names DEF CalmInv
<1>2. CASE PlaceOrder
  <2>1. UNCHANGED <<start, recalled, cur, baseline, report>> /\ pc' = "wait"
    BY <1>2 DEF PlaceOrder
  <2>2. \A o \in OrderIds : o # cur => order'[o] = order[o]
    BY <1>2 DEF PlaceOrder, TypeOK
  <2> QED BY <1>0, <2>1, <2>2, Names DEF CalmInv, Before, Emergency
<1>3. CASE Adapter /\ ~PlaceOrder
  <2>1. PICK status \in Statuses : \E fills \in Nat : Return(status, fills)
    BY <1>3, ReportsAreTruthful
  <2>2. UNCHANGED <<start, recalled, order, cur, baseline>> /\ pc' = "ret"
    BY <2>1 DEF Return, venueVars
  <2>3. cur \in Emergency => report'["ccf"] = report["ccf"]
    BY <2>1 DEF Return, TypeOK, Emergency
  <2> QED BY <1>3, <2>2, <2>3, CalmReports DEF CalmInv, Before
<1>4. CASE TakeBaseline
  <2>1. UNCHANGED <<start, recalled, order, report, cur>> /\ pc' = "intent"
        /\ pc = "baseline" /\ baseline' \in {Seen("umc"), Unreadable}
    BY <1>4 DEF TakeBaseline, venueVars, Readings
  <2>2. cur = "ccf" /\ order["umc"].qty = 0 /\ order["umcX"].qty = 0
    BY <2>1 DEF FlipInv, InTurn, Before, After
  <2>3. order["umc"].exec = 0
    BY <2>2, Ranges, Names DEF FlipInv, Quantities, InRange
  <2>4. recalled = 0 => Seen("umc") = start["umc"]
    BY <2>2, <2>3, UnmovedUmc
  <2> QED BY <2>1, <2>2, <2>4 DEF CalmInv, Before, Emergency
<1>5. CASE UmcReturned
  <2>1. UNCHANGED <<start, recalled, order, report, baseline>> /\ pc = "ret" /\ cur = "umc"
    BY <1>5 DEF UmcReturned, venueVars
  <2>2. CASE cur' = cur /\ pc' = "done"
    BY <2>1, <2>2 DEF CalmInv, Before, Emergency
  <2>3. CASE ~(cur' = cur /\ pc' = "done")
    <3>1. cur' = "ccfX" /\ pc' = "call" /\ report["umc"].status # "filled"
      BY <1>5, <2>3 DEF UmcReturned, Finish, Reverse, Reversal
    <3>2. PICK now \in Readings("umc") : Unmoved(now)
      BY <1>5, <2>3 DEF UmcReturned, Finish
    <3>3. Seen("umc") = baseline /\ baseline # Unreadable
      BY <3>2 DEF Unmoved, Readings
    <3>4. recalled = 0 => Seen("umc") = start["umc"]
      BY <3>3 DEF CalmInv
    <3>5. order["umcX"].qty = 0
      BY <2>1 DEF FlipInv, InTurn, After
    <3>6. recalled = 0 => order["umc"].exec = 0
      BY <3>4, <3>5, UnmovedUmc
    <3>7. ~order["umc"].open /\ ~order["ccfX"].open /\ ~order["umcX"].open
      BY <2>1, <3>1 DEF CalmInv, After
    <3> QED BY <2>1, <3>1, <3>6, <3>7 DEF CalmInv, Before, After
  <2> QED BY <2>2, <2>3
<1>6. CASE CcfReturned \/ EmergencyReturned
  <2>1. UNCHANGED <<start, recalled, order, report, baseline>> /\ pc = "ret"
    BY <1>6 DEF CcfReturned, EmergencyReturned, venueVars
  <2>2. \/ cur' = cur /\ pc' = "done"
        \/ cur' \in After(cur) /\ pc' = "call" /\ cur' # "umcX" /\ report["ccf"].status # "filled"
        \/ cur' \in After(cur) /\ pc' = "call" /\ (cur' \in Emergency => cur \in Emergency)
    BY <1>6 DEF CcfReturned, EmergencyReturned, Finish, Reverse, Reversal, After, Emergency
  <2>3. CASE cur' = cur /\ pc' = "done"
    BY <2>1, <2>3 DEF CalmInv, Before
  <2>4. CASE cur' \in After(cur) /\ pc' = "call"
    <3>1. After(cur') \subseteq After(cur)
      BY <2>4 DEF After
    <3> QED BY <2>1, <2>2, <2>4, <3>1 DEF CalmInv, Before
  <2> QED BY <2>2, <2>3, <2>4
<1>7. CASE RejectInvalidPlan \/ CheckPositions \/ StartAttempt
  <2>1. UNCHANGED <<start, recalled, order, report, baseline, cur>>
        /\ pc \in Before /\ pc' \in Before \cup {"call", "done"}
    BY <1>7 DEF RejectInvalidPlan, CheckPositions, StartAttempt, Finish, venueVars, Before
  <2> QED BY <2>1 DEF CalmInv, Before
<1>8. CASE Crash \/ UNCHANGED vars
  <2>1. UNCHANGED <<start, recalled, order, report, baseline, cur>> /\ pc' \in {pc, "crashed"}
    BY <1>8 DEF Crash, vars, venueVars
  <2> QED BY <2>1 DEF CalmInv, Before
<1> QED BY <1>1, <1>2, <1>3, <1>4, <1>5, <1>6, <1>7, <1>8 DEF Next, Coordinator

\* It holds when execute() is entered.
LEMMA InitCalm == Init => CalmInv
<1> SUFFICES ASSUME Init PROVE CalmInv
  OBVIOUS
<1>1. cur = "ccf" /\ baseline = Unreadable /\ \A o \in OrderIds : order[o] = NoOrder
  BY DEF Init
<1> QED BY <1>1, Names DEF CalmInv, NoOrder, After, Emergency

\* A finished unwind, told and concluded, ends where the plan began.
LEMMA CalmRestores ==
    TypeOK /\ FlipInv /\ Concluded /\ Told /\ CalmInv => UnwindRestoresPair
<1> SUFFICES ASSUME TypeOK, FlipInv, Concluded, Told, CalmInv, pc = "done",
                    report["ccf"].status = "filled", outcome.status # "filled", ~Critical,
                    recalled = 0, NEW b \in Brokers
             PROVE  Pos(b) = start[b]
  BY DEF UnwindRestoresPair
<1>0. \A o \in OrderIds : order[o].exec \in Nat /\ order[o].qty \in Nat
                          /\ order[o].exec <= order[o].qty
  BY Ranges DEF InRange, FlipInv, Quantities
<1>1. report["ccf"].fills = CcfQty /\ order["ccf"].exec = CcfQty
  BY DEF Concluded
<1>2. report["ccfX"].status = "filled" /\ order["ccfX"].exec = CcfQty
  BY <1>1, Names DEF Told
<1>3. cur \in Emergency
  <2>1. "ccfX" \notin After(cur)
    BY <1>2 DEF FlipInv, InTurn, NoReport
  <2> QED BY <2>1, Ranges, Names DEF After, InRange, Emergency
<1>4. order["umc"].exec = 0 /\ order["umcX"].qty <= order["umc"].exec
  BY <1>3 DEF CalmInv, FlipInv, Quantities
<1>5. order["umcX"].exec = 0
  BY <1>0, <1>4, Names
<1>6. Net(b) = 0
  BY <1>1, <1>2, <1>4, <1>5, Names DEF Net
<1>7. start[b] \in Int
  BY Ranges DEF InRange
<1> QED BY <1>6, <1>7 DEF Pos, Signed

\* With calm venues, a finished unwind of a filled CCF leg puts both brokers back
\* where they were.
THEOREM CalmUnwinds == ~AccountsLag /\ ~LateFills => (Spec => []UnwindRestoresPair)
<1> SUFFICES ASSUME ~AccountsLag, ~LateFills PROVE Spec => []UnwindRestoresPair
  OBVIOUS
<1>1. TypeOK /\ FlipInv /\ CalmInv /\ [Next]_vars => CalmInv'
  BY CalmIsKept
<1> QED BY <1>1, FlipHolds, InitConcluded, ConcludedIsKept, InitTold, ToldIsKept,
        InitCalm, CalmRestores, PTL DEF Spec
=============================================================================
