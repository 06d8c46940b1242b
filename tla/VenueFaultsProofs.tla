------------------------- MODULE VenueFaultsProofs -------------------------
(***************************************************************************)
(* With calm venues an unwind restores the pair: the proofs about          *)
(* PairCoordinator, taken where no account lags and no report comes late,  *)
(* speak of the calm half of MCVenueFaults.                                *)
(***************************************************************************)
EXTENDS MCVenueFaults, TLAPS

CP == INSTANCE PairCoordinatorProofs WITH AccountsLag <- FALSE, LateFills <- FALSE

-----------------------------------------------------------------------------
(* MCVenueFaults and the proofs take the same coordinator *)

\* Fubon reports on the same evidence.
LEMMA SameReports == Calm!FubonReports => CP!FubonReports
<1>1. \A o : Calm!Delta(o) = CP!Delta(o)
  BY DEF Calm!Delta, CP!Delta, Calm!OrderBuys, CP!OrderBuys, Calm!Primary, CP!Primary,
     Calm!Broker, CP!Broker, Calm!FubonOrders, CP!FubonOrders, Calm!Buys, CP!Buys,
     Calm!Seen, CP!Seen, Calm!Pos, CP!Pos, Calm!Net, CP!Net, Calm!Reversal, CP!Reversal,
     Calm!Signed, CP!Signed
<1>2. \A o : Calm!DeltaFill(o) = CP!DeltaFill(o)
  BY <1>1 DEF Calm!DeltaFill, CP!DeltaFill
<1>3. \A o : Calm!FubonEvidence(o) = CP!FubonEvidence(o)
  BY <1>2 DEF Calm!FubonEvidence, CP!FubonEvidence
<1>4. \A o, fills : Calm!FubonStatus(o, fills) = CP!FubonStatus(o, fills)
  BY DEF Calm!FubonStatus, CP!FubonStatus
<1>5. Calm!CanReport <=> CP!CanReport
  BY DEF Calm!CanReport, CP!CanReport
<1>6. \A status, fills : Calm!Return(status, fills) <=> CP!Return(status, fills)
  BY DEF Calm!Return, CP!Return, Calm!venueVars, CP!venueVars
<1>7. Calm!FubonOrders = CP!FubonOrders
  BY DEF Calm!FubonOrders, CP!FubonOrders
<1> QED BY <1>3, <1>4, <1>5, <1>6, <1>7 DEF Calm!FubonReports, CP!FubonReports

\* Every step of the one is a step of the other.
LEMMA SameNext == Calm!Next => CP!Next
<1> USE DEF Calm!Brokers, CP!Brokers, Calm!FubonOrders, CP!FubonOrders,
       Calm!IbkrOrders, CP!IbkrOrders, Calm!OrderIds, CP!OrderIds,
       Calm!Primary, CP!Primary, Calm!Emergency, CP!Emergency,
       Calm!Buys, CP!Buys, Calm!Qty, CP!Qty, Calm!Signed, CP!Signed,
       Calm!Broker, CP!Broker, Calm!Reversal, CP!Reversal, Calm!Net, CP!Net,
       Calm!Pos, CP!Pos, Calm!Seen, CP!Seen, Calm!Readings, CP!Readings,
       Calm!Expected, CP!Expected, Calm!OrderQty, CP!OrderQty,
       Calm!OrderBuys, CP!OrderBuys, Calm!Delta, CP!Delta,
       Calm!CanReport, CP!CanReport, Calm!Return, CP!Return,
       Calm!Finish, CP!Finish, Calm!Reverse, CP!Reverse, Calm!Unmoved, CP!Unmoved,
       Calm!GuardReadings, CP!GuardReadings, Calm!GuardHolds, CP!GuardHolds,
       Calm!EmergencyEvents, CP!EmergencyEvents, Calm!venueVars, CP!venueVars
<1>1. Calm!Venues => CP!Venues
  <2>1. Calm!Recall => CP!Recall
    BY DEF Calm!Recall, CP!Recall
  <2>2. ASSUME NEW o, Calm!Trade(o) \/ Calm!Expire(o)
        PROVE  CP!Trade(o) \/ CP!Expire(o)
    BY <2>2 DEF Calm!Trade, CP!Trade, Calm!Expire, CP!Expire
  <2>3. ASSUME NEW b, Calm!CatchUp(b) PROVE CP!CatchUp(b)
    BY <2>3 DEF Calm!CatchUp, CP!CatchUp
  <2> QED BY <2>1, <2>2, <2>3 DEF Calm!Venues, CP!Venues
<1>2. Calm!Adapter => CP!Adapter
  <2>1. Calm!PlaceOrder => CP!PlaceOrder
    BY DEF Calm!PlaceOrder, CP!PlaceOrder
  <2>2. Calm!NothingSent => CP!NothingSent
    BY DEF Calm!NothingSent, CP!NothingSent
  <2>3. Calm!IbkrReportsFilled => CP!IbkrReportsFilled
    BY DEF Calm!IbkrReportsFilled, CP!IbkrReportsFilled
  <2>4. Calm!IbkrReportsFailed => CP!IbkrReportsFailed
    BY DEF Calm!IbkrReportsFailed, CP!IbkrReportsFailed
  <2>5. Calm!IbkrReportsUnknown => CP!IbkrReportsUnknown
    BY DEF Calm!IbkrReportsUnknown, CP!IbkrReportsUnknown
  <2>6. Calm!WorkerLost \/ Calm!AdapterRaises => CP!WorkerLost \/ CP!AdapterRaises
    BY DEF Calm!WorkerLost, CP!WorkerLost, Calm!AdapterRaises, CP!AdapterRaises
  <2> QED BY <2>1, <2>2, <2>3, <2>4, <2>5, <2>6, SameReports DEF Calm!Adapter, CP!Adapter
<1>3. Calm!Coordinator => CP!Coordinator
  <2>1. Calm!RejectInvalidPlan => CP!RejectInvalidPlan
    BY DEF Calm!RejectInvalidPlan, CP!RejectInvalidPlan
  <2>2. Calm!CheckPositions => CP!CheckPositions
    BY DEF Calm!CheckPositions, CP!CheckPositions
  <2>3. Calm!TakeBaseline \/ Calm!StartAttempt => CP!TakeBaseline \/ CP!StartAttempt
    BY DEF Calm!TakeBaseline, CP!TakeBaseline, Calm!StartAttempt, CP!StartAttempt
  <2>4. Calm!CcfReturned => CP!CcfReturned
    BY DEF Calm!CcfReturned, CP!CcfReturned
  <2>5. Calm!UmcReturned => CP!UmcReturned
    BY DEF Calm!UmcReturned, CP!UmcReturned
  <2>6. Calm!EmergencyReturned => CP!EmergencyReturned
    BY DEF Calm!EmergencyReturned, CP!EmergencyReturned
  <2> QED BY <2>1, <2>2, <2>3, <2>4, <2>5, <2>6 DEF Calm!Coordinator, CP!Coordinator
<1>4. Calm!Crash => CP!Crash
  BY DEF Calm!Crash, CP!Crash
<1> QED BY <1>1, <1>2, <1>3, <1>4 DEF Calm!Next, CP!Next

\* And they start alike.
LEMMA SameInit == Init => CP!Init
BY DEF Init, CP!Init, Plans, CP!Plans, Brokers, CP!Brokers, Qty, CP!Qty,
   OrderIds, CP!OrderIds, FubonOrders, CP!FubonOrders, IbkrOrders, CP!IbkrOrders,
   NoOrder, CP!NoOrder, NoReport, CP!NoReport

-----------------------------------------------------------------------------
(* The calm half *)

\* All that the proofs know of a calm coordinator.
CalmParts == CP!TypeOK /\ CP!FlipInv /\ CP!Concluded /\ CP!Told /\ CP!CalmInv

\* It holds at the start.
LEMMA CalmPartsInit == Init => CalmParts
BY SameInit, CP!InitType, CP!InitFlip, CP!InitConcluded, CP!InitTold, CP!InitCalm,
   QtyAssumption, ReadAssumption DEF CalmParts

\* A step of a calm coordinator keeps it.
LEMMA CalmPartsKept == CalmParts /\ [CP!Next]_(CP!vars) => CalmParts'
<1> SUFFICES ASSUME CalmParts, [CP!Next]_(CP!vars) PROVE CalmParts'
  OBVIOUS
<1> USE QtyAssumption, ReadAssumption DEF CalmParts
<1>1. CP!TypeOK'
  BY CP!TypeIsKept
<1>2. CP!FlipInv'
  BY CP!FlipIsKept
<1>3. CP!Concluded'
  BY CP!ConcludedIsKept
<1>4. CP!Told'
  BY CP!ToldIsKept
<1>5. CP!CalmInv'
  BY CP!CalmIsKept
<1> QED BY <1>1, <1>2, <1>3, <1>4, <1>5

\* It is about the pair of MCVenueFaults.
LEMMA CalmPartsRestore == CalmParts => UnwindRestoresPair
<1>1. CalmParts => CP!UnwindRestoresPair
  BY CP!CalmRestores, QtyAssumption, ReadAssumption DEF CalmParts
<1>2. CP!UnwindRestoresPair => UnwindRestoresPair
  BY DEF CP!UnwindRestoresPair, UnwindRestoresPair, CP!Critical, Critical,
     CP!Brokers, Brokers, CP!Pos, Pos, CP!Net, Net, CP!Reversal, Reversal,
     CP!Signed, Signed, CP!Buys, Buys
<1> QED BY <1>1, <1>2

\* With calm venues, a finished unwind of a filled CCF leg puts both brokers back
\* where they were.
THEOREM CalmUnwindRestores == MCSpec => []CalmUnwindRestoresPair
<1>1. MCInit => (calm => CalmParts)
  BY CalmPartsInit DEF MCInit
<1>2. (calm => CalmParts) /\ [MCNext]_<<vars, calm>> => (calm => CalmParts)'
  <2> SUFFICES ASSUME calm => CalmParts, [MCNext]_<<vars, calm>>, calm'
               PROVE  CalmParts'
    OBVIOUS
  <2>1. CASE HostileStep
    BY <2>1 DEF HostileStep
  <2>2. CASE CalmStep
    BY <2>2, SameNext, CalmPartsKept DEF CalmStep
  <2>3. CASE UNCHANGED <<vars, calm>>
    <3>1. CP!vars' = CP!vars /\ CalmParts
      BY <2>3 DEF vars, CP!vars
    <3> QED BY <3>1, CalmPartsKept
  <2> QED BY <2>1, <2>2, <2>3 DEF MCNext
<1>3. (calm => CalmParts) => CalmUnwindRestoresPair
  BY CalmPartsRestore DEF CalmUnwindRestoresPair
<1> QED BY <1>1, <1>2, <1>3, PTL DEF MCSpec
=============================================================================
