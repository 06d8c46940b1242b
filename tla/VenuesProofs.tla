---------------------------- MODULE VenuesProofs ----------------------------
(***************************************************************************)
(* Both adapters, proved: what the IBKR client serves from its caches was  *)
(* asked for on the connection it has, a failed IBKR order is one the      *)
(* account shows nothing of, and every report keeps VenuePromise.  For     *)
(* every size, number of orders, connections and trades of others.         *)
(***************************************************************************)
EXTENDS MCVenues, FubonOrderProofs

VenueParts == <<side, exec, live, placed, pos, view, third>>

-----------------------------------------------------------------------------
(* The caches of the IBKR client *)

\* A link that looks up was made: session 0 serves nothing.
Made ==
    /\ link \in {"down", "up", "dead"}
    /\ session \in 0..MaxSessions /\ ticker \in 0..MaxSessions
    /\ ticker # 0 => ticker = session
    /\ link # "down" => session # 0
    /\ link = "down" => ticker = 0

\* Down, the client has no positions, and nothing verified.
Read ==
    /\ verified \in BOOLEAN /\ known \in BOOLEAN
    /\ verified => known
    /\ link = "down" => ~verified /\ ~known

CachesInv == Made /\ Read

LEMMA EnsureKeeps ==
    ASSUME Made, Ibkr!EnsureConnected, ticker' = ticker
    PROVE  Made' /\ link' # "down"
BY VenuesAssumption DEF Made, Ibkr!EnsureConnected, Ibkr!IsConnected

LEMMA ReadKeeps == ASSUME CachesInv, Ibkr!ReadPositions PROVE CachesInv' /\ known'
<1>1. Made' /\ link' # "down"
  BY EnsureKeeps DEF CachesInv, Ibkr!ReadPositions
<1>2. known' \in BOOLEAN /\ verified' \in BOOLEAN /\ known'
  BY ZenonT(30) DEF CachesInv, Read, Ibkr!ReadPositions, Ibkr!EnsurePositions
<1> QED BY <1>1, <1>2 DEF CachesInv, Read

LEMMA ConnectKeeps == ASSUME CachesInv, Ibkr!Connect PROVE CachesInv'
<1>1. Made' /\ link' # "down"
  BY EnsureKeeps DEF CachesInv, Ibkr!Connect
<1> QED BY <1>1 DEF CachesInv, Read, Ibkr!Connect

LEMMA QuoteKeeps == ASSUME CachesInv, Ibkr!Quote PROVE CachesInv'
<1>1. Made' /\ link' # "down"
  BY VenuesAssumption DEF CachesInv, Made, Ibkr!Quote, Ibkr!EnsureConnected, Ibkr!IsConnected
<1> QED BY <1>1 DEF CachesInv, Read, Ibkr!Quote

\* Whatever loses the connection loses what came with it.
LEMMA LossKeeps ==
    ASSUME CachesInv, ticker' = 0, verified' = FALSE, known' = FALSE, session' = session,
           link' = "down"
    PROVE  CachesInv'
<1>1. Made'
  BY VenuesAssumption DEF CachesInv, Made
<1>2. Read'
  BY Zenon DEF Read
<1> QED BY <1>1, <1>2 DEF CachesInv

LEMMA LinkKeeps == ASSUME CachesInv, Ibkr!Dies \/ Ibkr!Drops \/ Ibkr!Killed PROVE CachesInv'
<1>1. CASE Ibkr!Dies
  BY <1>1 DEF Ibkr!Dies, CachesInv, Made, Read
<1>2. CASE Ibkr!Drops
  BY <1>2, LossKeeps DEF Ibkr!Drops, Ibkr!OnDisconnected
<1>3. CASE Ibkr!Killed
  BY <1>3, LossKeeps DEF Ibkr!Killed
<1> QED BY <1>1, <1>2, <1>3

LEMMA ForceKeeps == ASSUME CachesInv, Ibkr!ForceReconnect PROVE CachesInv'
<1>0. session \in 0..MaxSessions /\ session < MaxSessions
  BY DEF CachesInv, Made, Ibkr!ForceReconnect
<1>1. ticker' = 0 /\ verified' = FALSE
  BY DEF Ibkr!ForceReconnect, Ibkr!Cleared
<1>2. CASE link' = "up" /\ session' = session + 1 /\ known' = FALSE
  <2>1. Made'
    BY <1>0, <1>1, <1>2, VenuesAssumption DEF CachesInv, Made
  <2>2. Read'
    BY <1>1, <1>2, Zenon DEF Read
  <2> QED BY <2>1, <2>2 DEF CachesInv
<1>3. CASE UNCHANGED <<link, session, known>> /\ Ibkr!IsConnected
  <2>1. Made'
    BY <1>0, <1>1, <1>3, VenuesAssumption DEF CachesInv, Made, Ibkr!IsConnected
  <2>2. Read'
    BY <1>1, <1>3, Zenon DEF CachesInv, Read, Ibkr!IsConnected
  <2> QED BY <2>1, <2>2 DEF CachesInv
<1>4. CASE link' = "down" /\ known' = FALSE /\ UNCHANGED session
  BY <1>1, <1>4, LossKeeps
<1> QED BY <1>2, <1>3, <1>4 DEF Ibkr!ForceReconnect

-----------------------------------------------------------------------------
(* An order at IBKR *)

IbkrReports == [status : {"none", "Submitted", "Cancelled", "Filled"}, filled : 0..Qty]
IbkrTold    == [status : {"none", "filled", "failed", "rejected", "unknown"}, fills : Nat]

\* What is typed, the venue and the caches apart.
OrderTypes ==
    /\ pc \in {"idle", "wait", "account"}
    /\ cur \in 0..MaxOrders /\ base \in Int
    /\ born \in [Orders -> 0..MaxSessions]
    /\ report \in IbkrReports
    /\ told \in IbkrTold

\* execute() is in one place, on a connection that was made.
IbkrCalls ==
    /\ pc # "idle" => cur # 0 /\ told = NoReport /\ born[cur] # 0
    /\ pc = "idle" /\ cur # 0 => told # NoReport

\* What orderStatus said of the order it has executed.
SaidSo ==
    pc = "account" => /\ report.filled <= exec[cur]
                      /\ report.status = "Filled" => exec[cur] = Qty

IbkrInv == VenueTypeOK /\ CachesInv /\ OrderTypes /\ IbkrCalls /\ SaidSo

LEMMA IbkrTypes == IbkrInv => Ibkr!TypeOK /\ Ibkr!ServesThisSession
BY DEF IbkrInv, OrderTypes, IbkrReports, IbkrTold, CachesInv, Made, Read, Ibkr!TypeOK,
       Ibkr!VenueTypeOK, Ibkr!SessionTypeOK, Ibkr!ServesThisSession, VenueTypeOK, Orders, Ibkr!Orders

\* A step of the venue: what is executed only grows.
LEMMA IbkrVenue == ASSUME VenueTypeOK, Ibkr!VenueNext
                   PROVE  VenueTypeOK' /\ \A o \in Orders : exec[o] <= exec'[o]
<1>1. VenueNext
  BY DEF Ibkr!VenueNext, Ibkr!CatchUp, Ibkr!SomebodyTrades, Ibkr!Trade, Ibkr!Ends, Ibkr!Orders,
         VenueNext, CatchUp, SomebodyTrades, Trade, Ends, Orders
<1> QED BY <1>1, VenueMoves

\* An outcome ends the call.
LEMMA IbkrTellKeeps ==
    ASSUME OrderTypes, NEW status \in {"filled", "failed", "rejected", "unknown"},
           NEW fills \in Nat, Ibkr!Tell(status, fills), cur' \in 0..MaxOrders,
           UNCHANGED <<base, born>>
    PROVE  OrderTypes' /\ IbkrCalls' /\ SaidSo'
<1>1. told' = [status |-> status, fills |-> fills] /\ pc' = "idle"
      /\ report' = [status |-> "none", filled |-> 0]
  BY DEF Ibkr!Tell, Ibkr!NoRow
<1>2. told' \in IbkrTold /\ told' # NoReport
  BY <1>1 DEF IbkrTold, NoReport
<1>3. report' \in IbkrReports
  BY <1>1, VenueAssumption DEF IbkrReports
<1> QED BY <1>1, <1>2, <1>3 DEF OrderTypes, IbkrCalls, SaidSo

\* A report that the promise allows: filled is all, and what is filled was executed
\* or moved at the account.
Earned(status, fills, moved) ==
    /\ status = "filled" <=> fills = Qty
    /\ fills <= exec[cur] \/ (fills = Qty /\ moved = Qty)

\* The classification of _outcome_from_result: what it says was filled is earned, or
\* it is the number of shares that was listed.
LEMMA ByAccountSays ==
    ASSUME OrderTypes, VenueTypeOK, cur \in Orders, SaidSo, pc = "account",
           NEW shares \in Nat, NEW moved \in Int
    PROVE  LET said == Ibkr!Classify(shares, moved)
           IN  /\ said.status \in {"filled", "failed", "unknown"}
               /\ said.fills \in Nat
               /\ said.status = "failed" => said.fills = 0 /\ moved = 0
               /\ \/ Earned(said.status, said.fills, moved)
                  \/ said.fills = shares /\ shares > exec[cur] /\ said.status # "failed"
<1> DEFINE n == exec[cur]
           f == report.filled
           larger == IF f < shares THEN shares ELSE f
           all == IF larger < Qty THEN Qty ELSE larger
<1>1. n \in 0..Qty /\ f \in 0..Qty /\ f <= n
      /\ Qty \in Nat \ {0} /\ (report.status = "Filled" => n = Qty)
  BY VenueAssumption DEF OrderTypes, VenueTypeOK, SaidSo, IbkrReports, Orders
<1>2. larger \in Nat /\ (larger = f \/ (larger = shares /\ f < shares))
  BY <1>1
<1>3. CASE report.status = "Filled" \/ f = Qty
  <2>1. Ibkr!Classify(shares, moved) = [status |-> "filled", fills |-> Qty]
    BY <1>3 DEF Ibkr!Classify, Ibkr!ByAccount
  <2>2. Qty <= n
    BY <1>1, <1>3
  <2> QED BY <1>1, <2>1, <2>2 DEF Earned
<1>4. CASE ~(report.status = "Filled" \/ f = Qty) /\ (shares = Qty \/ moved = Qty)
  <2>1. Ibkr!Classify(shares, moved) = [status |-> "filled", fills |-> all]
    BY <1>4 DEF Ibkr!Classify, Ibkr!ByAccount, Ibkr!Larger
  <2>2. all = Qty \/ (all = shares /\ shares > n)
    BY <1>1, <1>2
  <2>3. all = Qty => Qty <= n \/ moved = Qty \/ (all = shares /\ shares > n)
    BY <1>1, <1>2, <1>4
  <2>4. all \in Nat
    BY <1>1, <1>2
  <2> HIDE DEF all
  <2> QED BY <1>1, <2>1, <2>2, <2>3, <2>4 DEF Earned
<1>5. CASE ~(report.status = "Filled" \/ f = Qty) /\ ~(shares = Qty \/ moved = Qty)
  <2>1. PICK s \in {"failed", "unknown"} :
          /\ Ibkr!Classify(shares, moved) = [status |-> s, fills |-> larger]
          /\ s = "failed" => report = [status |-> "Cancelled", filled |-> 0] /\ shares = 0 /\ moved = 0
    BY <1>5 DEF Ibkr!Classify, Ibkr!ByAccount, Ibkr!Unfilled, Ibkr!Larger
  <2>2. s = "failed" => larger = 0
    BY <2>1
  <2>3. larger # Qty
    BY <1>2, <1>5
  <2>4. larger <= n \/ (larger = shares /\ shares > n /\ s # "failed")
    BY <1>1, <1>2, <2>1
  <2> HIDE DEF larger
  <2> QED BY <1>2, <2>1, <2>2, <2>3, <2>4 DEF Earned
<1> QED BY <1>3, <1>4, <1>5

LEMMA IbkrStarts == Ibkr!Init => IbkrInv
<1> SUFFICES ASSUME Ibkr!Init PROVE IbkrInv
  OBVIOUS
<1>1. VenueTypeOK
  BY VenueAssumption DEF Ibkr!Init, Ibkr!VenueInit, Ibkr!Orders, Orders, VenueTypeOK
<1>2. CachesInv
  <2>1. Made
    BY VenuesAssumption DEF Ibkr!Init, Ibkr!SessionInit, Made
  <2>2. Read
    BY Zenon DEF Ibkr!Init, Ibkr!SessionInit, Read
  <2> QED BY <2>1, <2>2 DEF CachesInv
<1>3. OrderTypes
  <2>1. /\ pc = "idle" /\ cur = 0 /\ base = Qty
        /\ born = [o \in Orders |-> 0]
        /\ report = [status |-> "none", filled |-> 0] /\ told = [status |-> "none", fills |-> 0]
    BY DEF Ibkr!Init, Ibkr!VenueInit, Ibkr!NoRow, Ibkr!NoReport, Ibkr!Orders, Orders
  <2>2. Qty \in Nat /\ 0 \in 0..Qty /\ 0 \in Nat /\ 0 \in 0..MaxOrders /\ 0 \in 0..MaxSessions
    BY VenueAssumption, VenuesAssumption
  <2> QED BY <2>1, <2>2 DEF OrderTypes, IbkrReports, IbkrTold
<1> QED BY <1>1, <1>2, <1>3 DEF IbkrInv, IbkrCalls, SaidSo, Ibkr!Init

\* The position read at Begin and at the end is the one the account shows.
LEMMA ReadsView == ASSUME CachesInv, Ibkr!ReadPositions PROVE Ibkr!Position = view
BY ReadKeeps DEF Ibkr!Position

\* What the end of a call says of its order: what is earned, or a share of what is
\* listed under an id that was another order's.
LEMMA IbkrConclusion ==
    ASSUME IbkrInv, Ibkr!Conclude
    PROVE  \E status \in {"filled", "failed", "unknown"}, fills \in Nat :
             /\ Ibkr!Tell(status, fills)
             /\ status = "failed" => fills = 0 /\ view = base
             /\ \/ Earned(status, fills, Moved(cur, base, view))
                \/ ~Ibkr!NameIsOwn /\ status # "failed" /\ fills \in 1..Ibkr!Listed
<1>1. pc = "account" /\ cur \in Orders
  BY DEF Ibkr!Conclude, IbkrInv, IbkrCalls, OrderTypes, Orders
<1>2. Ibkr!NameIsOwn => Ibkr!Listed = exec[cur]
  BY DEF Ibkr!Listed
<1>3. Ibkr!Position = view
  BY ReadsView DEF Ibkr!Conclude, IbkrInv
<1> DEFINE moved == Moved(cur, base, view)
<1>4. side[cur] \in {-1, 1} /\ view \in Int /\ base \in Int /\ exec[cur] \in Nat
  BY <1>1 DEF IbkrInv, VenueTypeOK, OrderTypes
<1>5. moved \in Int /\ (moved = 0 => view = base)
  <2>1. CASE side[cur] = 1
    BY <1>4, <2>1 DEF Moved
  <2>2. CASE side[cur] = -1
    BY <1>4, <2>2 DEF Moved
  <2> QED BY <1>4, <2>1, <2>2
<1>6. Ibkr!Moved(cur, base, Ibkr!Position) = moved
  BY <1>3 DEF Ibkr!Moved, Moved
<1>7. PICK shares \in 0..Ibkr!Listed :
        Ibkr!Tell(Ibkr!Classify(shares, moved).status, Ibkr!Classify(shares, moved).fills)
  BY <1>6 DEF Ibkr!Conclude
<1>8. shares \in Nat /\ (shares > 0 => shares \in 1..Ibkr!Listed)
  BY <1>7
<1>9. Ibkr!NameIsOwn => shares <= exec[cur]
  BY <1>2, <1>4, <1>7
<1> HIDE DEF moved
<1> DEFINE said == Ibkr!Classify(shares, moved)
<1>10. /\ said.status \in {"filled", "failed", "unknown"}
       /\ said.fills \in Nat
       /\ said.status = "failed" => said.fills = 0 /\ moved = 0
       /\ \/ Earned(said.status, said.fills, moved)
          \/ said.fills = shares /\ shares > exec[cur] /\ said.status # "failed"
  BY <1>1, <1>5, <1>8, ByAccountSays DEF IbkrInv
<1>11. Ibkr!Tell(said.status, said.fills)
  BY <1>7
<1> HIDE DEF said
<1>12. \/ Earned(said.status, said.fills, moved)
       \/ ~Ibkr!NameIsOwn /\ said.status # "failed" /\ said.fills \in 1..Ibkr!Listed
  <2>1. CASE Earned(said.status, said.fills, moved)
    BY <2>1
  <2>2. CASE said.fills = shares /\ shares > exec[cur] /\ said.status # "failed"
    <3>1. shares > 0 /\ ~Ibkr!NameIsOwn
      BY <1>4, <1>8, <1>9, <2>2
    <3> QED BY <1>8, <2>2, <3>1
  <2> QED BY <1>10, <2>1, <2>2
<1>13. said.status = "failed" => said.fills = 0 /\ view = base
  BY <1>5, <1>10
<1> QED BY <1>10, <1>11, <1>12, <1>13 DEF moved

\* Every step of the IBKR adapter keeps the invariant.
LEMMA IbkrKeeps == ASSUME IbkrInv, Ibkr!Next PROVE IbkrInv'
<1>0. VenueTypeOK /\ CachesInv /\ OrderTypes /\ IbkrCalls /\ SaidSo
  BY DEF IbkrInv
<1>a. UNCHANGED VenueParts => VenueTypeOK'
  BY <1>0 DEF VenueParts, VenueTypeOK
<1>b. UNCHANGED <<link, session, ticker, verified, known>> => CachesInv'
  BY <1>0 DEF CachesInv, Made, Read
<1>c. UNCHANGED <<pc, cur, base, born, report, told>> => OrderTypes' /\ IbkrCalls'
  BY <1>0 DEF OrderTypes, IbkrCalls
<1>1. CASE Ibkr!AtVenue
  <2>1. Ibkr!VenueNext /\ UNCHANGED <<link, session, ticker, verified, known>>
        /\ UNCHANGED <<pc, cur, base, born, report, told>>
    BY <1>1 DEF Ibkr!AtVenue, Ibkr!ibkr, Ibkr!order
  <2>2. VenueTypeOK' /\ \A o \in Orders : exec[o] <= exec'[o]
    BY <1>0, <2>1, IbkrVenue
  <2>3. SaidSo'
    <3> SUFFICES ASSUME pc = "account" PROVE SaidSo'
      BY <2>1 DEF SaidSo
    <3>1. cur \in Orders
      BY <1>0 DEF IbkrCalls, OrderTypes, Orders
    <3>2. exec[cur] <= exec'[cur] /\ exec[cur] \in 0..Qty /\ exec'[cur] \in 0..Qty
          /\ report.filled \in 0..Qty
      BY <1>0, <2>2, <3>1 DEF VenueTypeOK, OrderTypes, IbkrReports
    <3> QED BY <1>0, <2>1, <3>2, VenueAssumption DEF SaidSo
  <2> QED BY <1>b, <1>c, <2>1, <2>2, <2>3 DEF IbkrInv
<1>2. CASE Ibkr!Link \/ Ibkr!Request
  <2>1. UNCHANGED VenueParts /\ UNCHANGED <<pc, cur, base, born, report, told>>
    BY <1>2 DEF Ibkr!Link, Ibkr!Request, Ibkr!venue, Ibkr!order, VenueParts
  <2>2. CachesInv'
    BY <1>0, <1>2, LinkKeeps, ForceKeeps, ConnectKeeps, QuoteKeeps, ReadKeeps
       DEF Ibkr!Link, Ibkr!Request
  <2>3. SaidSo'
    BY <1>0, <2>1 DEF SaidSo, VenueParts
  <2> QED BY <1>a, <1>c, <2>1, <2>2, <2>3 DEF IbkrInv
<1>3. CASE Ibkr!Arrives
  <2>1. UNCHANGED <<link, session, ticker, verified, known>>
        /\ UNCHANGED <<pc, cur, base, born, report, told>> /\ UNCHANGED exec
    BY <1>3 DEF Ibkr!Arrives, Ibkr!Reaches, Ibkr!ibkr, Ibkr!order
  <2>2. VenueTypeOK'
    BY <1>0, <1>3 DEF Ibkr!Arrives, Ibkr!Reaches, VenueTypeOK
  <2>3. SaidSo'
    BY <1>0, <2>1 DEF SaidSo
  <2> QED BY <1>b, <1>c, <2>1, <2>2, <2>3 DEF IbkrInv
<1>4. CASE Ibkr!NotSent
  <2>1. PICK status \in {"rejected", "unknown"} : Ibkr!Tell(status, 0)
    BY <1>4 DEF Ibkr!NotSent
  <2>2. UNCHANGED VenueParts /\ UNCHANGED <<link, session, ticker, verified, known>>
        /\ UNCHANGED <<base, born>>
    BY <1>4 DEF Ibkr!NotSent, Ibkr!venue, Ibkr!ibkr, VenueParts
  <2>3. cur' \in 0..MaxOrders /\ 0 \in Nat
    BY <1>0, <1>4, VenueAssumption DEF Ibkr!NotSent, OrderTypes
  <2>4. OrderTypes' /\ IbkrCalls' /\ SaidSo'
    BY <1>0, <2>1, <2>2, <2>3, IbkrTellKeeps
  <2> QED BY <1>a, <1>b, <2>2, <2>4 DEF IbkrInv
<1>5. CASE Ibkr!Begin
  <2>1. CachesInv'
    BY <1>0, <1>5, ReadKeeps DEF Ibkr!Begin
  <2>2. UNCHANGED VenueParts
    BY <1>5 DEF Ibkr!Begin, Ibkr!venue, VenueParts
  <2>3. cur' = cur + 1 /\ cur' \in Orders /\ pc' = "wait" /\ told' = [status |-> "none", fills |-> 0]
        /\ UNCHANGED report
    BY <1>0, <1>5, VenueAssumption DEF Ibkr!Begin, Ibkr!NoReport, OrderTypes, Orders
  <2>4. session' \in 0..MaxSessions /\ session' # 0
    <3>1. link' # "down"
      BY <1>0, <1>5, EnsureKeeps DEF Ibkr!Begin, Ibkr!ReadPositions, CachesInv
    <3> QED BY <2>1, <3>1 DEF CachesInv, Made
  <2>5. born' = [born EXCEPT ![cur'] = session']
    BY <1>5 DEF Ibkr!Begin
  <2>6. born' \in [Orders -> 0..MaxSessions] /\ born'[cur'] # 0
    BY <1>0, <2>3, <2>4, <2>5 DEF OrderTypes
  <2>7. base' \in Int
    BY <1>0, <1>5, ReadsView DEF Ibkr!Begin, VenueTypeOK
  <2>8. told' \in IbkrTold /\ told' = NoReport
    BY <2>3, VenueAssumption DEF IbkrTold, NoReport
  <2>9. cur' # 0 /\ cur' \in 0..MaxOrders
    BY <2>3, VenueAssumption DEF Orders
  <2>10. OrderTypes'
    BY <1>0, <2>3, <2>6, <2>7, <2>8, <2>9 DEF OrderTypes
  <2>11. IbkrCalls' /\ SaidSo'
    BY <2>3, <2>6, <2>8, <2>9 DEF IbkrCalls, SaidSo
  <2> QED BY <1>a, <2>1, <2>2, <2>10, <2>11 DEF IbkrInv
<1>6. CASE Ibkr!WaitEnds
  <2>1. UNCHANGED VenueParts /\ UNCHANGED <<cur, base, born, told>> /\ pc = "wait" /\ pc' = "account"
    BY <1>6 DEF Ibkr!WaitEnds, Ibkr!venue, VenueParts
  <2>2. CachesInv'
    BY <1>0, <1>6, ConnectKeeps DEF Ibkr!WaitEnds, Ibkr!Connect
  <2>3. cur \in Orders /\ exec[cur] \in 0..Qty
    BY <1>0, <2>1 DEF IbkrCalls, OrderTypes, Orders, VenueTypeOK
  <2>4. PICK s \in {"Submitted", "Cancelled", "Filled"}, n \in 0..Qty :
          report' = [status |-> s, filled |-> n] /\ n <= exec[cur] /\ (s = "Filled" => exec[cur] = Qty)
    <3>1. report' \in Ibkr!Rows
      BY <1>6 DEF Ibkr!WaitEnds
    <3>2. 0 \in 0..Qty /\ Qty \in 0..Qty /\ 0 <= exec[cur] /\ exec[cur] <= Qty /\ \A n \in 0..exec[cur] : n \in 0..Qty
      BY <2>3, VenueAssumption
    <3> QED BY <2>3, <3>1, <3>2 DEF Ibkr!Rows
  <2>5. report' \in IbkrReports
    BY <2>4 DEF IbkrReports
  <2>6. OrderTypes' /\ IbkrCalls'
    BY <1>0, <2>1, <2>5 DEF OrderTypes, IbkrCalls
  <2>7. SaidSo'
    BY <2>1, <2>4 DEF SaidSo, VenueParts
  <2> QED BY <1>a, <2>1, <2>2, <2>6, <2>7 DEF IbkrInv
<1>7. CASE Ibkr!Conclude
  <2>1. PICK status \in {"filled", "failed", "unknown"}, fills \in Nat : Ibkr!Tell(status, fills)
    BY <1>7, IbkrConclusion
  <2>2. UNCHANGED VenueParts /\ UNCHANGED <<cur, base, born>>
    BY <1>7 DEF Ibkr!Conclude, Ibkr!venue, VenueParts
  <2>3. CachesInv'
    BY <1>0, <1>7, ReadKeeps DEF Ibkr!Conclude
  <2>4. cur' \in 0..MaxOrders
    BY <1>0, <2>2 DEF OrderTypes
  <2>5. OrderTypes' /\ IbkrCalls' /\ SaidSo'
    BY <1>0, <2>1, <2>2, <2>4, IbkrTellKeeps
  <2> QED BY <1>a, <2>2, <2>3, <2>5 DEF IbkrInv
<1>8. CASE Ibkr!Breaks
  <2>1. Ibkr!Tell("unknown", 0) /\ UNCHANGED VenueParts /\ UNCHANGED <<cur, base, born>>
    BY <1>8 DEF Ibkr!Breaks, Ibkr!venue, VenueParts
  <2>2. CachesInv'
    BY <1>0, <1>b, <1>8, LinkKeeps DEF Ibkr!Breaks, Ibkr!ibkr
  <2>3. cur' \in 0..MaxOrders /\ 0 \in Nat
    BY <1>0, <2>1, VenueAssumption DEF OrderTypes
  <2>4. OrderTypes' /\ IbkrCalls' /\ SaidSo'
    BY <1>0, <2>1, <2>3, IbkrTellKeeps
  <2> QED BY <1>a, <2>1, <2>2, <2>4 DEF IbkrInv
<1> QED BY <1>1, <1>2, <1>3, <1>4, <1>5, <1>6, <1>7, <1>8 DEF Ibkr!Next, Ibkr!Adapter

-----------------------------------------------------------------------------
(* An IBKR order and the promise *)

LEMMA IbkrOpen ==
    ASSUME IbkrInv
    PROVE  /\ pc # "idle" => Contract!Open
           /\ pc = "idle" /\ cur < MaxOrders => Contract!Idle
BY DEF IbkrInv, IbkrCalls, NoReport, Contract!Open, Contract!Idle, Contract!NoReport

\* Every step of the IBKR adapter is a step of the promise, or none, or overcounts.
LEMMA IbkrPromiseStep ==
    ASSUME broker = "ibkr", IbkrInv, Ibkr!Next
    PROVE  Contract!Next \/ Overcounts \/ UNCHANGED PromiseVars
<1>1. CASE Ibkr!AtVenue
  <2>1. Contract!VenueNext /\ UNCHANGED <<cur, base, told>>
    BY <1>1 DEF Ibkr!AtVenue, Ibkr!order, Ibkr!VenueNext, Ibkr!CatchUp, Ibkr!SomebodyTrades,
       Ibkr!Trade, Ibkr!Ends, Ibkr!Orders, Contract!VenueNext, Contract!CatchUp,
       Contract!SomebodyTrades, Contract!Trade, Contract!Ends, Contract!Orders
  <2> QED BY <2>1 DEF Contract!Next, Contract!AtVenue
<1>2. CASE Ibkr!Link \/ Ibkr!Request \/ Ibkr!WaitEnds
  BY <1>2 DEF Ibkr!Link, Ibkr!Request, Ibkr!WaitEnds, Ibkr!order, Ibkr!venue, venue, PromiseVars
<1>3. CASE Ibkr!Arrives
  <2>1. Contract!Open /\ ~placed[cur] /\ UNCHANGED <<cur, base, told>>
    BY <1>3, IbkrOpen DEF Ibkr!Arrives, Ibkr!order
  <2>2. Contract!Place
    BY <1>3, <2>1 DEF Ibkr!Arrives, Ibkr!Reaches, Contract!Place, Contract!Reaches
  <2> QED BY <2>2 DEF Contract!Next
<1>4. CASE Ibkr!NotSent
  <2>1. Contract!Idle /\ cur' = cur + 1 /\ UNCHANGED <<venue, base>>
    BY <1>4, IbkrOpen DEF Ibkr!NotSent, Ibkr!venue, venue
  <2>2. told' \in {[status |-> s, fills |-> 0] : s \in {"rejected", "failed", "unknown"}}
    BY <1>4 DEF Ibkr!NotSent, Ibkr!Tell
  <2>3. Contract!TurnDown
    BY <2>1, <2>2 DEF Contract!TurnDown, venue, Contract!venue
  <2> QED BY <2>3 DEF Contract!Next
<1>5. CASE Ibkr!Begin
  <2>1. base' = view
    BY <1>5, ReadsView DEF Ibkr!Begin, IbkrInv
  <2>2. Contract!Begin
    BY <1>5, <2>1, IbkrOpen
       DEF Ibkr!Begin, Ibkr!NoReport, Ibkr!venue, Contract!Begin, Contract!NoReport, Contract!venue
  <2> QED BY <2>2 DEF Contract!Next
<1>6. CASE Ibkr!Conclude
  <2>1. PICK status \in {"filled", "failed", "unknown"}, fills \in Nat :
          /\ Ibkr!Tell(status, fills)
          /\ status = "failed" => fills = 0 /\ view = base
          /\ \/ Earned(status, fills, Moved(cur, base, view))
             \/ ~Ibkr!NameIsOwn /\ status # "failed" /\ fills \in 1..Ibkr!Listed
    BY <1>6, IbkrConclusion
  <2>2. Contract!Open /\ UNCHANGED <<venue, cur, base>>
    BY <1>6, IbkrOpen DEF Ibkr!Conclude, Ibkr!venue, venue
  <2>3. told' = [status |-> status, fills |-> fills]
    BY <2>1 DEF Ibkr!Tell
  <2>4. CASE Earned(status, fills, Moved(cur, base, view))
    <3>1. fills \in 0..Qty
      <4>1. exec[cur] \in 0..Qty /\ Qty \in Nat
        BY <1>6, VenueAssumption DEF IbkrInv, IbkrCalls, OrderTypes, VenueTypeOK, Orders, Ibkr!Conclude
      <4> QED BY <2>4, <4>1 DEF Earned
    <3>2. Contract!Backed(fills)
      BY <2>4, VenueAssumption DEF Earned, Contract!Backed, Moved, Contract!Moved
    <3>3. Contract!Report(status, fills)
      BY <2>1, <2>2, <2>3, <2>4, <3>2 DEF Earned, Contract!Report, venue, Contract!venue
    <3> QED BY <3>1, <3>3 DEF Contract!Next, Contract!Statuses
  <2>5. CASE ~Ibkr!NameIsOwn /\ status # "failed" /\ fills \in 1..Ibkr!Listed
    BY <2>2, <2>3, <2>5 DEF Overcounts
  <2> QED BY <2>1, <2>4, <2>5
<1>7. CASE Ibkr!Breaks
  <2>1. Contract!Open /\ UNCHANGED <<venue, cur, base>> /\ told' = [status |-> "unknown", fills |-> 0]
    BY <1>7, IbkrOpen DEF Ibkr!Breaks, Ibkr!Tell, Ibkr!venue, venue
  <2>2. 0 \in 0..Qty /\ ~(0 = Qty) /\ ~(0 > 0)
    BY VenueAssumption
  <2>3. Contract!Report("unknown", 0)
    BY <2>1, <2>2 DEF Contract!Report, venue, Contract!venue
  <2> QED BY <2>2, <2>3 DEF Contract!Next, Contract!Statuses
<1> QED BY <1>1, <1>2, <1>3, <1>4, <1>5, <1>6, <1>7 DEF Ibkr!Next, Ibkr!Adapter

-----------------------------------------------------------------------------
(* One adapter at a time *)

AnyVars == <<vars, broker, ibkrOnly>>

VenuesInv ==
    /\ broker \in {"fubon", "ibkr"}
    /\ CachesInv
    /\ broker = "fubon" => Inv
    /\ broker = "ibkr" => IbkrInv

LEMMA VenuesStart == MCInit => VenuesInv
<1> SUFFICES ASSUME MCInit PROVE VenuesInv
  OBVIOUS
<1>1. broker \in {"fubon", "ibkr"}
  BY VenuesAssumption DEF MCInit
<1>2. Inv /\ IbkrInv
  BY InvStarts, IbkrStarts DEF MCInit
<1> QED BY <1>1, <1>2 DEF VenuesInv, IbkrInv

LEMMA VenuesKeep == VenuesInv /\ [MCNext]_AnyVars => VenuesInv'
<1> SUFFICES ASSUME VenuesInv, [MCNext]_AnyVars PROVE VenuesInv'
  OBVIOUS
<1>1. CASE FubonStep
  <2>1. broker = "fubon" /\ broker' = broker /\ UNCHANGED <<link, session, ticker, verified, known>>
    BY <1>1 DEF FubonStep, ibkrOnly
  <2>2. Inv'
    BY <1>1, <2>1, InvStep DEF FubonStep, VenuesInv
  <2>3. CachesInv'
    BY <2>1 DEF VenuesInv, CachesInv, Made, Read
  <2> QED BY <2>1, <2>2, <2>3 DEF VenuesInv
<1>2. CASE IbkrStep
  <2>1. broker = "ibkr" /\ broker' = broker /\ IbkrInv /\ Ibkr!Next
    BY <1>2 DEF IbkrStep, VenuesInv
  <2>2. IbkrInv'
    BY <2>1, IbkrKeeps
  <2> QED BY <2>1, <2>2 DEF VenuesInv, IbkrInv
<1>3. CASE UNCHANGED AnyVars
  <2>1. UNCHANGED <<vars, broker, link, session, ticker, verified, known, born, report>>
    BY <1>3 DEF AnyVars, ibkrOnly
  <2>2. broker = "fubon" => Inv'
    BY <2>1, InvStep DEF VenuesInv
  <2>3. CachesInv'
    BY <2>1 DEF VenuesInv, CachesInv, Made, Read
  <2>4. broker = "ibkr" => VenueTypeOK' /\ OrderTypes' /\ IbkrCalls' /\ SaidSo'
    BY <2>1 DEF VenuesInv, IbkrInv, vars, venue, VenueTypeOK, OrderTypes, IbkrCalls, SaidSo
  <2> QED BY <2>1, <2>2, <2>3, <2>4 DEF VenuesInv, IbkrInv
<1> QED BY <1>1, <1>2, <1>3 DEF MCNext

LEMMA VenuesInvIsKept == MCSpec => []VenuesInv
BY VenuesStart, VenuesKeep, PTL DEF MCSpec, AnyVars

\* The caches need nothing of the orders.
LEMMA CachesKeep == CachesInv /\ [MCNext]_AnyVars => CachesInv'
<1> SUFFICES ASSUME CachesInv, [MCNext]_AnyVars PROVE CachesInv'
  OBVIOUS
<1>1. UNCHANGED <<link, session, ticker, verified, known>> => CachesInv'
  BY DEF CachesInv, Made, Read
<1>2. CASE Ibkr!Next
  <2>1. CASE Ibkr!AtVenue \/ Ibkr!Arrives \/ Ibkr!NotSent
    BY <1>1, <2>1 DEF Ibkr!AtVenue, Ibkr!Arrives, Ibkr!NotSent, Ibkr!ibkr
  <2>2. CASE Ibkr!Link \/ Ibkr!Request
    BY <2>2, LinkKeeps, ForceKeeps, ConnectKeeps, QuoteKeeps, ReadKeeps
       DEF Ibkr!Link, Ibkr!Request
  <2>3. CASE Ibkr!Begin \/ Ibkr!Conclude
    BY <2>3, ReadKeeps DEF Ibkr!Begin, Ibkr!Conclude
  <2>4. CASE Ibkr!WaitEnds
    BY <2>4, ConnectKeeps DEF Ibkr!WaitEnds, Ibkr!Connect
  <2>5. CASE Ibkr!Breaks
    BY <1>1, <2>5, LinkKeeps DEF Ibkr!Breaks, Ibkr!ibkr
  <2> QED BY <1>2, <2>1, <2>2, <2>3, <2>4, <2>5 DEF Ibkr!Next, Ibkr!Adapter
<1>3. CASE FubonStep \/ UNCHANGED AnyVars
  BY <1>1, <1>3 DEF FubonStep, AnyVars, ibkrOnly
<1> QED BY <1>2, <1>3 DEF MCNext, IbkrStep

\* ServesThisSession: through drops, kills, reconnections and closes that fail
\* half way, the ticker and the verified positions are of the connection the
\* client has.
THEOREM CachesServeThisSession == MCSpec => []ServesThisSession
<1>1. MCInit => CachesInv
  BY VenuesStart DEF VenuesInv
<1>2. CachesInv => ServesThisSession
  BY DEF CachesInv, Made, Read, ServesThisSession, Ibkr!ServesThisSession
<1> QED BY <1>1, <1>2, CachesKeep, PTL DEF MCSpec, AnyVars

\* AdaptersTypeOK: either adapter's state is well typed.
THEOREM AdaptersTyped == MCSpec => []AdaptersTypeOK
<1>1. VenuesInv => AdaptersTypeOK
  BY IbkrTypes DEF VenuesInv, Inv, TypeInv, AdaptersTypeOK
<1> QED BY <1>1, VenuesInvIsKept, PTL

\* FailureIsEarned: an IBKR order is called failed only if the account shows the
\* position it had before the order, whatever orderStatus said.
THEOREM FailuresEarned == MCSpec => FailureIsEarned
<1> DEFINE Founded == broker = "ibkr" /\ told' # told /\ told'.status = "failed" => view = base
<1>1. ASSUME VenuesInv, [MCNext]_AnyVars PROVE [Founded]_told
  <2> SUFFICES ASSUME broker = "ibkr", told' # told, told'.status = "failed" PROVE view = base
    OBVIOUS
  <2>1. IbkrInv /\ Ibkr!Next
    BY <1>1 DEF VenuesInv, MCNext, FubonStep, IbkrStep, AnyVars, vars
  <2>2. CASE Ibkr!Conclude
    <3>1. PICK status \in {"filled", "failed", "unknown"}, fills \in Nat :
            Ibkr!Tell(status, fills) /\ (status = "failed" => view = base)
      BY <2>1, <2>2, IbkrConclusion
    <3> QED BY <3>1 DEF Ibkr!Tell
  <2>3. CASE Ibkr!NotSent
    <3>1. PICK status \in {"rejected", "unknown"} : Ibkr!Tell(status, 0)
      BY <2>3 DEF Ibkr!NotSent
    <3> QED BY <3>1 DEF Ibkr!Tell
  <2>4. CASE Ibkr!Breaks
    BY <2>4 DEF Ibkr!Breaks, Ibkr!Tell
  <2>5. CASE Ibkr!Begin
    BY <2>5 DEF Ibkr!Begin, Ibkr!NoReport
  <2>6. ~(Ibkr!AtVenue \/ Ibkr!Link \/ Ibkr!Arrives \/ Ibkr!Request \/ Ibkr!WaitEnds)
    BY DEF Ibkr!AtVenue, Ibkr!Link, Ibkr!Arrives, Ibkr!Request, Ibkr!WaitEnds, Ibkr!order
  <2> QED BY <2>1, <2>2, <2>3, <2>4, <2>5, <2>6 DEF Ibkr!Next, Ibkr!Adapter
<1> QED BY <1>1, VenuesInvIsKept, PTL DEF MCSpec, AnyVars, FailureIsEarned

\* KeepPromiseOrOvercount: either adapter keeps what the pair coordinator relies on,
\* but where IBKR lists an order the shares of an earlier one of the same id.
THEOREM AdaptersKeepPromise == MCSpec => KeepPromiseOrOvercount
<1>1. MCInit => Contract!Init
  BY InitPromise DEF MCInit
<1>2. ASSUME VenuesInv, [MCNext]_AnyVars PROVE [Contract!Next \/ Overcounts]_(Contract!vars)
  <2> SUFFICES Contract!Next \/ Overcounts \/ UNCHANGED PromiseVars
    BY DEF PromiseVars, Contract!vars, venue, Contract!venue
  <2>1. CASE FubonStep
    <3>1. Inv /\ Next
      BY <1>2, <2>1 DEF VenuesInv, FubonStep
    <3>2. [Contract!Next]_(Contract!vars)
      BY <3>1, PromiseStep
    <3> QED BY <3>2 DEF PromiseVars, Contract!vars, venue, Contract!venue
  <2>2. CASE IbkrStep
    BY <1>2, <2>2, IbkrPromiseStep DEF VenuesInv, IbkrStep
  <2>3. CASE UNCHANGED AnyVars
    BY <2>3 DEF AnyVars, vars, PromiseVars
  <2> QED BY <1>2, <2>1, <2>2, <2>3 DEF MCNext
<1> QED BY <1>1, <1>2, VenuesInvIsKept, PTL DEF MCSpec, AnyVars, KeepPromiseOrOvercount
=============================================================================
