------------------------- MODULE BrokerWorkerProofs -------------------------
(***************************************************************************)
(* What BrokerWorker promises for every set of request names and every     *)
(* patience: its types, and that a guarded facade never hands a caller the *)
(* reply to another request.                                               *)
(***************************************************************************)
EXTENDS BrokerWorker, TLAPS

\* Nothing is in the pipe.
Quiet == requests = <<>> /\ serving = None /\ replies = <<>>

\* The request asked last is the one thing on its way, or it died with the worker.
OneOnItsWay ==
    \/ Quiet
    \/ requests = <<asked>> /\ serving = None /\ replies = <<>>
    \/ requests = <<>> /\ serving = asked /\ replies = <<>>
    \/ requests = <<>> /\ serving = None /\ replies = <<asked>>

\* Behind a guarded facade there is never more than one request about, and
\* between two calls there is none: order is enough to match replies.
PipeInv ==
    facade = "guarded" =>
        /\ pc # "polling" => Quiet
        /\ pc = "polling" => OneOnItsWay
        /\ OwnReply

Inv == TypeOK /\ PipeInv

-----------------------------------------------------------------------------

LEMMA NoneSent == <<>> \in Seq(Ids)
  OBVIOUS

LEMMA InitInv == Init => Inv
<1> SUFFICES ASSUME Init PROVE Inv
  OBVIOUS
<1>1. TypeOK
  <2>1. requests \in Seq(Ids) /\ replies \in Seq(Ids)
    BY NoneSent DEF Init
  <2>2. /\ facade \in {"guarded", "market"} /\ worker \in {"none", "alive", "wedged", "dead"}
        /\ serving \in Ids \cup {None} /\ asked \in Ids \cup {None}
        /\ got \in Ids \cup {None}
    BY DEF Init
  <2>3. /\ timeouts \in Nat /\ attempt \in 1..2
    BY DEF Init
  <2>4. connected \in BOOLEAN /\ closed \in BOOLEAN
    BY DEF Init
  <2> QED BY <2>1, <2>2, <2>3, <2>4 DEF Init, TypeOK
<1>2. PipeInv
  BY DEF Init, PipeInv, Quiet, OneOnItsWay, OwnReply
<1> QED BY <1>1, <1>2 DEF Inv

\* What every step of the worker process leaves to the facade.
LEMMA ChildTypes == ASSUME TypeOK, Child PROVE TypeOK'
<1>1. CASE Take
  BY <1>1 DEF Take, TypeOK, child, request
<1>2. CASE Answer
  BY <1>2 DEF Answer, TypeOK, child, request
<1>3. CASE Wedge
  BY <1>3 DEF Wedge, TypeOK, child, request
<1>4. CASE Die
  BY <1>4, NoneSent DEF Die, TypeOK, child, request
<1> QED BY <1>1, <1>2, <1>3, <1>4 DEF Child

LEMMA FacadeTypes == ASSUME TypeOK, Facade PROVE TypeOK'
<1>1. CASE Send
  BY <1>1 DEF Send, TypeOK, child, request
<1>2. CASE PipeBreaks
  BY <1>2, NoneSent DEF PipeBreaks, Fail, Raise, Scrapped, TypeOK, child, request
<1>3. CASE Receive
  <2>1. Head(replies) \in Ids /\ Tail(replies) \in Seq(Ids)
    BY <1>3 DEF Receive, TypeOK
  <2>2. CASE op = "close"
    <3>1. requests' \in Seq(Ids) /\ replies' \in Seq(Ids)
      BY <1>3, <2>2, NoneSent DEF Receive, Scrapped
    <3>2. worker' = "none" /\ serving' = None /\ connected' = FALSE
      BY <1>3, <2>2 DEF Receive, Scrapped
    <3>3. got' \in Ids \cup {None} /\ pc' = "idle" /\ op' = op
      BY <1>3, <2>1, <2>2 DEF Receive
    <3>4. timeouts' \in Nat
      BY <1>3, <2>2 DEF Receive, TypeOK
    <3> QED BY <1>3, <3>1, <3>2, <3>3, <3>4 DEF Receive, TypeOK
  <2>3. CASE op # "close"
    <3>1. connected' \in BOOLEAN
      BY <1>3, <2>3 DEF Receive
    <3>2. requests' \in Seq(Ids) /\ replies' \in Seq(Ids)
      BY <1>3, <2>1, <2>3 DEF Receive, TypeOK
    <3> QED BY <1>3, <2>1, <2>3, <3>1, <3>2 DEF Receive, TypeOK
  <2> QED BY <2>2, <2>3
<1>4. CASE ReceiveError
  <2>1. Head(replies) \in Ids /\ Tail(replies) \in Seq(Ids)
    BY <1>4 DEF ReceiveError, TypeOK
  <2> QED BY <1>4, <2>1, NoneSent DEF ReceiveError, Raise, Scrapped, TypeOK, child, request
<1>5. CASE DeadlinePasses
  BY <1>5, NoneSent DEF DeadlinePasses, Raise, Scrapped, TypeOK, child, request
<1>6. CASE MarketCallTimeout
  <2>1. CASE Late(timeouts) >= Patience
    <3>1. requests' \in Seq(Ids) /\ replies' \in Seq(Ids)
      BY <1>6, <2>1, NoneSent DEF MarketCallTimeout, Scrapped
    <3>2. /\ worker' = "none" /\ serving' = None /\ connected' = FALSE
          /\ timeouts' = 0
      BY <1>6, <2>1 DEF MarketCallTimeout, Scrapped
    <3> QED BY <1>6, <3>1, <3>2 DEF MarketCallTimeout, Raise, TypeOK, request
  <2>2. CASE ~(Late(timeouts) >= Patience)
    BY <1>6, <2>2 DEF MarketCallTimeout, Late, Raise, TypeOK, child, request
  <2> QED BY <2>1, <2>2
<1>7. CASE MarketConnectTimeout
  <2>1. CASE op = "connect" /\ LastAttempt
    BY <1>7, <2>1, NoneSent DEF MarketConnectTimeout, Raise, Scrapped, TypeOK, child, request
  <2>2. CASE ~(op = "connect" /\ LastAttempt)
    <3>1. attempt' \in 1..2
      BY <1>7, <2>2 DEF MarketConnectTimeout, LastAttempt, NextAttempt, TypeOK
    <3>2. todo' \in {"connect", "call", "reconnect"}
      BY <1>7, <2>2 DEF MarketConnectTimeout, TypeOK
    <3> QED BY <1>7, <2>2, <3>1, <3>2, NoneSent
            DEF MarketConnectTimeout, TypeOK, child, request
  <2> QED BY <2>1, <2>2
<1> QED BY <1>1, <1>2, <1>3, <1>4, <1>5, <1>6, <1>7 DEF Facade

LEMMA CallerTypes == ASSUME TypeOK, Call \/ Close \/ Restart PROVE TypeOK'
<1>1. CASE Call
  <2>1. /\ worker' \in {"none", "alive", "wedged", "dead"}
        /\ requests' \in Seq(Ids) /\ replies' \in Seq(Ids)
        /\ serving' \in Ids \cup {None} /\ connected' \in BOOLEAN
    BY <1>1, NoneSent DEF Call, Started, TypeOK, child
  <2>2. todo' \in {"call", "reconnect"} /\ op' \in {"connect", "call", "reconnect"}
    BY <1>1 DEF Call
  <2> QED BY <1>1, <2>1, <2>2 DEF Call, TypeOK
<1>2. CASE Close
  BY <1>2, NoneSent DEF Close, Scrapped, TypeOK, child, request
<1>3. CASE Restart
  BY <1>3, NoneSent DEF Restart, Scrapped, TypeOK, child, request
<1> QED BY <1>1, <1>2, <1>3

LEMMA StepTypes == ASSUME TypeOK, [Next]_vars PROVE TypeOK'
<1>1. CASE UNCHANGED vars
  BY <1>1 DEF vars, child, request, TypeOK
<1> QED BY <1>1, ChildTypes, FacadeTypes, CallerTypes DEF Next

-----------------------------------------------------------------------------

LEMMA ChildPipe == ASSUME Inv, Child PROVE PipeInv'
<1> SUFFICES ASSUME facade' = "guarded"
             PROVE  /\ pc' # "polling" => Quiet'
                    /\ pc' = "polling" => OneOnItsWay'
                    /\ OwnReply'
  BY DEF PipeInv
<1> USE DEF Inv, PipeInv, child, request
<1>1. CASE Take
  <2>1. requests = <<asked>> /\ serving = None /\ replies = <<>> /\ pc = "polling"
    BY <1>1 DEF Take, Quiet, OneOnItsWay
  <2>2. Head(<<asked>>) = asked /\ Tail(<<asked>>) = <<>>
    OBVIOUS
  <2> QED BY <1>1, <2>1, <2>2 DEF Take, Quiet, OneOnItsWay, OwnReply
<1>2. CASE Answer
  <2>1. requests = <<>> /\ serving = asked /\ replies = <<>> /\ pc = "polling"
    BY <1>2 DEF Answer, Quiet, OneOnItsWay
  <2>2. Append(<<>>, asked) = <<asked>>
    OBVIOUS
  <2> QED BY <1>2, <2>1, <2>2 DEF Answer, Quiet, OneOnItsWay, OwnReply
<1>3. CASE Wedge
  BY <1>3 DEF Wedge, Quiet, OneOnItsWay, OwnReply
<1>4. CASE Die
  BY <1>4 DEF Die, Quiet, OneOnItsWay, OwnReply
<1> QED BY <1>1, <1>2, <1>3, <1>4 DEF Child

LEMMA FacadePipe == ASSUME Inv, Facade PROVE PipeInv'
<1> SUFFICES ASSUME facade' = "guarded"
             PROVE  /\ pc' # "polling" => Quiet'
                    /\ pc' = "polling" => OneOnItsWay'
                    /\ OwnReply'
  BY DEF PipeInv
<1> USE DEF Inv, PipeInv, child, request
<1>1. CASE Send
  <2>1. Quiet
    BY <1>1 DEF Send
  <2>2. Append(<<>>, asked') = <<asked'>>
    OBVIOUS
  <2> QED BY <1>1, <2>1, <2>2 DEF Send, Quiet, OneOnItsWay, OwnReply
<1>2. CASE PipeBreaks
  BY <1>2 DEF PipeBreaks, Fail, Raise, Scrapped, Quiet, OwnReply
<1>3. CASE Receive
  <2>1. requests = <<>> /\ serving = None /\ replies = <<asked>>
    BY <1>3 DEF Receive, Quiet, OneOnItsWay
  <2>2. Head(<<asked>>) = asked /\ Tail(<<asked>>) = <<>>
    OBVIOUS
  <2> QED BY <1>3, <2>1, <2>2 DEF Receive, Scrapped, Quiet, OwnReply
<1>4. CASE ReceiveError
  <2>1. replies = <<asked>>
    BY <1>4 DEF ReceiveError, Quiet, OneOnItsWay
  <2>2. Head(<<asked>>) = asked
    OBVIOUS
  <2> QED BY <1>4, <2>1, <2>2 DEF ReceiveError, Raise, Scrapped, Quiet, OwnReply
<1>5. CASE DeadlinePasses
  BY <1>5 DEF DeadlinePasses, Raise, Scrapped, Quiet, OwnReply
<1>6. CASE MarketCallTimeout
  BY <1>6 DEF MarketCallTimeout
<1>7. CASE MarketConnectTimeout
  BY <1>7 DEF MarketConnectTimeout
<1> QED BY <1>1, <1>2, <1>3, <1>4, <1>5, <1>6, <1>7 DEF Facade

LEMMA CallerPipe == ASSUME Inv, Call \/ Close \/ Restart PROVE PipeInv'
<1> SUFFICES ASSUME facade' = "guarded"
             PROVE  /\ pc' # "polling" => Quiet'
                    /\ pc' = "polling" => OneOnItsWay'
                    /\ OwnReply'
  BY DEF PipeInv
<1> USE DEF Inv, PipeInv, child, request
<1>1. CASE Call
  BY <1>1 DEF Call, Started, Quiet, OwnReply
<1>2. CASE Close
  BY <1>2 DEF Close, Scrapped, Quiet, OwnReply
<1>3. CASE Restart
  BY <1>3 DEF Restart, Scrapped, Quiet, OwnReply
<1> QED BY <1>1, <1>2, <1>3

LEMMA StepInv == ASSUME Inv, [Next]_vars PROVE Inv'
<1>1. TypeOK'
  BY StepTypes DEF Inv
<1>2. PipeInv'
  <2>1. CASE UNCHANGED vars
    BY <2>1 DEF Inv, vars, child, request, PipeInv, Quiet, OneOnItsWay, OwnReply
  <2> QED BY <2>1, ChildPipe, FacadePipe, CallerPipe DEF Next
<1> QED BY <1>1, <1>2 DEF Inv

LEMMA Invariant == Spec => []Inv
  BY InitInv, StepInv, PTL DEF Spec

\* Every variable keeps its type, however many requests and timeouts there are.
THEOREM TypeCorrect == Spec => []TypeOK
<1>1. Inv => TypeOK
  BY DEF Inv
<1> QED BY Invariant, <1>1, PTL

\* A caller behind a guarded facade is only ever given the reply to its own
\* request: _request_guarded, _query and execute scrap the worker, and with it
\* the pipe, on every failure.
THEOREM RepliesMatch == Spec => []GuardedOwnReply
<1>1. Inv => GuardedOwnReply
  BY DEF Inv, PipeInv, GuardedOwnReply
<1> QED BY Invariant, <1>1, PTL

=============================================================================
