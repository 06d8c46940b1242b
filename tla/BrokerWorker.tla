---------------------------- MODULE BrokerWorker ----------------------------
(***************************************************************************)
(* A broker SDK in a worker process behind a duplex pipe, and the facade   *)
(* that calls it under a lock.  Requests and replies carry no identifier:  *)
(* what matches them is their order in the pipe.                           *)
(*                                                                         *)
(* Two facades.  "guarded" (FubonFutureExecutionProcess,                   *)
(* FubonReadOnlyBrokerProcess, IbkrClientProcess on SubprocessTransport)   *)
(* scraps the worker on any failure.  "market" (FubonCcfMarketDataProcess) *)
(* connects first and scraps it after Patience timeouts in a row.          *)
(***************************************************************************)
EXTENDS Naturals, Sequences

CONSTANTS
    Ids,            \* names for the requests in flight
    Patience,       \* max_consecutive_timeouts
    MaxBehind,      \* bound: replies a worker that still answers may owe
    None

ASSUME PatienceAssumption == Patience \in Nat \ {0}
ASSUME IdAssumption       == None \notin Ids /\ MaxBehind \in Nat

VARIABLES
    facade,     \* "guarded" or "market"
    worker,     \* "none", "alive", "wedged" (takes requests, answers none), "dead"
    requests,   \* sent and not taken by the worker
    serving,    \* the request the worker is on
    replies,    \* in the pipe
    connected,  \* _connected, the market facade's
    timeouts,   \* _consecutive_timeouts
    pc,         \* the facade: "idle", "ready" (worker looked at), "polling"
    op,         \* what is being requested: "connect", "call", "reconnect", "close"
    todo,       \* what the caller asked for: "call" or "reconnect"
    attempt,    \* of _connect_with_one_rebuild
    asked,      \* the request sent last
    got,        \* the request whose reply the facade took for it
    closed      \* _closed

child   == <<worker, requests, serving, replies>>
request == <<asked, got>>
vars == <<facade, child, connected, timeouts, pc, op, todo, attempt, request, closed>>

InFlight == {requests[i] : i \in DOMAIN requests} \cup {replies[i] : i \in DOMAIN replies}
              \cup {serving}
Alive    == worker \in {"alive", "wedged"}

Init ==
    /\ facade \in {"guarded", "market"}
    /\ worker = "none" /\ requests = <<>> /\ serving = None /\ replies = <<>>
    /\ connected = FALSE /\ timeouts = 0
    /\ pc = "idle" /\ op = "call" /\ todo = "call" /\ attempt = 1
    /\ asked = None /\ got = None
    /\ closed = FALSE

-----------------------------------------------------------------------------
(* The worker process *)

Take ==
    /\ worker = "alive" /\ serving = None /\ requests # <<>>
    /\ serving' = Head(requests) /\ requests' = Tail(requests)
    /\ UNCHANGED <<facade, worker, replies, connected, timeouts, pc, op, todo,
                   attempt, request, closed>>

\* An exception in the SDK is a reply too.
Answer ==
    /\ worker = "alive" /\ serving # None
    /\ replies' = Append(replies, serving) /\ serving' = None
    /\ UNCHANGED <<facade, worker, requests, connected, timeouts, pc, op, todo,
                   attempt, request, closed>>

\* An SDK thread hangs for good.
Wedge ==
    /\ worker = "alive" /\ worker' = "wedged"
    /\ UNCHANGED <<facade, requests, serving, replies, connected, timeouts, pc,
                   op, todo, attempt, request, closed>>

\* The process dies; what it wrote can still be read.
Die ==
    /\ Alive
    /\ worker' = "dead" /\ requests' = <<>> /\ serving' = None
    /\ UNCHANGED <<facade, replies, connected, timeouts, pc, op, todo, attempt,
                   request, closed>>

-----------------------------------------------------------------------------
(* The facade *)

\* terminate: the process is killed and its pipe closed.
Scrapped ==
    /\ worker' = "none" /\ requests' = <<>> /\ serving' = None /\ replies' = <<>>
    /\ connected' = FALSE

\* _start_worker: a process that is not alive is replaced, pipe and all.
Started ==
    IF Alive THEN UNCHANGED <<child, connected>>
    ELSE /\ worker' = "alive" /\ requests' = <<>> /\ serving' = None /\ replies' = <<>>
         /\ connected' = FALSE

\* A caller takes the lock.  The market facade connects a worker that is not.
Call ==
    /\ pc = "idle" /\ ~closed
    /\ todo' \in IF facade = "market" THEN {"call", "reconnect"} ELSE {"call"}
    /\ op' = IF facade = "market" /\ ~(connected /\ Alive) THEN "connect" ELSE todo'
    /\ attempt' = 1
    /\ Started
    /\ pc' = "ready" /\ asked' = None /\ got' = None
    /\ UNCHANGED <<facade, timeouts, closed>>

Send ==
    /\ pc = "ready" /\ Alive
    /\ \E id \in Ids \ InFlight :
         /\ requests' = Append(requests, id)
         /\ asked' = id
    /\ got' = None
    /\ pc' = "polling"
    /\ UNCHANGED <<facade, worker, serving, replies, connected, timeouts, op,
                   todo, attempt, closed>>

Raise == pc' = "idle" /\ UNCHANGED <<op, attempt>>

\* A failure that is not a timeout.  A guarded facade scraps the worker; the
\* market facade only does so while it connects.
Fail ==
    /\ IF facade = "guarded" \/ op \in {"connect", "close"}
       THEN Scrapped ELSE UNCHANGED <<child, connected>>
    /\ Raise
    /\ UNCHANGED <<facade, timeouts, todo, request, closed>>

\* The worker is gone before the request or while its reply is awaited.
PipeBreaks ==
    /\ worker = "dead"
    /\ \/ pc = "ready"
       \/ pc = "polling" /\ replies = <<>>
    /\ Fail

\* recv(): the next reply in the pipe, and it is a result.
Receive ==
    /\ pc = "polling" /\ replies # <<>>
    /\ got' = Head(replies)
    /\ IF op = "close" THEN Scrapped
       ELSE /\ replies' = Tail(replies)
            /\ connected' = (connected \/ op \in {"connect", "reconnect"})
            /\ UNCHANGED <<worker, requests, serving>>
    /\ IF op = "connect" /\ todo # "connect"
       THEN /\ op' = todo /\ pc' = "ready"
            /\ UNCHANGED timeouts
       ELSE /\ pc' = "idle"
            /\ timeouts' = IF op = "call" THEN 0 ELSE timeouts
            /\ UNCHANGED op
    /\ UNCHANGED <<facade, todo, attempt, asked, closed>>

\* recv(): the next reply, and it is an error.
ReceiveError ==
    /\ pc = "polling" /\ replies # <<>>
    /\ got' = Head(replies)
    /\ IF facade = "guarded" \/ op \in {"connect", "close"}
       THEN Scrapped
       ELSE /\ replies' = Tail(replies)
            /\ UNCHANGED <<worker, requests, serving, connected>>
    /\ Raise
    /\ UNCHANGED <<facade, timeouts, todo, asked, closed>>

\* poll() found nothing in time.
TimesOut == /\ pc = "polling" /\ replies = <<>> /\ Alive
            /\ worker = "wedged" \/ Len(requests) <= MaxBehind

\* Mutant: the worker that was slow is kept.
DeadlinePassesKeeps ==
    /\ TimesOut
    /\ facade = "guarded" \/ op = "close"
    /\ Raise
    /\ UNCHANGED <<facade, child, connected, timeouts, todo, request, closed>>

\* A guarded facade, or one that is closing, scraps the worker at once.
DeadlinePasses ==
    /\ TimesOut
    /\ facade = "guarded" \/ op = "close"
    /\ Scrapped /\ Raise
    /\ UNCHANGED <<facade, timeouts, todo, request, closed>>

\* Mutant: the count starts over with every call.
LateForgotten(n) == 1

\* _consecutive_timeouts after another timeout.
Late(n) == n + 1

\* _call: a worker is given Patience timeouts in a row.
MarketCallTimeout ==
    /\ TimesOut /\ facade = "market" /\ op = "call"
    /\ IF Late(timeouts) >= Patience
       THEN timeouts' = 0 /\ Scrapped
       ELSE timeouts' = Late(timeouts) /\ UNCHANGED <<child, connected>>
    /\ Raise
    /\ UNCHANGED <<facade, todo, request, closed>>

\* Mutant: every replacement counts as the first attempt.
NextAttemptEndless == 1

NextAttempt == attempt + 1

\* Mutant: one attempt too many.
LastAttemptLate == attempt > 2

LastAttempt == attempt = 2

\* connect and reconnect: the worker is scrapped; one replacement is tried, and
\* a reconnect that timed out is over once the replacement is connected.
MarketConnectTimeout ==
    /\ TimesOut /\ facade = "market" /\ op \in {"connect", "reconnect"}
    /\ IF op = "connect" /\ LastAttempt
       THEN Scrapped /\ Raise /\ UNCHANGED <<todo, request>>
       ELSE /\ worker' = "alive" /\ requests' = <<>> /\ serving' = None
            /\ replies' = <<>> /\ connected' = FALSE
            /\ attempt' = IF op = "connect" THEN NextAttempt ELSE 1
            /\ todo' = IF op = "reconnect" THEN "connect" ELSE todo
            /\ op' = "connect" /\ pc' = "ready"
            /\ asked' = None /\ got' = None
    /\ UNCHANGED <<facade, timeouts, closed>>

\* close(): the market facade asks a live worker to stop, and it is terminated
\* either way.  A guarded one means to ask too, but _closed is already set and
\* its _require_open refuses the request.
Close ==
    /\ pc = "idle" /\ ~closed
    /\ closed' = TRUE
    /\ IF facade = "market" /\ Alive
                THEN /\ op' = "close" /\ pc' = "ready"
                     /\ asked' = None /\ got' = None
                     /\ UNCHANGED <<child, connected>>
                ELSE Scrapped /\ UNCHANGED <<op, pc, request>>
    /\ UNCHANGED <<facade, timeouts, todo, attempt>>

\* retarget_symbol, restart_worker: the worker is scrapped between two calls.
Restart ==
    /\ facade = "guarded" /\ pc = "idle" /\ ~closed
    /\ Scrapped
    /\ UNCHANGED <<facade, timeouts, pc, op, todo, attempt, request, closed>>

Child  == Take \/ Answer \/ Wedge \/ Die
Facade == Send \/ PipeBreaks \/ Receive \/ ReceiveError \/ DeadlinePasses
          \/ MarketCallTimeout \/ MarketConnectTimeout
Next   == Child \/ Call \/ Facade \/ Close \/ Restart

Spec == Init /\ [][Next]_vars

\* Every poll() has a timeout, a worker that is not wedged answers, and the live
\* loop keeps asking for quotes.
FairSpec == Spec /\ WF_vars(Facade) /\ WF_vars(Call) /\ WF_vars(Take \/ Answer)

-----------------------------------------------------------------------------
(* Properties *)

TypeOK ==
    /\ facade \in {"guarded", "market"}
    /\ worker \in {"none", "alive", "wedged", "dead"}
    /\ requests \in Seq(Ids) /\ replies \in Seq(Ids)
    /\ serving \in Ids \cup {None}
    /\ connected \in BOOLEAN /\ timeouts \in Nat
    /\ pc \in {"idle", "ready", "polling"}
    /\ op \in {"connect", "call", "reconnect", "close"}
    /\ todo \in {"connect", "call", "reconnect"}
    /\ attempt \in 1..2
    /\ asked \in Ids \cup {None} /\ got \in Ids \cup {None}
    /\ closed \in BOOLEAN

OwnReply == got # None => got = asked

\* Behind a guarded facade a caller is only ever given the reply to its own
\* request, whatever died, hung or was slow before it: a position, an order
\* outcome or a snapshot is never an answer to an earlier question.
GuardedOwnReply == facade = "guarded" => OwnReply

\* The same of the market data facade.
MarketOwnReply == facade = "market" => OwnReply

\* A worker that no longer answers is replaced while calls keep coming, not asked
\* again for ever (_call, and the guarded timeouts).
WedgedIsScrapped == worker = "wedged" ~> worker # "wedged"

\* Every call comes back, a connect with its rebuild included.
EveryCallReturns == pc # "idle" ~> pc = "idle"

=============================================================================
