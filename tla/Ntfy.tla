-------------------------------- MODULE Ntfy --------------------------------
(***************************************************************************)
(* The notifications (ntfy.py): a publisher whose bounded queue may never  *)
(* delay the loop, the reporter that feeds it, and the subscriber that     *)
(* answers the command "status" from a topic it also publishes on.  An     *)
(* alert is a number, in the order of the calls; a status reply is 0.      *)
(***************************************************************************)
EXTENDS Integers, Sequences, SequencesExt

CONSTANTS QueueSize,   \* queue_size of the publisher
          SeenLimit,   \* SEEN_MESSAGE_ID_LIMIT
          Overlap,     \* messages the server may deliver again on a new stream
          MaxAlerts,   \* bound on the alerts of a behaviour
          MaxLog       \* bound on the messages of the status topic

ASSUME NtfyAssumption ==
    /\ QueueSize \in Nat \ {0}
    /\ SeenLimit \in Nat /\ Overlap \in Nat /\ Overlap <= SeenLimit
    /\ MaxAlerts \in Nat /\ MaxLog \in Nat \ {0}

VARIABLES
    run,      \* the reporter: up, closing, gone with the process
    market,   \* _is_trading_session
    items,    \* the queue, oldest first
    sending,  \* the message in flight, a set of at most one
    thread,   \* the publisher's thread runs
    alerts,   \* alerts the loop has published
    refused,  \* alerts publish() returned False for
    tried,    \* alerts handed to the transport
    log,      \* the messages of the status topic, external
    sub,      \* the subscriber's thread: boot, dialling, reading, stopped
    cursor,   \* _last_message_id, 0 for none
    seen,     \* _seen_message_ids
    next,     \* the last message the stream has delivered
    since,    \* the message the stream was opened after
    base,     \* the last message before the subscriber's first
    answers   \* replies to each message of the topic

pubVars  == <<items, sending, thread, alerts, refused, tried>>
subVars  == <<sub, cursor, seen, next, since, base, answers>>
ntfyVars == <<run, market, pubVars, log, subVars>>

Reply == 0
Alerts == 1..MaxAlerts
LogIds == 1..MaxLog

NtfyInit ==
    /\ run = "up" /\ market = "unknown"
    /\ items = <<>> /\ sending = {} /\ thread = TRUE
    /\ alerts = 0 /\ refused = {} /\ tried = {}
    /\ log \in {<<>>, <<"status">>, <<"other">>}
    /\ sub = "boot" /\ cursor = 0 /\ seen = <<>> /\ next = 0 /\ since = 0
    /\ base = Len(log) /\ answers = [i \in LogIds |-> 0]

-----------------------------------------------------------------------------
(* The publisher *)

\* ALERT_PRIORITY and STATUS_PRIORITY.
Priority(m) == IF m = Reply THEN 2 ELSE 4

\* Where the oldest message of the lowest, or of the highest, priority is.
OldestLowest(q) ==
    {i \in DOMAIN q : \A j \in DOMAIN q :
        Priority(q[i]) < Priority(q[j]) \/ (Priority(q[i]) = Priority(q[j]) /\ i <= j)}
OldestHighest(q) ==
    {i \in DOMAIN q : \A j \in DOMAIN q :
        Priority(q[i]) > Priority(q[j]) \/ (Priority(q[i]) = Priority(q[j]) /\ i <= j)}

\* Mutant: the oldest message of the lowest priority always goes.
ReplacedAlways(lowest, m) == TRUE

\* At its limit the queue gives up a message of lower priority, or a status
\* for a newer one; it never gives up an alert.
Replaced(lowest, m) ==
    Priority(m) > Priority(lowest) \/ (m = Reply /\ Priority(lowest) = Priority(Reply))

\* publish(): the queue it leaves, the same one when it refuses.
Queued(q, m) ==
    IF run # "up" THEN {q}
    ELSE IF Len(q) < QueueSize THEN {Append(q, m)}
    ELSE {IF Replaced(q[i], m) THEN Append(RemoveAt(q, i), m) ELSE q : i \in OldestLowest(q)}

\* An alert of the loop.
Publish ==
    /\ alerts' = alerts + 1
    /\ items' \in Queued(items, alerts + 1)
    /\ refused' = IF items' = items THEN refused \cup {alerts + 1} ELSE refused
    /\ UNCHANGED <<sending, thread, tried>>

\* notify_error, execution() and the pending-PnL notice of bar().
Alert ==
    /\ run = "up" /\ alerts < MaxAlerts
    /\ Publish
    /\ UNCHANGED <<run, market, log, subVars>>

\* trading_session(): told only after a time that was no session.
SessionStarts ==
    /\ run = "up" /\ market # "trading"
    /\ market' = "trading"
    /\ IF market = "idle" THEN alerts < MaxAlerts /\ Publish ELSE UNCHANGED pubVars
    /\ UNCHANGED <<run, log, subVars>>

\* live_non_trading()
SessionEnds ==
    /\ run = "up" /\ market # "idle"
    /\ market' = "idle"
    /\ UNCHANGED <<run, pubVars, log, subVars>>

\* _run: the next message is the oldest of the highest priority.
TakeNext ==
    /\ thread /\ run # "gone"
    /\ sending = {}
    /\ \E i \in OldestHighest(items) : sending' = {items[i]} /\ items' = RemoveAt(items, i)
    /\ tried' = tried \cup (sending' \ {Reply})
    /\ UNCHANGED <<run, market, thread, alerts, refused, log, subVars>>

\* The topic when the message has arrived: a reply is one of the topic it is an
\* answer to.
Delivered ==
    IF sending = {Reply} /\ Len(log) < MaxLog THEN Append(log, "other") ELSE log

\* The transport returns.
Sent ==
    /\ sending # {} /\ run # "gone"
    /\ sending' = {}
    /\ log' = Delivered
    /\ UNCHANGED <<run, market, items, thread, alerts, refused, tried, subVars>>

\* Mutant: the exception ends the thread.
SendFailsForGood ==
    /\ sending # {} /\ run # "gone"
    /\ sending' = {} /\ thread' = FALSE
    /\ UNCHANGED <<run, market, items, alerts, refused, tried, log, subVars>>

\* It raises: logged, and the thread goes on.  A time-out says nothing of the message.
SendFails ==
    /\ sending # {} /\ run # "gone"
    /\ sending' = {}
    /\ log' \in {log, Delivered}
    /\ UNCHANGED <<run, market, items, thread, alerts, refused, tried, subVars>>

\* finish(): the subscriber first, then the publisher.
Finish ==
    /\ run = "up"
    /\ run' = "closing" /\ sub' = "stopped"
    /\ UNCHANGED <<market, pubVars, log, cursor, seen, next, since, base, answers>>

WorkerEnds ==
    /\ run = "closing" /\ thread /\ items = <<>> /\ sending = {}
    /\ thread' = FALSE
    /\ UNCHANGED <<run, market, items, sending, alerts, refused, tried, log, subVars>>

\* close() waits two seconds; the thread is a daemon.
Exit ==
    /\ run = "closing"
    /\ run' = "gone"
    /\ UNCHANGED <<market, pubVars, log, subVars>>

-----------------------------------------------------------------------------
(* The subscriber *)

\* Somebody writes on the topic, external.
Write ==
    /\ run # "gone" /\ Len(log) < MaxLog
    /\ \E m \in {"status", "other"} : log' = Append(log, m)
    /\ UNCHANGED <<run, market, pubVars, subVars>>

\* Mutant: the limit is forgotten.
RememberAll(i) == Append(seen, i)

\* _remember_message_id
Remember(i) == LET s == Append(seen, i)
               IN  SubSeq(s, Len(s) - (IF Len(s) > SeenLimit THEN SeenLimit ELSE Len(s)) + 1, Len(s))

\* _bootstrap_cursor: the newest message is taken as read; or the poll fails.
Bootstrap ==
    /\ sub = "boot"
    /\ sub' = "dialling"
    /\ \/ /\ log # <<>>
          /\ cursor' = Len(log) /\ seen' = Remember(Len(log)) /\ base' = Len(log)
       \/ UNCHANGED <<cursor, seen, base>>
    /\ UNCHANGED <<run, market, pubVars, log, next, since, answers>>

\* Mutant: every stream starts now.
SinceNow == Len(log)

\* "since": the last message known, or now.
Since == IF cursor # 0 THEN cursor ELSE Len(log)

Dial ==
    /\ sub = "dialling"
    /\ sub' = "reading"
    /\ since' = Since /\ next' = Since
    /\ base' = IF cursor = 0 THEN Len(log) ELSE base
    /\ UNCHANGED <<run, market, pubVars, log, cursor, seen, answers>>

\* handle_event
IsNew(i) == i \notin ToSet(seen)

\* A line of the stream: the next message, or one it has delivered before.
Read ==
    /\ sub = "reading"
    /\ \E i \in {next + 1} \cup (next - Overlap + 1)..next :
        /\ since < i /\ i <= Len(log)
        /\ next' = IF i > next THEN i ELSE next
        /\ IF IsNew(i)
           THEN /\ seen' = Remember(i) /\ cursor' = i
                /\ IF log[i] = "status"
                   THEN /\ answers' = [answers EXCEPT ![i] = @ + 1]
                        /\ items' \in Queued(items, Reply)
                   ELSE UNCHANGED <<answers, items>>
           ELSE UNCHANGED <<seen, cursor, answers, items>>
    /\ UNCHANGED <<run, market, sending, thread, alerts, refused, tried, log, sub, since, base>>

StreamBreaks ==
    /\ sub = "reading"
    /\ sub' = "dialling"
    /\ UNCHANGED <<run, market, pubVars, log, cursor, seen, next, since, base, answers>>

-----------------------------------------------------------------------------

NtfyNext ==
    \/ Alert \/ SessionStarts \/ SessionEnds
    \/ TakeNext \/ Sent \/ SendFails
    \/ Finish \/ WorkerEnds \/ Exit
    \/ Write \/ Bootstrap \/ Dial \/ Read \/ StreamBreaks

\* The publisher's thread is scheduled and its transport has a timeout.
NtfyFairness == WF_ntfyVars(TakeNext) /\ WF_ntfyVars(Sent \/ SendFails)

NtfySpec == NtfyInit /\ [][NtfyNext]_ntfyVars /\ NtfyFairness

-----------------------------------------------------------------------------

NtfyTypeOK ==
    /\ run \in {"up", "closing", "gone"} /\ market \in {"unknown", "trading", "idle"}
    /\ items \in BoundedSeq(Alerts \cup {Reply}, QueueSize)
    /\ sending \subseteq Alerts \cup {Reply} /\ thread \in BOOLEAN
    /\ alerts \in 0..MaxAlerts /\ refused \subseteq Alerts /\ tried \subseteq Alerts
    /\ log \in BoundedSeq({"status", "other"}, MaxLog)
    /\ sub \in {"boot", "dialling", "reading", "stopped"}
    /\ cursor \in 0..Len(log) /\ {next, since, base} \subseteq 0..Len(log)
    /\ seen \in BoundedSeq(LogIds, SeenLimit) /\ answers \in [LogIds -> Nat]

\* An alert the publisher took is never given up for another message, and none
\* overtakes it: they leave in the order of the calls, whatever replies the
\* subscriber's thread queues meanwhile (publish, _run).
AlertsGoOutInOrder ==
    \A a \in tried, b \in 1..alerts : b < a => b \in tried \cup refused

\* An alert the publisher took is handed to the transport, also after others
\* failed, unless the process ends first (_run's except and finally).
AlertsGoOut == \A a \in Alerts : a <= alerts /\ a \notin refused ~> a \in tried \/ run = "gone"

\* A command is answered once, when it is read: no reconnect skips one or
\* answers one again, and none from before the start is answered
\* (_bootstrap_cursor, handle_event, the cursor of _run).
CommandsAnsweredOnce ==
    \A i \in DOMAIN log :
        answers[i] = IF log[i] = "status" /\ base < i /\ i <= cursor THEN 1 ELSE 0
=============================================================================
