----------------------------- MODULE FubonOrder -----------------------------
(***************************************************************************)
(* FubonFutureExecutionAdapter.execute (integrations/fubon/execution.py)   *)
(* and the fill-report listener its orders wait on (fill_listener.py).     *)
(* The SDK's thread delivers fills and order reports at any time, in any   *)
(* order, more than once or never; the adapter also polls the order        *)
(* history and in the end asks the account.                                *)
(*                                                                         *)
(* A fill is one lot: <<o, i>> is the i-th lot of order o, and stands      *)
(* for its filled_no.                                                      *)
(***************************************************************************)
EXTENDS Venue, Sequences, FiniteSets

CONSTANTS
    BufferSize,     \* UNMATCHED_FILL_BUFFER_SIZE
    Attempts        \* polls of the order history

ASSUME FubonAssumption == BufferSize \in Nat \ {0} /\ Attempts \in Nat \ {0}

VARIABLES
    pc,         \* where execute() is
    cur,        \* the order being worked on, 0 before the first
    base,       \* position_before
    listener,   \* "none", "active", or "idle" when the SDK has no fill hook
    unmatched,  \* fills and reports nobody was waiting for
    waiter,     \* FillWaiter; keyed once place_order has named the order
    keyed,      \* place_order returned an identifier
    attempt,    \* polls made
    row,        \* status of the row the wait ended on
    counted,    \* callback_filled_lot when it ended
    told,       \* the outcome, once there is one
    heard, dropped  \* fills of cur delivered so far, and pushed out of the buffer

seenSoFar == <<heard, dropped>>
wait == <<waiter, keyed, attempt, row, counted, seenSoFar>>
sdk  == <<listener, unmatched>>
vars == <<venue, pc, cur, base, sdk, wait, told>>

NoReport == [status |-> "none", fills |-> 0]
NoWaiter == [on |-> FALSE, keyed |-> FALSE, lots |-> 0, seen |-> {}, status |-> "none"]

Empty == [fills |-> <<>>, report |-> "none"]

Init ==
    /\ VenueInit
    /\ pc = "idle" /\ cur = 0 /\ base = view
    /\ listener = "none" /\ unmatched = Empty /\ heard = {} /\ dropped = {}
    /\ waiter = NoWaiter /\ keyed = FALSE
    /\ attempt = 0 /\ row = "none" /\ counted = 0
    /\ told = NoReport

-----------------------------------------------------------------------------
(* The listener *)

Fills   == {f \in Orders \X (1..Qty) : f[2] <= exec[f[1]]}
\* What the venue may report of cur; reports of earlier orders match nobody.
Reports == {s \in {"working", "cancelled"} : cur # 0 /\ placed[cur]
              /\ (s = "cancelled" => ~live[cur] /\ exec[cur] < Qty)}

\* Mutant: a re-delivered fill is counted again.
AbsorbTwice(w, f) == [w EXCEPT !.lots = @ + 1, !.seen = @ \cup {f}]

\* absorb_fill_locked
Absorb(w, f) ==
    IF f \in w.seen THEN w ELSE [w EXCEPT !.lots = @ + 1, !.seen = @ \cup {f}]

\* apply_order_report_locked: the latest report wins.
Apply(w, status) == [w EXCEPT !.status = status]

Awaited(o) == waiter.on /\ waiter.keyed /\ o = cur

\* A deque with a maximal length forgets from its left.
Push(buffer, msg) ==
    IF Len(buffer) < BufferSize THEN Append(buffer, msg)
    ELSE Append(Tail(buffer), msg)

Ours(msg) == msg[1] = cur

\* _on_filled
OnFilled ==
    /\ listener # "none"
    /\ \E f \in Fills :
         /\ heard' = IF pc # "idle" /\ Ours(f) THEN heard \cup {f} ELSE heard
         /\ IF Awaited(f[1])
            THEN waiter' = Absorb(waiter, f) /\ UNCHANGED <<unmatched, dropped>>
            ELSE /\ unmatched' = [unmatched EXCEPT !.fills = Push(@, f)]
                 /\ dropped' = IF Len(unmatched.fills) = BufferSize /\ pc # "idle"
                                    /\ Ours(Head(unmatched.fills))
                               THEN dropped \cup {Head(unmatched.fills)} ELSE dropped
                 /\ UNCHANGED waiter
    /\ UNCHANGED <<venue, pc, cur, base, listener, keyed, attempt, row, counted, told>>

\* _on_order, _on_order_changed.  Of the buffered reports the last one matters,
\* and it too may be pushed out.
OnOrderReport ==
    /\ listener # "none" /\ pc # "idle"
    /\ \E status \in Reports :
         IF Awaited(cur)
         THEN waiter' = Apply(waiter, status) /\ UNCHANGED unmatched
         ELSE /\ unmatched' \in {[unmatched EXCEPT !.report = s] : s \in {status, "none"}}
              /\ UNCHANGED waiter
    /\ UNCHANGED <<venue, pc, cur, base, listener, keyed, attempt, row, counted,
                   seenSoFar, told>>

\* Mutant: the fills that came before place_order returned stay in the buffer.
ReclaimNothing == waiter' = [waiter EXCEPT !.keyed = TRUE] /\ UNCHANGED unmatched

\* set_keys and _reclaim_buffered_fills_locked: the buffered fills of the order,
\* each counted once, and the last of its reports.  The others stay, in order.
Reclaim ==
    LET mine   == {i \in DOMAIN unmatched.fills : Ours(unmatched.fills[i])}
        fills  == {unmatched.fills[i] : i \in mine}
        others == DOMAIN unmatched.fills \ mine
    IN  /\ waiter' = [waiter EXCEPT !.keyed = TRUE, !.seen = fills,
                        !.lots = Cardinality(fills),
                        !.status = unmatched.report]
        /\ \E kept \in [1..Cardinality(others) -> others] :
             /\ \A i, j \in DOMAIN kept : i < j => kept[i] < kept[j]
             /\ unmatched' = [fills  |-> [i \in DOMAIN kept |-> unmatched.fills[kept[i]]],
                              report |-> "none"]

-----------------------------------------------------------------------------
(* execute() *)

\* The outcome, and the finally clause that closes the waiter.
Tell(status, fills) ==
    /\ told' = [status |-> status, fills |-> fills]
    /\ pc' = "idle"
    /\ waiter' = NoWaiter /\ keyed' = FALSE
    /\ attempt' = 0 /\ row' = "none" /\ counted' = 0
    /\ heard' = {} /\ dropped' = {}

\* _ensure_fill_listener: a session without one gets one.
Attached == listener' \in IF listener = "none" THEN {"active", "idle"} ELSE {listener}

\* _reset_session: an expired session goes, and its listener with it.
Kept    == unmatched' = [unmatched EXCEPT !.report = "none"] /\ Attached
Renewed == unmatched' = Empty /\ listener' \in {"active", "idle"}

\* A wrong leg, or an account that does not answer: nothing is sent.
NotSent ==
    /\ pc = "idle" /\ cur < MaxOrders
    /\ cur' = cur + 1
    /\ \/ Tell("rejected", 0) /\ UNCHANGED sdk
       \/ Tell("failed", 0) /\ (Kept \/ Renewed)
    /\ UNCHANGED <<venue, base>>

\* position_before is read, on a new session if need be, and the waiter armed
\* before the order goes out.
Begin ==
    /\ pc = "idle" /\ cur < MaxOrders
    /\ cur' = cur + 1
    /\ base' = view
    /\ Kept \/ Renewed
    /\ waiter' = [NoWaiter EXCEPT !.on = listener' = "active"]
    /\ pc' = "submit" /\ told' = NoReport
    /\ UNCHANGED <<venue, keyed, attempt, row, counted, seenSoFar>>

Submit ==
    /\ pc = "submit" /\ pc' = "placing"
    /\ Reaches(cur)
    /\ UNCHANGED <<cur, base, sdk, wait, told>>

\* place_order came back with a row: with an identifier, or without one.
PlaceReturns ==
    /\ pc = "placing"
    /\ pc' = IF waiter.on THEN "grace" ELSE "poll"
    /\ keyed' \in BOOLEAN
    /\ IF keyed' /\ waiter.on THEN Reclaim ELSE UNCHANGED <<waiter, unmatched>>
    /\ UNCHANGED <<venue, cur, base, listener, attempt, row, counted, seenSoFar,
                   told>>

\* place_order raised, or its result was an error.
PlaceFails ==
    /\ pc = "placing"
    /\ \E status \in {"unknown", "failed"} : Tell(status, 0)
    /\ UNCHANGED <<venue, cur, base, sdk>>

WaitOver(status) ==
    /\ pc' = "account" /\ row' = status /\ counted' = waiter.lots

\* One wait for callbacks, ended by its timeout or by any notification.
GraceEnds ==
    /\ pc = "grace"
    /\ IF waiter.lots >= Qty THEN WaitOver("none")
       ELSE pc' = "poll" /\ UNCHANGED <<row, counted>>
    /\ UNCHANGED <<venue, cur, base, sdk, waiter, keyed, attempt, seenSoFar, told>>

\* The row _match_order_row picks: ours by its key; without a key one of the same
\* shape, or where none is listed (the history may be late) any of the contract.
Rows == IF keyed THEN {cur} ELSE {o \in Orders : placed[o]}

\* What the history says of an order: it may be late, or ask for a re-query.
RowStatus(o) ==
    {"working", "timeout"}
      \cup (IF exec[o] = Qty THEN {"filled"} ELSE {})
      \cup (IF ~live[o] /\ exec[o] < Qty THEN {"cancelled"} ELSE {})

\* Mutant: a re-query asked for by the broker starts the count over.
CountedAnew(status) == IF status = "timeout" THEN 0 ELSE attempt + 1

Counted(status) == attempt + 1

\* One turn of the loop of _await_order_completion.
Poll ==
    /\ pc = "poll"
    /\ \/ /\ waiter.lots >= Qty
          /\ WaitOver("none") /\ UNCHANGED attempt
       \/ /\ waiter.lots < Qty /\ waiter.status = "cancelled"
          /\ WaitOver("cancelled") /\ UNCHANGED attempt
       \/ /\ waiter.lots < Qty /\ waiter.status # "cancelled"
          /\ \E status \in {"none"} \cup UNION {RowStatus(o) : o \in Rows} :
               /\ attempt' = Counted(status)
               /\ IF status \in {"filled", "cancelled"} \/ attempt' = Attempts
                  THEN WaitOver(status)
                  ELSE /\ pc' = IF status = "timeout" THEN "poll" ELSE "pause"
                       /\ UNCHANGED <<row, counted>>
    /\ UNCHANGED <<venue, cur, base, sdk, waiter, keyed, seenSoFar, told>>

\* The interval between two polls, cut short by any notification.
PauseEnds ==
    /\ pc = "pause" /\ pc' = "poll"
    /\ UNCHANGED <<venue, cur, base, sdk, wait, told>>

Larger(m, n) == IF m < n THEN n ELSE m

\* Mutant: a position that moved the other way counts as well.
ConfirmedByDistance ==
    LET d == Moved(cur, base, view)
    IN  IF d < -Qty \/ d > Qty THEN Qty ELSE IF d < 0 THEN -d ELSE d

\* Mutant: all the account moved is credited to the order.
ConfirmedInFull == LET d == Moved(cur, base, view) IN IF d <= 0 THEN 0 ELSE d

\* fubon_position_delta_confirmation
Confirmed == LET d == Moved(cur, base, view)
             IN  IF d <= 0 THEN 0 ELSE IF d < Qty THEN d ELSE Qty

\* map_fubon_order_status
Status(fills) == IF fills >= Qty THEN "filled"
                 ELSE IF fills > 0 THEN "partial_fill"
                 ELSE IF row = "cancelled" THEN "failed" ELSE "unknown"

\* The account is asked when the callbacks do not cover the order, and may not
\* answer.
Conclude ==
    /\ pc = "account"
    /\ \E delta \in IF counted >= Qty THEN {0} ELSE {0, Confirmed} :
         LET fills == Larger(counted, delta)
         IN  Tell(Status(fills), fills)
    /\ UNCHANGED <<venue, cur, base, sdk>>

\* A worker process that died or was scrapped takes listener and session along.
WorkerGone ==
    /\ pc # "idle"
    /\ Tell("unknown", 0)
    /\ listener' = "none" /\ unmatched' = Empty
    /\ UNCHANGED <<venue, cur, base>>

Adapter == NotSent \/ Begin \/ Submit \/ PlaceReturns
           \/ PlaceFails \/ GraceEnds \/ Poll \/ PauseEnds \/ Conclude \/ WorkerGone
Callbacks == OnFilled \/ OnOrderReport
AtVenue   == VenueNext /\ UNCHANGED <<pc, cur, base, sdk, wait, told>>

Next == AtVenue \/ Callbacks \/ Adapter

Spec == Init /\ [][Next]_vars


-----------------------------------------------------------------------------
(* Properties *)

Told == [status : {"none", "filled", "partial_fill", "failed", "rejected", "unknown"},
         fills : 0..Qty]

TypeOK ==
    /\ VenueTypeOK
    /\ pc \in {"idle", "submit", "placing", "grace", "poll", "pause", "account"}
    /\ cur \in 0..MaxOrders /\ base \in Int
    /\ listener \in {"none", "active", "idle"}
    /\ unmatched.fills \in Seq(Orders \X (1..Qty))
    /\ unmatched.report \in {"none", "working", "cancelled"}
    /\ waiter.on \in BOOLEAN /\ waiter.keyed \in BOOLEAN /\ waiter.lots \in Nat
    /\ waiter.seen \subseteq Orders \X (1..Qty)
    /\ waiter.status \in {"none", "working", "cancelled"}
    /\ keyed \in BOOLEAN /\ attempt \in 0..Attempts /\ counted \in Nat
    /\ row \in {"none", "working", "timeout", "filled", "cancelled"}
    /\ told \in Told

\* However fills are repeated, reordered or buffered, and whichever earlier order
\* they belong to, an order counts no more lots than it executed.
CountsOwnFillsOnce == waiter.on => waiter.lots <= exec[cur]

\* A fill that came while place_order had not yet named the order is found again
\* when it has; only the bound of the buffer loses one.
EarlyFillsAreFound ==
    waiter.keyed => heard \subseteq waiter.seen \cup dropped

\* What an adapter reports is what the pair coordinator may rely on.
Contract == INSTANCE VenuePromise

KeepsVenuePromise == Contract!Spec

=============================================================================
