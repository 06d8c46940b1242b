----------------------------- MODULE Rollover -----------------------------
(***************************************************************************)
(* The live loop around the contract it trades: runtime/live/engine.py,    *)
(* contracts.py and bootstrap.py, with the feed and the bars it lives on.  *)
(* What a plan does at the brokers is LiveRuntime's; here a plan ends      *)
(* filled, undone or paused.  While the process is down the strategy       *)
(* variables are what the store holds.                                     *)
(***************************************************************************)
EXTENDS MinuteBars

CONSTANTS Watchdog,    \* CCF_WATCHDOG_SECONDS, in polls
          PollsAMinute,
          LiveExecute  \* live-execute, else live-dry-run

ASSUME LoopAssumption ==
  /\ Watchdog \in Nat /\ Stale < Watchdog /\ Watchdog < BookStale
  /\ PollsAMinute \in Nat \ {0}
  /\ LiveExecute \in BOOLEAN

VARIABLES
  front,      \* the contract the policy selects
  due,        \* the last contract whose force-exit deadline has passed
  session,    \* the pair's session is open
  phase,      \* poll of the minute
  up,         \* the process runs
  torn,       \* ccf_books_torn_down_for_non_trading
  ccf,        \* ccf_symbol of the loop
  last,       \* last_quotes["ccf"], a set of at most one quote
  builder,    \* the minute builder
  bar,        \* the bar being processed, a set of at most one
  seeded,     \* the contract the indicator was warmed up on
  order,      \* the contract the Fubon order session is bound to
  st,         \* StrategyState
  pos,        \* contract of the open position, NoPos when there is none
  trading,    \* trading_ccf_symbol
  eligible,   \* eligible_active_ccf_symbol
  pending     \* pending_symbol_switch

clockVars == <<front, due, session, phase>>
loopVars == <<torn, ccf, last, builder, bar, seeded, order>>
stateVars == <<st, pos, trading, eligible, pending>>
vars == <<feed, clockVars, up, loopVars, stateVars>>

NoPos == 0
First == 1

NoBuilder == Seeded(CHOOSE s \in WarmupSeeds[First] : TRUE)

RollInit ==
  /\ feed = FeedDown
  /\ front = First /\ due = First - 1
  /\ session = TRUE /\ phase = 0
  /\ up = FALSE
  /\ torn = FALSE /\ last = {} /\ bar = {} /\ builder = NoBuilder
  /\ ccf = First /\ seeded = First /\ order = First
  /\ st = "FLAT" /\ pos = NoPos
  /\ trading = First /\ eligible = First /\ pending = FALSE

---------------------------------------------------------------------------
(* The clock and the calendar *)

\* The policy moves to the next month; later the old one's deadline passes.
RollDay ==
  /\ front + 1 \in Contracts
  /\ front' = front + 1
  /\ UNCHANGED <<feed, due, session, phase, up, loopVars, stateVars>>

DeadlinePasses ==
  /\ due + 1 < front
  /\ due' = due + 1
  /\ UNCHANGED <<feed, front, session, phase, up, loopVars, stateVars>>

\* The session ends and starts again, hours later: the loop has idled between.
SessionTurns ==
  /\ bar = {}
  /\ ~session /\ up => torn
  /\ session' = ~session
  /\ UNCHANGED <<feed, front, due, phase, up, loopVars, stateVars>>

\* One poll interval.  The quotes a minute collected are as old at its close
\* as they are when it ends.  A minute that is over waits for its poll.
Tick ==
  /\ bar = {} /\ session /\ builder.minute # "past"
  /\ phase' = (phase + 1) % PollsAMinute
  /\ feed' = AgeBooks(feed)
  /\ last' = {[q EXCEPT !.age = Older(@)] : q \in last}
  /\ LET ends == phase' = 0
         begun == builder.minute = "this"
     IN builder' = [minute |-> IF ends /\ begun THEN "past" ELSE builder.minute,
                    quote |-> {[q EXCEPT !.age = Older(@)] : q \in builder.quote},
                    close |-> IF ends THEN MinuteLater(builder.close) ELSE builder.close]
  /\ UNCHANGED <<front, due, session, up, torn, ccf, bar, seeded, order, stateVars>>

\* A bar that is being processed reads no book, so what the socket does then
\* can as well happen after it.
FeedMoves ==
  /\ up /\ bar = {}
  /\ Stream
  /\ UNCHANGED <<clockVars, up, loopVars, stateVars>>

---------------------------------------------------------------------------
(* Startup and shutdown *)

\* prepare_live_runtime: the contract of the stored state, a subscription, a
\* new warmup; then the order session is bound to the same contract.
Start ==
  /\ ~up
  /\ up' = TRUE
  /\ eligible' = front
  /\ ccf' = trading /\ seeded' = trading /\ order' = trading
  /\ feed' \in EnsureBooks(FeedDown, trading)
  /\ \E s \in WarmupSeeds[trading] : builder' = Seeded(s)
  /\ torn' = FALSE /\ last' = {} /\ bar' = {}
  /\ UNCHANGED <<clockVars, st, pos, trading, pending>>

Down ==
  /\ up' = FALSE
  /\ feed' = FeedDown
  /\ torn' = FALSE /\ last' = {} /\ bar' = {} /\ builder' = NoBuilder
  /\ ccf' = First /\ seeded' = First /\ order' = First

Crash ==
  /\ up /\ bar = {}
  /\ Down
  /\ UNCHANGED <<clockVars, stateVars>>

\* A person settles what a pause left: the pair is there, or it is gone.
Settle ==
  /\ ~up /\ st = "PAUSED"
  /\ \/ pos # NoPos /\ st' = "OPEN" /\ UNCHANGED pos
     \/ st' = "FLAT" /\ pos' = NoPos
  /\ UNCHANGED <<feed, clockVars, up, loopVars, trading, eligible, pending>>

---------------------------------------------------------------------------
(* One iteration of the loop *)

\* Outside the session: the books go, once, and the minute is given up.
IdlePoll ==
  /\ up /\ ~session
  /\ feed' = IF torn THEN feed ELSE Teardown(feed)
  /\ torn' = TRUE
  /\ builder' = Seeded(TooOld(builder.close))
  /\ UNCHANGED <<clockVars, up, ccf, last, bar, seeded, order, stateVars>>

\* A UMC leg the broker took back, found by the check of a trading iteration.
DriftCheck ==
  /\ up /\ session /\ bar = {}
  /\ st = "OPEN"
  /\ \/ LiveExecute /\ st' = "FLAT" /\ pos' = NoPos
     \/ st' = "PAUSED" /\ UNCHANGED pos
  /\ UNCHANGED <<feed, clockVars, up, loopVars, trading, eligible, pending>>

\* Mutant: the cached quote and the new one are both kept.
OrCachedToo(fetched) == fetched \cup last

\* fetch_quote_or_cached: the quote, or the last one the loop was given.
OrCached(fetched) == IF fetched = {} THEN last ELSE fetched

\* The first trading iteration logs in again and restarts the books.
Entered == IF torn THEN RestartBooks(Teardown(feed), ccf) ELSE {feed}

\* ccf_book_is_fresh_for_signal
SignalBook(q) == FreshBook(q)

\* Mutant: the watchdog looks at books only.
AfterWatchdogOnBooks(f, q) ==
  IF q.book /\ q.age > Watchdog THEN RestartBooks(f, ccf) ELSE {f}

\* The watchdog: an old quote that is no book either restarts the books.
AfterWatchdog(f, q) ==
  IF ~SignalBook(q) /\ q.age > Watchdog THEN RestartBooks(f, ccf) ELSE {f}

\* One trading iteration; the quotes of the other legs have been there once.
Poll ==
  /\ up /\ session /\ bar = {}
  /\ torn' = FALSE
  /\ \E f \in Entered : \E r \in FetchQuote(f, ccf) :
       /\ last' = OrCached(r[2])
       /\ IF last' = {}
          THEN \* skip_iteration
               feed' = r[1] /\ UNCHANGED <<builder, bar>>
          ELSE \E q \in last', othersFresh, skewed \in BOOLEAN :
               /\ feed' \in AfterWatchdog(r[1], q)
               /\ IF builder.minute = "past"
                  THEN /\ builder' = [Collect(builder, q) EXCEPT
                                        !.close = AfterFinalize(builder, othersFresh, skewed)]
                       /\ bar' = IF Skips(builder, othersFresh, skewed) THEN {}
                                 ELSE {[close |-> Remembered(builder), quote |-> p] :
                                         p \in builder.quote}
                  ELSE builder' = Collect(builder, q) /\ UNCHANGED bar
  /\ UNCHANGED <<clockVars, up, ccf, seeded, order, stateVars>>

---------------------------------------------------------------------------
(* The bar: _process_finalized_bar *)

\* resolve_ccf_contract; a failure leaves the contract as it was.
Resolves == {{}, {front}}

\* The books of the old contract go, those of the new one come.
BooksFollow(c) == feed' \in UNION {EnsureBooks(g, c) : g \in Unsubscribe(feed, ccf)}

\* Mutant: the order session stays with the old contract.
OrdersStay(c) == order' = order

\* on_contract_switched: the order session is bound to the new contract.
OrdersFollow(c) == order' = c

\* switch_to_contract and its surroundings: the books, the strategy's
\* contract, the warmup, the builder and the order session move together.  The
\* warmup ends at the bar, a minute before the one that is now.
SwitchTo(c) ==
  /\ BooksFollow(c)
  /\ trading' = c /\ eligible' = c /\ pending' = FALSE
  /\ ccf' = c /\ seeded' = c
  /\ OrdersFollow(c)
  /\ \E s \in WarmupSeeds[c] : builder' = Seeded(MinuteLater(s))

NoSwitch == UNCHANGED <<feed, ccf, seeded, order, builder, trading>>

\* should_switch_contract_before_processing, for a flat strategy.
SwitchBefore ==
  /\ bar # {}
  /\ st = "FLAT" /\ trading # front
  /\ SwitchTo(front)
  /\ bar' = {}
  /\ UNCHANGED <<clockVars, up, torn, last, st, pos>>

\* mark_pending_contract_switch_if_needed
Marked(resolved) ==
  IF resolved = {} THEN pending
  ELSE IF trading \in resolved THEN FALSE
  ELSE pending \/ st = "OPEN"

NowEligible(resolved) == IF resolved = {} THEN eligible ELSE front

\* resolve_force_exit_reason: the position only, in any state; for the contract's
\* deadline, or for the last bar before a weekend.
ForceExit(weekendBar) == pos # NoPos /\ (trading <= due \/ weekendBar)

\* What the handler makes of the bar.  A forced exit comes first; otherwise a
\* flat strategy may enter and an open one may exit, where a book decides.
\* The order session refuses a contract it is not bound to.
Handled(b, weekendBar) ==
  IF ForceExit(weekendBar)
  THEN {<<"FLAT", NoPos>>, <<"PAUSED", pos>>, <<st, pos>>}
  ELSE {<<st, pos>>} \cup
       (IF ~Decidable(b) THEN {}
        ELSE IF st = "FLAT"
        THEN {<<"PAUSED", NoPos>>} \cup (IF order = ccf THEN {<<"OPEN", ccf>>} ELSE {})
        ELSE IF st = "OPEN"
        THEN {<<"PAUSED", pos>>} \cup (IF order = pos THEN {<<"FLAT", NoPos>>} ELSE {})
        ELSE {})

\* complete_contract_switch_after_flat
Completes(state, marked, nowEligible) ==
  LiveExecute /\ state = "FLAT" /\ marked

ProcessBar ==
  /\ bar # {}
  /\ \E resolved \in Resolves, b \in bar, weekendBar \in BOOLEAN :
       /\ ~(st = "FLAT" /\ resolved # {} /\ trading # front)
       /\ \E h \in Handled(b, weekendBar) :
            /\ st' = h[1] /\ pos' = h[2]
            /\ IF Completes(h[1], Marked(resolved), NowEligible(resolved))
               THEN SwitchTo(NowEligible(resolved))
               ELSE /\ NoSwitch
                    /\ pending' = Marked(resolved)
                    /\ eligible' = NowEligible(resolved)
  /\ bar' = {}
  /\ UNCHANGED <<clockVars, up, torn, last>>

\* The warmup of the new contract cannot be built: the loop ends.  Before the
\* bar nothing was saved; after a bar that went flat, that was.
SwitchFails ==
  /\ bar # {}
  /\ Down
  /\ \/ /\ st = "FLAT" /\ trading # front
        /\ UNCHANGED <<st, pos, eligible, pending>>
     \/ /\ st # "FLAT"
        /\ \E resolved \in Resolves, b \in bar, weekendBar \in BOOLEAN :
           \E h \in Handled(b, weekendBar) :
             /\ Completes(h[1], Marked(resolved), NowEligible(resolved))
             /\ st' = h[1] /\ pos' = h[2]
             /\ pending' = Marked(resolved)
             /\ eligible' = NowEligible(resolved)
  /\ UNCHANGED <<clockVars, trading>>

\* After a restart inside a minute it is built again; the store has it already.
DuplicateMinute ==
  /\ bar # {} /\ bar' = {}
  /\ UNCHANGED <<feed, clockVars, up, torn, ccf, last, builder, seeded, order, stateVars>>

---------------------------------------------------------------------------

RollNext ==
  \/ RollDay \/ DeadlinePasses \/ SessionTurns \/ Tick \/ FeedMoves
  \/ Start \/ Crash \/ Settle
  \/ IdlePoll \/ DriftCheck \/ Poll
  \/ SwitchBefore \/ ProcessBar \/ SwitchFails \/ DuplicateMinute

\* The loop polls and processes for as long as it runs, and time passes.  A
\* subscription tried again and again gets through in the end.
LoopFairness ==
  /\ WF_vars(Poll \/ IdlePoll) /\ WF_vars(Tick)
  /\ WF_vars(SwitchBefore \/ ProcessBar \/ SwitchFails \/ DuplicateMinute)
  /\ SF_vars(Poll /\ ~Wedged(ccf)')

RollSpec == RollInit /\ [][RollNext]_vars /\ LoopFairness

---------------------------------------------------------------------------

RollTypeOK ==
  /\ feed \in FeedStates
  /\ front \in Contracts /\ due \in Nat /\ due < front
  /\ session \in BOOLEAN /\ phase \in 0 .. PollsAMinute - 1
  /\ up \in BOOLEAN /\ torn \in BOOLEAN
  /\ {ccf, seeded, order, trading, eligible} \subseteq Contracts
  /\ last \subseteq Quotes /\ \A p, q \in last : p = q
  /\ builder \in Builders
  /\ bar \subseteq Bars /\ \A b, d \in bar : b = d
  /\ st \in {"FLAT", "OPEN", "PAUSED"}
  /\ pos \in Contracts \cup {NoPos}
  /\ pending \in BOOLEAN

\* While the loop runs, its symbol, the strategy's, the warmup's and the order
\* session's are one contract, the feed is subscribed to no other, and an open
\* position is in it: through switches before and after a bar, restarts and
\* warmups that fail.
OneContract ==
  /\ up => /\ ccf = trading /\ seeded = trading /\ order = trading
           /\ feed.subscribed \subseteq {trading}
  /\ pos # NoPos => pos = trading

\* The minutes a close may have been filled before its stamp.
HiddenFill(k) == IF k.live THEN 0 ELSE Unseen

\* A CCF price a quote once gave is carried into a bar for no longer than the
\* forward fill allows, through thin minutes, skips, idling and switches; one
\* of the warmup may have been filled there before its stamp.
BarPriceIsRecent ==
  \A b \in bar : b.close.was <= ForwardFill + HiddenFill(b.close)

\* minute_bar.py:71-73: "Seeded alongside it at startup so a warmup-seeded price
\* cannot be carried into live trading unchecked": the ceiling holds for it too.
SeedIsCheckedToo == \A b \in bar : b.close.was <= ForwardFill

\* The book a decision is taken from is the trading contract's.
DecidesOnItsOwnBook == \A b \in bar : Decidable(b) => b.quote.of = ccf

\* A stream the client only believes in is restarted, unless REST quotes hide
\* it from the watchdog or there was never a quote to be old.
Hidden == last = {} \/ \E q \in last : ~q.book /\ q.age <= Watchdog
WedgedFeedIsNoticed == Wedged(ccf) ~> (~Wedged(ccf) \/ Hidden)
=============================================================================
