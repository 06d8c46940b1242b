# Project-Lux in TLA+

Project-Lux trades one pair: CCF single-stock futures at Fubon (Taiwan) against
UMC shares at IBKR (US).  A minute loop turns three quote streams into bars, a
z-score strategy asks for a pair to be opened or closed, and a coordinator places
the two legs at two brokers that share no transaction.  What makes the program
correct is what happens *between* those two orders, between an order and its
confirmation, between the quotes and the bar, and between the store and the next
start.  The specifications here model that part of `src/lux_trader`, TLC checks
them on small instances and TLAPS proves nearly every safety property for every size.

## 1. Inventory

| Part (under `src/lux_trader/`) | State it keeps | Operations | What is hard |
|---|---|---|---|
| Two-leg coordinator: `execution/real_coordinator.py`, `position_guard.py`, `recorder.py` | one plan: baseline position, reports, events, the Fubon attempt row | validate, guard, place CCF, place UMC, reverse, conclude | partial fills, reports that are wrong or late, a recall between the guard and the order, a kill at any step |
| Fubon adapter: `integrations/fubon/execution.py`, `fill_listener.py` | fill buffer, one waiter, session | place, await callbacks, poll order rows, position delta | callbacks early, twice or never; re-queries; an account that lags |
| IBKR adapter and worker: `integrations/ibkr/execution.py`, `client_process.py` | connection, subscription, position cache | place and confirm, settle wait, execution refresh, reconnect | a cancellation that executes, caches of a dead session, ids that repeat |
| Worker processes: `subprocess_transport.py`, `fubon/*_process.py` | child process, pipe, timeouts in a row | start, request, recycle, reconnect, restart, close | a hung SDK, a late reply, a death between request and reply |
| Live runtime: `runtime/live/engine.py`, `modes.py`, `contracts.py`, `bootstrap.py` | strategy state, entry gate, exposure rows, last quotes, current contract | start, resume, iteration, bar, entry, exit, switch, interrupt | what was committed when the process goes; what moves together in a switch |
| Book feed: `integrations/fubon/market_data.py` | subscriptions, socket flag, cached books | subscribe, unsubscribe, restart, fetch | a socket that is gone while the client believes in it |
| Bars: `market_data/minute_bar.py`, `warmup.py`, `core/tradable_spread.py` | the minute being built, the carried CCF close | collect, finalize, seed | a price carried too long under a new stamp |
| Rate cache: `market_data/cached_quote.py` | one quote, its symbol, its time | fetch | stale answers restamped, another symbol's rate |
| Rollover and sessions: `core/contract_policy.py`, `calendar.py`, `us_calendar.py` | none | select, deadline, session, weekend exit | holidays of two exchanges, sessions over midnight |
| Strategy and its drivers: `core/strategy.py`, `runner.py`, dry-run mode | state, candidate, fees, realized profit | on_bar, apply execution, finalize | late, refused and forced fills on the same books |
| Recall policy: `execution/recall_response.py`, `margin/monitor.py` | recalls today | drift check, hedge target, close-only unwind | rounding, a recall that takes part of the shares |
| Reconciliation: `reconciliation/*.py` | issues of a first reading | compare brokers with state, confirm | a broker that does not answer, readings that differ |
| Store: `store.py`, `persistence/*.py` | strategy state, rows, runs, pending closes | transaction per bar | crash before the commit |
| Recovery commands: `cli/commands_recovery.py`, `commands_live.py` | none | startup gate, clear-pause, manual-flat, settle | states no command accepts |
| Hand orders: `cli/commands_execution.py` | none | exec-smoke, manual-close | a close that crosses zero, an exit code that lies |
| Notifications: `ntfy.py` | bounded priority queue, cursor, seen ids | publish, send, receive, reconnect | an alert lost to a status, a command answered twice |
| Lease: `runtime/live/lease.py` | a locked file | acquire, release | a second process |
| Web, terminal, configuration, vendors' parsing, scripts | views and I/O | | none that a state property is about |

The engine calls the mode (`modes.py`), which calls the coordinator, which calls
the two adapters; each adapter lives in, or talks through, a worker process.  The
coordinator and the mode write to the store inside the bar's transaction, with
one exception that matters: the Fubon attempt row is committed before the order.
Reconciliation and the margin monitor read the brokers directly.  Recovery
commands, hand orders and the process exclude each other by the lease and meet
only in the store and at the brokers.  The notifications have two threads of
their own and share a queue with the loop.

What each must get right:

* the coordinator never turns a half-open pair into a reversed one, never trades
  on a position it did not verify, and never lets the strategy run on without a
  full pair; its intent survives a kill;
* an adapter claims no fill that neither executed nor moved the account, calls an
  order failed only when the account shows nothing of it, and always answers;
* the runtime, unpaused, agrees with the brokers across crashes, hand closes and
  recalls; the one order it sends outside a plan only closes;
* loop, books, warmup and order session are on one contract; no bar is built from
  a price past its ceiling; a dead book stream is restarted;
* no position is held into its contract's settlement or, where the policy says so,
  over a weekend;
* the recovery commands get out of every pause they are meant for, and a hand
  order never crosses zero;
* a reply from a worker answers the request that asked for it, and a hung worker
  is replaced; an alert is not given up for a lesser message.

## 2. Modules

| Module | What it is |
|---|---|
| `PairPromise` | abstract: what a plan may do to the two brokers and how it may end |
| `PairCoordinator`, `PairCoordinatorProofs` | `RealExecutionCoordinator.execute`, step by step, with both venues; refines `PairPromise` |
| `VenuePromise` | abstract: what an adapter may report of an order |
| `Venue` | orders, account and third parties, for the two adapters |
| `FubonOrder`, `FubonOrderProofs` | the Fubon adapter with its fill listener; refines `VenuePromise` |
| `IbkrSession`, `IbkrOrder` | the IBKR client's connection and caches; the IBKR adapter on it; refines `VenuePromise` but for finding 5 |
| `RecallPolicy`, `LiveRuntime`, `LiveRuntimeProofs` | the live process, its store, recovery commands, operator and lender, on `PairPromise` |
| `CcfFeed`, `MinuteBars`, `Rollover`, `RolloverProofs` | the book feed; bars on it; the live loop and its contract on both |
| `ContractCalendar` | rollover, sessions and weekends over all placements of holidays |
| `CachedQuote`, `Ntfy`, `HandOrders`, `PairStrategy` | the rate cache, the notifications, the commands that trade, the strategy where no order is sent |
| `BrokerWorker`, `BrokerWorkerProofs` | a broker SDK in a child process behind a pipe, and its two kinds of facade |
| `MC*` | what TLC instantiates: `MCVenueFaults` puts hostile and calm venues side by side, `MCVenues` the two adapters, `MCServices` the parts that run on their own |
| `VenueFaultsProofs`, `VenuesProofs`, `ServicesProofs` | theorems about what those three put together |

Two contracts join the layers.  The adapters are shown to implement
`VenuePromise`, but for the IBKR reports of finding 5; it says of a leg what
`PairCoordinator` assumes of its adapters: an order reaches its venue at most once, is reported once, and a claimed
fill was executed or moved the account.  The coordinator is shown to implement
`PairPromise`, and `LiveRuntime` uses nothing else of an execution.

### PairCoordinator

`plan`, `start` and `recalled` are the situation; `order[o]` is what the venues
do with the orders `ccf`, `umc` (the plan's legs) and `ccfX`, `umcX` (their
reversals); `view` is each broker's account, which may trail its executions.
`pc`, `cur`, `baseline`, `report`, `events`, `attempt` and `outcome` are the local
variables and rows of `execute`.  One action per step of the code: `CheckPositions`
is `verify_plan_against_broker`, `TakeBaseline` the reading kept to judge the UMC
leg by, `StartAttempt` the committed attempt row, `PlaceOrder` to `AdapterRaises`
one adapter call with everything the adapters can say of it, `CcfReturned`,
`UmcReturned` and `EmergencyReturned` what the coordinator makes of it.  Adapter
reports are derived from evidence: callbacks seen so far, the account's delta, the
executions visible, never from the order's true state directly.  `Crash` stops
the process at any step while its live orders go on trading.

A plan starts (`Init`) where both accounts show what they hold.  What the loop itself
executed before is shown by then: every plan is followed by a reconciliation that
compares the brokers with the state before there is another.  Left out is a change by
another hand, a recall or the late fill of a stray order, that happened before the
guard's reading (`execution/position_guard.py:91-93`) and that the account does not
show at it; one that comes after the reading, shown or not, is `Recall`, at any step.

### FubonOrder, IbkrOrder, IbkrSession

A Fubon fill is one lot `<<order, i>>`; `OnFilled` may deliver any executed lot at
any time, any number of times, before or after `place_order` has named the order
(`PlaceReturns`, which reclaims the buffered ones), and `OnOrderReport` any status
the venue may have sent.  `Poll` is one turn of `_await_order_completion` with what
the order history may say, the broker's "re-query" included, `Conclude` the
position delta and the mapping to an outcome.  The worker may be lost at any step.
`heard` and `dropped` are auxiliary: what the venue delivered and what the bounded
buffer pushed out.

`IbkrSession` keeps what the client believes (`ticker`, `verified`) beside what is
so (`link`, `session`, `known`): the socket can be dead while `isConnected()` is
true, and a close can raise with or without the event.  `IbkrOrder` runs one order
on it: `WaitEnds` takes whatever `orderStatus` may show (a warning that reads as a
cancellation of a live order among them), `Conclude` is the settle wait and the
classification by executions and position.

### LiveRuntime

`mem` is the strategy state, `rows` the exposure recorded in the open
transaction, `disk` what is committed, `run` the `live_runs` status, `closes` and
`pnl` the manual-close bookkeeping, `gate` the entry gate, `broker` the truth.  A
bar is `EntryBar` or `ExitBar` (forced exits included), then `PlanTrades` with
`PlanFilled`/`PlanStopped`, then `Reconcile` and, on a mismatch, `ReconcileAgain`.
`Conclude` is the commit that ends a bar.  `Crash` loses the transaction,
`Interrupt` is the `finally` of `run()`, which may commit rows without the state
they belong to.  The drift check is in the steps in which the brokers are asked:
`DriftSeen` is the margin check's snapshot, `ReadForUnwind` (or `DriftPauses`) the
positions read again and the response planned from them, `Unwind`, `UnwindFails` or
`UnwindCut` its order; shares may go in between.  `read` is what the order is sized
by, and what `UnwindOnlyReduces` speaks of.

`stray` is a UMC order that outlived its plan: the coordinator does not cancel,
so it can still trade after `execute` has returned (that is what `PairPromise!Move`
allows after a pause).  Only UMC orders are strays: the CCF order is an IOC
(`integrations/fubon/execution.py:481`).  `alien` is auxiliary: the part of the brokers' position
explained by the lender, an unwind or such an order since the brokers were last
read to match.  It is reset only where the code itself has just compared the
brokers with its state, so `RunningMatchesBrokers` says nothing but "no other
difference exists".

### CcfFeed, MinuteBars, Rollover

Time is polls of the loop; ages stop where the code stops telling them apart.
`CcfFeed` keeps `subscribed` (the client's belief) beside `listening` (what the
venue streams); `Stream` can part them, and so can `EnsureBooks` when an error event
lands inside a subscription.  A carried close of `MinuteBars` has two ages: `age`,
what the builder thinks, and `was`, how long the price really stands: they differ
because a warmup seed is stamped with its last bar even where that bar was filled.
`WarmupSeeds` is computed from every small window by the code's own acceptance and
trimming rules; a switch's warmup ends at the bar, so its seed is a minute older
than the one of a start.  `live` is auxiliary: a quote gave the price.

`Rollover` is the loop: `IdlePoll`, `DriftCheck` and `Poll` are an iteration,
`SwitchBefore`, `ProcessBar` (with the switch after it), `SwitchFails` and
`DuplicateMinute` are `_process_finalized_bar`, `Start`, `Crash` and `Settle` what
surrounds it.  The contract is in five places (`ccf`, `seeded`, `order`, `trading`
and the feed's subscription), which is what `OneContract` is about.  A forced exit
comes for the contract's deadline or on any bar the calendar may call a weekend's
last; which bars those are is `ContractCalendar`'s.

Abstracted: only the order of ages is kept, not their seconds.  One poll stands for
the loop's wait between two readings that matter: a quote of the last poll of a
minute is fresh when the minute ends (`Stale = 1`), an earlier one is not, and the
watchdog's retry interval and grace and the finalize delay fall inside one poll; a
minute that is over waits for its poll; what the socket does
while a bar is processed commutes with the bar and happens after it; the other two
legs have given a quote once (`Poll`) and are fresh or not at a minute's end;
ENTRY_PENDING and EXIT_PENDING do not outlive a bar in the live modes; the
forward-fill ratio check is what justifies that an actual minute is left after the
vendor's lag is trimmed.

### ContractCalendar

Three parts of a Taipei day are told apart: before the last minutes of the US
session, those minutes, and the evening.  Days are numbers with day 0 a Monday;
`Init` chooses any two weekdays as holidays.  A bar loop with at most one position
runs over it; its forced exits succeed (what happens when a plan fails is
`LiveRuntime`'s).  `NextPart` requires that a trading part has had its bar.

### CachedQuote, Ntfy, HandOrders, PairStrategy

`CachedQuote` is `fetch_quote` with its three answers and a clock.  `Ntfy` has the
loop's alerts (numbers, in the order of the calls), the publisher's thread, the
subscriber's thread, the topic itself (which the publisher's replies go to) and
the shutdown; a new stream may deliver again what came since its cursor.  Until the
subscriber has read a first message it has no cursor, and a stream that breaks starts
again from now: what is written in between is not a command it has skipped (`base`).
`HandOrders` is one account that lags, orders that keep working, and the four
commands: `ReadFirst` and `Check` are the two reads before the order, in the order of
each command, `ReadLast` and `End` the two after it.  A command may start while the
account still lags the one before.  `slip` is auxiliary and collects why a command
was sent that a check with the truth before it would have stopped: `override`, `lag`
(its reading of the position was not the one there was, `had`) and `moved` (the
position changed after it was read).  `NeverCrossesZero` speaks of commands without
one; that each of the three does cross zero, and how, is in section 4.
`PairStrategy` is the strategy with z-scores, prices and fees as small numbers,
driven as the replay and as the dry run drive it.

### BrokerWorker

Requests and replies carry no identifier; their order in the pipe is all that
matches them.  `facade` is chosen in `Init`.  The guarded one stands for
`FubonFutureExecutionProcess`, `FubonReadOnlyBrokerProcess` and
`IbkrClientProcess` with `SubprocessTransport`, which all scrap the worker on any
failure.  The market one is `FubonCcfMarketDataProcess`: it connects first, allows
`Patience` timeouts in a row, and rebuilds once while connecting.  The child may
be slow, answer with an error, hang (`Wedge`) or die.  `asked` and `got` are
auxiliary: the request sent last and the one whose reply the caller was handed.

## 3. Runs

| Run | Checks | Shows | Instance |
|---|---|---|---|
| `hostile` | TypeOK, NeverFlips, TradesOnlyWhatItVerified, RunsOnOnlyWhenHedged, ExposureIsReversedOrCritical, IntentIsDurable, CalmUnwindRestoresPair, KeepsPromise | one plan with lagging accounts, late reports, a recall, crashes; beside it calm venues, where an unwind restores both brokers; refinement of `PairPromise` | 2 lots / 2 shares, 1 recalled |
| `late` | NoReversedPair (violated) | finding 1 | 1 / 2 |
| `safe` | TypeOK, RunningMatchesBrokers, UnwindOnlyReduces, DriftIsAnswered, StuckPauseClears | the runtime through two plans, crash, recovery; drift is acted on, a hand-closed pair is recovered | 2 / 3, stray orders |
| `gate` | GateReopens (violated) | finding 2 | 1 / 1 |
| `reduced` | FlatHoldsNothing (violated) | finding 3 | 2 / 2 |
| `market` | MarketOwnReply (violated) | finding 4 | 4 names, patience 2 |
| `services` | TypeOK, GuardedOwnReply, WedgedIsScrapped, EveryCallReturns (worker); NeverHeldIntoExpiry, EntersNothingDue, FlatOverTheWeekend (calendar); AlertsGoOutInOrder, AlertsGoOut, CommandsAnsweredOnce (ntfy); ServedRateIsBounded (rate); NeverCrossesZero, CompleteMeansClosed (hand); BooksMatchPosition (strategy); ServicesTypeOK | the parts that share nothing, one of them to a behaviour | 12 days, 2 holidays; queue of 2, 3 alerts, 3 messages; ttl 2, serve 3; 2 units, 2 commands; 6 bars |
| `venues` | AdaptersTypeOK, CountsOwnFillsOnce, EarlyFillsAreFound, OrderIsAnswered, KeepPromiseOrOvercount, ServesThisSession, FailureIsEarned | both adapters against their venues and against `VenuePromise` | 2 units, 2 orders, buffer 1, 2 polls, 2 sessions |
| `ids` | ListsOwnExecutions (violated) | finding 5 | as `venues`, IBKR only |
| `bars` | RollTypeOK, OneContract, BarPriceIsRecent, WedgedFeedIsNoticed | the loop through a rollover with a bad feed, failed warmups, restarts; live closes carried up to the ceiling; a stream that stalls silently is restarted | 2 contracts, 2 polls a minute, windows of 3, forward fill of 2 |
| `seed` | SeedIsCheckedToo (violated) | finding 6 | as `bars`, forward fill of 3 |
| `book` | DecidesOnItsOwnBook (violated) | finding 7 | as `seed` |

**Bounds.**  Two lots or shares are the least with a partial fill; 2 against 3 is
the least where rounding the hedge target can be wrong in both directions (one
share left of three asks for 0.67 contracts).  One recalled share is enough to be
mistaken for, or to hide, one unit of a fill.  Two plans let a leftover of the
first (a stray order, a row without its state, a pause) meet the second; the
counter stops only `Execute`, everything else goes on.  One unwind per day with
`NewDay` reaches both sides of the budget.  Two orders of an adapter let the
fills, reports and rows of the first meet the second; a buffer of one is at its
limit with the second early lot; two polls reach a poll after a pause; two
sessions put every cache on the wrong side of a reconnect.  `MaxThird = 0`: the
promise allows a claim backed by the account alone, so third-party trades, which
`PairCoordinator` has, add nothing to it.  `Patience = 2` is the code's default;
`MaxBehind = 1` lets an answering worker owe a reply beyond the one asked for;
without the bound the market facade's debt grows without limit (each stale success
resets the timeout count).  Four names cover every message that can then be about.
Twelve days hold a Wednesday expiry, the rollover before it, two weekends and two
holidays anywhere around them; the second contract expires past the horizon.
A queue of two alerts is full with one reply in it; `SeenLimit = Overlap = 1` is
the tightest memory that can still know a message delivered again.  Two commands
let the second meet what the first lost track of.  Six bars open, close, cancel
and open again.  In `bars` the ages are in the order of the configuration
(`Stale = 1 < Watchdog = 2 < BookStale = 3` polls, and all of them below the forward
fill of two minutes, which is four polls), so a minute may close on a fresh
quote, on one that decides but does not refresh the carry, and on a carry of one or
two thin minutes or too many; one REST age is young and one old; a window of three
with two filled minutes hides one (`Unseen = 1`), which is less than the forward
fill, as in the configuration (5 against 15 minutes).  `seed` and `book` take one
minute of forward fill more: a seed taken at a switch is three minutes old when the
first minute after it ends, and only a bar built on it meets the old contract's book.

`MCServices` puts parts that share no variable into one state space, one of them to
a behaviour, chosen in its initial state; so no interleaving is lost and none is
paid for.

**Deadlock** checking is off where the system stops by design: a plan that ended,
the last order or bar, an operator who need not restart a process, a closed facade.
It is on for the rollover loop.

**Fairness.**  `MCVenues`: weak fairness of the adapter that is working, because
every wait of an adapter has a deadline (listener wait, bounded polling, the
facade's hard timeout); nothing is assumed of the venues,
although every one of its steps may be the loss of the worker.
`LiveRuntime`: the loop goes on (`execute` has no loop and returns when its adapters do, `OrderIsAnswered` in `venues`,
reconciliation ends, bars keep coming, and so do margin checks, which supposes that
the margin monitor is enabled) and an operator who has
closed a pair by hand runs the recovery commands; nobody has to start the process
or close anything, and a crash may come at any time.  `BrokerWorker`: polls time
out, a worker that is neither hung nor dead serves its pipe, and quotes keep being
asked for (`Call`); hanging and dying are not fair, and closing need not happen.
`Ntfy`: the publisher's thread runs and its transport has a timeout; sends may
fail for ever.  `Rollover`: the loop polls and processes while it runs, and time
passes; a subscription tried again and again gets through in the end (strong
fairness of a poll after which the stream is real), without which no watchdog
could promise anything.  Starting, crashing and what the socket does are not fair.

## 4. Findings

1. **`late`.**  After an unknown UMC report, equal positions before and after are
   taken for "untouched" and the CCF leg is reversed, but the UMC order is not
   cancelled and may fill afterwards: a reversed pair.
2. **`gate`.**  The entry gate is cleared by a resume and by a reconciliation after
   a trade.  A flat strategy with a closed gate never trades and so never
   reconciles; the gate stays closed until a restart.
3. **`reduced`.**  After a partial recall the unwind keeps the contracts that hedge
   the surviving shares, and the state becomes FLAT: a hedge nobody manages.
4. **`market`.**  After one timeout the market data worker is kept with the late
   reply on its way; the next request reads it, and so on, one behind.
5. **`ids`.**  IBKR order ids start again with every client connection, and
   `_umc_execution_shares` looks executions up by the bare id: after a reconnect on
   the same day the fills of an earlier order are counted to the new one, which can
   report as filled what never traded.  Such a report is outside what
   `PairCoordinator` assumes of a leg, so what is shown of the coordinator is shown of
   days on which IBKR did not reconnect after a fill, until this is mended.
6. **`seed`.**  The builder's first carried close is the last warmup bar's and gets
   that bar's timestamp, also where the warmup had filled it; the ceiling counts from
   the stamp, so the price is carried up to `Unseen` minutes too long.
   `BarPriceIsRecent` is therefore stated without slack for a price a quote gave and
   with this slack for a seed.
7. **`book`.**  `fetch_quote_or_cached` keys its cache by source, and a contract
   switch does not clear it.  If the first fetch of the new contract fails, the old
   contract's book is still fresh and a decision for the new contract is taken
   from it.

Observed while modelling, true of the models, and not kept as runs.

*Runtime and recovery.*  An unwind sized before a second recall leaves more
contracts than the shares that are left hedge, and the state FLAT (as finding 3).  A
killed process leaves its `live_runs` row `running`,
which `manual-flat` refuses for good (hence "after a graceful stop" in
`StuckPauseClears`); a pair closed by hand while the process is down and the state
OPEN passes neither the startup gate nor `manual-flat`; forced exits trade from
PAUSED; of two pending manual closes the older can never be settled; emergency
orders have no attempt row; a guarded facade's `close()` sets `_closed` before it
asks the worker to stop, so its own `_require_open` refuses the request and the
worker is always terminated.

*Feed and bars.*  A stream the peer closed silently is hidden from the watchdog as
long as REST quotes with a young timestamp stand in for the book
(`engine.py:449-465`), although the execute configuration says of its 600 s that it
"still catches a dead socket inside ten minutes": that is why `Hidden` is in
`WedgedFeedIsNoticed`.  The trailing-fill check of a warmup
is made before the vendor's lag is trimmed and is not repeated.

*Calendar.*  `pair_session_close_on` ignores the closed dates: a TAIFEX holiday
on Monday with a US holiday behind it leaves no bar between the deadline and a
Wednesday expiry.  `FridayClosed` in `FlatOverTheWeekend` is the exception the code's
own comment names; before any other holiday the exit comes with the Friday's session.

*Hand orders.*  Two ways a hand close ends on the other side of zero, both of them
reachable in `HandOrders` and both outside `NeverCrossesZero`.  (`lag`) After a partial
close at IBKR `fetch_position_with_retry` waits for a "nonzero" position, which the
one before the close is already; the order filled in full, the command ends CRITICAL
with a hint sized by that reading, and a rerun that still reads it closes more than
there is.  The comment above that wait (`commands_execution.py:801-806`) calls this
"the one outcome this tool exists to prevent"; its remedy works after a *full* close
(for zero, five reads half a second apart).  (`moved`) `preflight` of the IBKR adapter
(`ibkr/execution.py:170`) and `fubon_manual_close` read the position before the open
orders: an order that fills between the two is in neither answer, and the close-only
check passes on a position that is gone, although the message at
`commands_execution.py:766` wants such orders cancelled first.  A partial close at
Fubon always ends CRITICAL.

*Adapters.*  Notifications and the broker's status 9 use up Fubon's attempts, so
the wait may end before `max_poll_seconds`; a later report overwrites a terminal
status; unnumbered identical fills count once; buffered fills have no time window;
an IBKR reconnect whose close raises with the flag still up keeps the dead link;
error 1101 (data lost) is recorded and nothing subscribes again.

*Replay.*  A replay that dies between the commit of its last bar and `finalize` is
never finalized by a resume; a strategy in FORCED_CLOSED never trades again.

## 5. Proofs

The theorems hold for every value of the constants that satisfies the named
assumptions of the modules (positive sizes, Boolean flags, limits that are natural
numbers, ages in the order of the configuration); a further hypothesis, where a
theorem has one, is in its statement.  Each follows one pattern: an inductive
invariant, a lemma for each action or group of actions, a lemma for the step, and
the theorem from it.  TLC's bounds are constants too, so a theorem says that the
property holds for any of them.

### The coordinator: `PairCoordinatorProofs`, `VenueFaultsProofs`

* `TypeCorrect`, and `IntentDurable`: `IntentIsDurable` does not say that the row
  is on disk when the call is about to be made; `DurableInv` adds it, and `InTurn`
  (orders and reports come in the order ccf, umc, ccfX, umcX, and nothing after the
  current one exists) excludes a late CCF placement.
* `NeverFlipped` rests on `FlipInv`.  The hard part is a position delta: it judges
  a leg by a reading before and one after, both of which may be late.  `Accounts`
  measures everything in the leg's own direction: what trades moved (`Net`), what
  the account shows of it (`Shown`), where the order's baseline stands (`Based`),
  and what a recall added (`Drift`).  As long as no recall pushes in the leg's
  direction, the account never shows more than has traded, so a delta claims no
  more than the leg's executions.  A UMC report may owe its "filled" to a recall,
  but a filled UMC leg is never reversed.
* `TradesVerified` adds `Verified`: from the second reading on, the position the
  plan started from is the one `verify_plan_against_broker` expected.
* `RunsOnHedged` adds `Concluded` (a leg reported filled executed in full, unless
  a recall moved the account), `ExposureReversed` adds `Told` (an emergency report
  of "filled" means that order executed all the fills it was sized by).
* `PromiseKept`: the refinement of `PairPromise`, action by action.
* `CalmUnwinds`: with `~AccountsLag /\ ~LateFills`, `CalmInv` says when an order can
  no longer trade.  `VenueFaultsProofs` carries it to the composition
  (`CalmUnwindRestores`) by instantiating the proofs of `PairCoordinator` with the
  calm venues.

### The adapters: `FubonOrderProofs`, `VenuesProofs`

* `FubonTypes`, `OwnFillsCounted`, `EarlyFillsFound`.  `Calls` ties the steps of
  `execute` to what the listener holds; `Counts` says that the lots counted are the
  distinct fills seen, all of them fills this order executed; `Finds` that what the
  venue delivered is in the buffer until the order is named, in the waiter from
  then on, or was pushed out.  Both need that a pushed or reclaimed buffer keeps the
  elements it should (`Push`, `Reclaim`): lemmas about sequences of their own.
* `FubonKeepsPromise`: the refinement of `VenuePromise`; a claimed fill is backed by
  `Counts`, or by the account.
* `CachesServeThisSession` has no hypothesis.  `Made` and `Read` say which caches a
  link that is down cannot have.
* `AdaptersTyped`, `FailuresEarned` and `AdaptersKeepPromise` have no hypothesis: the
  order ids start again with every connection, as the code says they do.  So the
  promise cannot hold as it is (finding 5).  `KeepPromiseOrOvercount` says how far it
  is broken: by `Overcounts` only, a report of an IBKR order whose id an earlier order
  executed under (`~NameIsOwn`), which claims no more than the account lists under that
  id; never by a report of failure, by a second placement or at Fubon.
  `SaidSo` (a status seen during the wait counts only this order's shares) and
  `NameIsOwn` give `Listed = exec[cur]`, and with it the promise.

### The runtime: `LiveRuntimeProofs`

* `RuntimeTypes`, with the shapes of the records `TypeOK` leaves open (`Shapes`).
* `BrokersMatched`: `RunningMatchesBrokers` speaks of the time between plans, so it
  is not inductive: `Tracked` follows a plan in flight (what the brokers hold is
  what the plan began with, plus the alien part, plus the legs so far), and
  `PairPromise` says how such a plan may end.
* `UnwindsReduce`: nobody trades CCF between the reading and the order (`Planned`),
  and `TargetIsNearest` is the rounding of the hedge target for all sizes: the target is within half a contract of the ideal one and never on the
  other side of zero or beyond what is held.

### The loop, its bars and its books: `RolloverProofs`

* `RollTyped`, `StaysOnOneContract`, `BarsStayRecent` from one invariant.  `Feeds`
  says that a running loop subscribes to at most its own contract, `Names` and
  `Holds` whose the seed, the order session and the position are.  `Honest` is what
  makes the ceiling inductive: until it is given up, the true age of a carried price
  is what the builder thinks if a quote gave it, and exceeds it by no more than
  `Unseen` for every seed that the warmup's acceptance rules let through
  (`SeedsHonest`), after any number of minutes.  Contracts are numbered from 1, the one at the start.

### The parts on their own: `ServicesProofs`, `BrokerWorkerProofs`

* `RateBounded`: a cached quote is of the symbol it is filed under and no older than
  the time it has been kept allows (`CacheInv`).
* `ZeroNeverCrossed`, `CompleteIsClosed`: `InOneDirection` says that whatever still
  works after the first read pushes the account one way, and that after a true first
  read so does what a query is given; `OnTheReading` what each later step knows of the
  true position.  Both are about commands without a `slip`.
* `BooksMatch`: the balance of fees and trades over every path of a bar, for the
  replay's driver and the dry run's (`Balanced`).
* `AlertsInOrder`: `QueueInv` says that an alert called before now waits, was tried
  or was refused, that those waiting are in the order of their calls, and that none
  of them was called before one already tried.
* `CommandsOnce`: `CursorInv` says that everything of the topic between the first
  message read and the cursor was read, that what is remembered are the last ones
  read without a gap (`LastRemembered`), and that a message past the cursor has no
  answer (`Answered`).  A stream that delivers again what came before its cursor
  finds it remembered or behind the base.
* `CalendarTypes`; `NeverIntoExpiry`, `EntryNeverDue`, `FlatOverWeekends`: the
  calendar for every set of weekday holidays and every list of months.  What they
  rest on is counting: `CountedBack` (counting back from an expiry ends on a business
  day, with exactly so many from it on), `LastWeekday`, `OneDayMore`,
  `AlwaysOneFarEnough`.  `ExpiryInv` says that a position sees no bar after the
  evening of that day, whose bar is due once it is reached and always trades;
  `WeekInv` that it does not outlast the last minutes of its week's Friday session
  unless that Friday is closed (`AtLastCall`).  `NeverIntoExpiry`
  assumes `Horizon`: the forced exit at least one business day ahead and a month
  listed far enough behind the last day.  `EntryNeverDue` assumes `EntryMargin` too:
  an entry needs *two* business days more than the exit.  Neither can be dropped.
  With no business day ahead (`ExitBusinessDays = 0`) a position is carried into the
  evening of the last trading day, and with one day more (2 and 1) an entry in the
  last minutes of a Friday's session is in a contract that is due in the same
  minutes; TLC shows both.  The configuration loader checks neither
  (`config.py:371`-`376`); the shipped files have 5 and 1.
* `ServicesTyped`: every one of these parts is well typed at once, in `MCSpec`, which
  is the specification TLC runs.  The type of the hand commands is a claim of its
  own: that no order, fill, lost report or close of a smoke takes the account, or what
  it may still get to, past twice `MaxQty` is `HandBounds`, which needs `HandInv`
  (nothing works when an order is sent) to be inductive.
* `TypeCorrect`, `RepliesMatch`: behind a guarded facade `got` is always `asked`.
  `PipeInv` says why: between calls the pipe is empty, and during a call the only
  thing about is the request just sent, in one of three places.  It is the
  scrapping of the worker on *every* failure that keeps it, which is what the
  market facade lacks.

### Model-checked only

Liveness (`DriftIsAnswered`, `StuckPauseClears`,
`WedgedIsScrapped`, `EveryCallReturns`, `AlertsGoOut`, `OrderIsAnswered`,
`WedgedFeedIsNoticed`): the prover has no rule for fairness and `ENABLED`.

The other theorems of `ServicesProofs` are stated of the parts' own
specifications; `MCSpec` of `MCServices` adds nothing to a part but the steps of
others, which leave it alone.

## 6. Not modelled

Prices, fees, slippage and sizing beyond what the books need; the rolling window
behind the z-score; margin levels (advice only); report formats; `--reset-store`,
which deletes the store the model is about; fractional shares and non-integral
positions (quantities are whole numbers); minutes, daylight saving and
`TradingCalendar.annotate` in the calendar; the parsing of vendor rows, login and
downloads; the lease's file lock (it appears as the guard that keeps commands and
process apart); the web and terminal views, which only read; configuration and
arguments; the smoke, doctor and status commands that send no order.

## 7. Plan

1. The hazards without a property: the weekend or rollover force exit that trades
   from PAUSED (`runtime/live/contracts.py:304`), two hand closes issued before
   either is settled (`cli/commands_recovery.py:273`), and the two ways in which a
   pair closed by hand cannot be recovered (a killed process's `live_runs` row,
   `cli/commands_recovery.py:29`; an OPEN state, `cli/commands_execution.py:119`).
   The models have them; what the program should do is for its authors to say.
2. A model of the lease's lock, should the program ever be run on a file system
   where `flock` is not exclusive.
