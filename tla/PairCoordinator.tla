-------------------------- MODULE PairCoordinator --------------------------
(***************************************************************************)
(* RealExecutionCoordinator.execute (execution/real_coordinator.py): one   *)
(* two-leg plan, CCF futures at Fubon first, UMC shares at IBKR second.    *)
(* The coordinator runs step by step while the venues execute its orders,  *)
(* a stock-loan recall buys in a UMC short, each broker's account view     *)
(* lags its executions, and the process may be killed at any point.        *)
(*                                                                         *)
(* Orders are named: "ccf" and "umc" are the plan's own legs, "ccfX" and   *)
(* "umcX" the emergency orders that reverse them.                          *)
(***************************************************************************)
EXTENDS Integers

CONSTANTS
    CcfQty,          \* lots of the plan's CCF leg
    UmcQty,          \* shares of the plan's UMC leg
    MaxRecall,       \* bound: shares a recall may buy in during the plan
    Unreadable,      \* a position query that raised or returned None
    AccountsLag,     \* TRUE: a position query may predate an execution
    LateFills        \* TRUE: an adapter may report while its order is live

Brokers     == {"ccf", "umc"}
FubonOrders == {"ccf", "ccfX"}
IbkrOrders  == {"umc", "umcX"}
Primary     == {"ccf", "umc"}
Emergency   == {"ccfX", "umcX"}
OrderIds    == FubonOrders \cup IbkrOrders
Statuses    == {"filled", "rejected", "failed", "partial_fill", "unknown"}

ASSUME QtyAssumption ==
    /\ CcfQty \in Nat \ {0}
    /\ UmcQty \in Nat \ {0}
    /\ MaxRecall \in Nat
ASSUME FlagAssumption  == AccountsLag \in BOOLEAN /\ LateFills \in BOOLEAN
ASSUME ReadAssumption  == Unreadable \notin Int

VARIABLES
    plan,       \* [type, direction, valid]: what the strategy asked for
    start,      \* true position at each broker when execute() is entered
    recalled,   \* UMC shares bought in by a third party since then
    order,      \* orders at the venues, by order name
    view,       \* the position each broker's account query shows
    pc,         \* where execute() is
    cur,        \* the order being worked on
    baseline,   \* positions_before[UMC]
    report,     \* what the adapter returned, by order name
    events,     \* event types recorded for this plan
    attempt,    \* fubon_attempts rows: in the open transaction and on disk
    outcome     \* the ExecutionOutcome returned

venueVars == <<start, recalled, order, view>>
vars == <<plan, start, recalled, order, view, pc, cur, baseline, report,
          events, attempt, outcome>>

-----------------------------------------------------------------------------
(* Positions and orders *)

\* expected_leg_sides: does the plan's leg at this broker buy?
Buys(b) == LET ccfBuys == (plan.type = "ENTRY") <=> (plan.direction = "short_umc")
           IN  IF b = "ccf" THEN ccfBuys ELSE ~ccfBuys
Qty(b)  == IF b = "ccf" THEN CcfQty ELSE UmcQty

Signed(buys, n) == IF buys THEN n ELSE -n

Broker(o)   == IF o \in FubonOrders THEN "ccf" ELSE "umc"
Reversal(b) == IF b = "ccf" THEN "ccfX" ELSE "umcX"

\* reverse_side: an emergency order trades against the leg it unwinds.
OrderBuys(o) == IF o \in Primary THEN Buys(Broker(o)) ELSE ~Buys(Broker(o))

Placed(o) == order[o].qty > 0

\* What the plan has moved at a broker so far, in the direction of its leg.
Net(b) == order[b].exec - order[Reversal(b)].exec

Pos(b) == start[b] + Signed(Buys(b), Net(b)) + (IF b = "umc" THEN recalled ELSE 0)

\* The broker's answers to a position query: a number, or no answer.
Seen(b)     == IF AccountsLag THEN view[b] ELSE Pos(b)
Readings(b) == {Seen(b), Unreadable}

\* signed_close_quantity, and flat before an entry.
Expected(b) == IF plan.type = "EXIT" THEN Signed(~Buys(b), Qty(b)) ELSE 0

NoOrder  == [qty |-> 0, exec |-> 0, open |-> FALSE, base |-> 0]
NoReport == [status |-> "none", fills |-> 0]

Plans == [type : {"ENTRY", "EXIT"}, direction : {"short_umc", "long_umc"},
          valid : BOOLEAN]

Init ==
    /\ plan \in Plans
    /\ start \in {f \in [Brokers -> -(CcfQty + UmcQty)..(CcfQty + UmcQty)] :
                    \A b \in Brokers : f[b] \in -Qty(b)..Qty(b)}
    /\ recalled = 0
    /\ order = [o \in OrderIds |-> NoOrder]
    /\ view = start
    /\ pc = "recv" /\ cur = "ccf"
    /\ baseline = Unreadable
    /\ report = [o \in OrderIds |-> NoReport]
    /\ events = {}
    /\ attempt = [o \in FubonOrders |-> [mem |-> "none", disk |-> "none"]]
    /\ outcome = [status |-> "none", paused |-> FALSE]

-----------------------------------------------------------------------------
(* The venues and the accounts, at any time *)

\* A live order trades some of what is left of it.
Trade(o) ==
    /\ order[o].open
    /\ \E n \in 1..(order[o].qty - order[o].exec) :
         order' = [order EXCEPT ![o].exec = @ + n]
    /\ UNCHANGED <<plan, start, recalled, view, pc, cur, baseline, report,
                   events, attempt, outcome>>

\* A live order ends: filled, cancelled, rejected or expired.
Expire(o) ==
    /\ order[o].open
    /\ order' = [order EXCEPT ![o].open = FALSE]
    /\ UNCHANGED <<plan, start, recalled, view, pc, cur, baseline, report,
                   events, attempt, outcome>>

\* The account a broker reports catches up with its executions.
CatchUp(b) ==
    /\ AccountsLag
    /\ view[b] # Pos(b)
    /\ view' = [view EXCEPT ![b] = Pos(b)]
    /\ UNCHANGED <<plan, start, recalled, order, pc, cur, baseline, report,
                   events, attempt, outcome>>

\* A stock-loan recall buys in some of a short UMC position.
Recall ==
    /\ Pos("umc") < 0
    /\ \E n \in 1..(MaxRecall - recalled) :
         /\ n <= -Pos("umc")
         /\ recalled' = recalled + n
    /\ UNCHANGED <<plan, start, order, view, pc, cur, baseline, report,
                   events, attempt, outcome>>

Venues == Recall \/ (\E o \in OrderIds : Trade(o) \/ Expire(o))
                 \/ (\E b \in Brokers : CatchUp(b))

-----------------------------------------------------------------------------
(* execute(), up to the first order *)

\* Mutant: only a reversal pauses, a leg that never filled does not.
FinishUnpaused(status, reversed) ==
    pc' = "done" /\ outcome' = [status |-> status, paused |-> reversed]

\* _combined_outcome, recorded and returned.
Finish(status, reversed) ==
    /\ pc' = "done"
    /\ outcome' = [status |-> status, paused |-> status # "filled" \/ reversed]

\* record_live_execution_plan found a failed check.
RejectInvalidPlan ==
    /\ pc = "recv" /\ ~plan.valid
    /\ Finish("rejected", FALSE)
    /\ UNCHANGED <<venueVars, plan, cur, baseline, report, events, attempt>>

\* Mutant: a broker that cannot answer passes for one that holds the right thing.
GuardTrustsSilence(r) == \A b \in Brokers : r[b] \in {Expected(b), Unreadable}

\* verify_plan_against_broker: both brokers must hold what the plan expects,
\* and a broker that does not answer fails its check.
GuardHolds(r) == \A b \in Brokers : r[b] = Expected(b)

GuardReadings == {r \in [Brokers -> Readings("ccf") \cup Readings("umc")] :
                    \A b \in Brokers : r[b] \in Readings(b)}

CheckPositions ==
    /\ pc = "recv" /\ plan.valid
    /\ \E r \in GuardReadings :
         IF GuardHolds(r)
         THEN pc' = "baseline" /\ UNCHANGED outcome
         ELSE Finish("rejected", FALSE)
    /\ UNCHANGED <<venueVars, plan, cur, baseline, report, events, attempt>>

\* positions_before: a second reading, kept to judge the UMC leg by.
TakeBaseline ==
    /\ pc = "baseline"
    /\ baseline' \in Readings("umc")
    /\ pc' = "intent"
    /\ UNCHANGED <<venueVars, plan, cur, report, events, attempt, outcome>>

\* Mutant: the attempt row is written but the transaction stays open.
StartAttemptUncommitted ==
    /\ pc = "intent"
    /\ attempt' = [attempt EXCEPT ![cur].mem = "submitting"]
    /\ pc' = "call"
    /\ UNCHANGED <<venueVars, plan, cur, baseline, report, events, outcome>>

\* _execute_leg writes the Fubon attempt and commits before the order goes out.
StartAttempt ==
    /\ pc = "intent"
    /\ attempt' = [attempt EXCEPT ![cur] = [mem |-> "submitting", disk |-> "submitting"]]
    /\ pc' = "call"
    /\ UNCHANGED <<venueVars, plan, cur, baseline, report, events, outcome>>

-----------------------------------------------------------------------------
(* One adapter call: place cur and report on it *)

\* Mutant: an emergency reverses the whole leg, filled or not.
OrderQtyWholeLeg(o) == Qty(Broker(o))

\* Mutant: an emergency is sized by what the leg did not fill.
OrderQtyRemainder(o) == IF o \in Primary THEN Qty(o)
                        ELSE report[Broker(o)].fills - Qty(Broker(o))

\* An emergency reverses exactly the fills its leg reported.
OrderQty(o) == IF o \in Primary THEN Qty(o) ELSE report[Broker(o)].fills

\* Both adapters read the position before they place the order.
PlaceOrder ==
    /\ pc = "call"
    /\ order' = [order EXCEPT ![cur] = [qty |-> OrderQty(cur), exec |-> 0,
                                        open |-> TRUE, base |-> Seen(Broker(cur))]]
    /\ pc' = "wait"
    /\ UNCHANGED <<plan, start, recalled, view, cur, baseline, report, events,
                   attempt, outcome>>

Return(status, fills) ==
    /\ report' = [report EXCEPT ![cur] = [status |-> status, fills |-> fills]]
    /\ pc' = "ret"
    /\ UNCHANGED <<venueVars, plan, cur, baseline, events, attempt, outcome>>

\* Closed gates, a failed health check or session, a refused order.
NothingSent ==
    /\ pc = "call"
    /\ \E status \in {"rejected", "failed", "unknown"} : Return(status, 0)

\* A wait that ran out reports on an order that may still be live.
CanReport == LateFills \/ ~order[cur].open

\* What the account moved since PlaceOrder, in the order's direction.
Delta(o) == Signed(OrderBuys(o), Seen(Broker(o)) - order[o].base)

\* fubon_position_delta_confirmation: the part of the delta that can be ours.
DeltaFill(o) == IF Delta(o) <= 0 THEN 0
                ELSE IF Delta(o) < order[o].qty THEN Delta(o) ELSE order[o].qty

\* Fill callbacks may be missed; the position is asked only when they do not
\* cover the order, and may not answer (d = 0).
FubonEvidence(o) ==
    {IF c < d THEN d ELSE c : c \in 0..order[o].exec, d \in {0, DeltaFill(o)}}

\* map_fubon_order_status: fills decide, the status text only without fills.
FubonStatus(o, fills) ==
    IF fills = order[o].qty THEN {"filled"}
    ELSE IF fills > 0 THEN {"partial_fill"} ELSE {"failed", "unknown"}

FubonReports ==
    /\ pc = "wait" /\ cur \in FubonOrders
    /\ \E fills \in FubonEvidence(cur) :
         /\ fills = order[cur].qty \/ CanReport
         /\ \E status \in FubonStatus(cur, fills) : Return(status, fills)

\* place_and_confirm_umc_order: executions or the account say it traded.
IbkrReportsFilled ==
    /\ pc = "wait" /\ cur \in IbkrOrders
    /\ order[cur].exec = order[cur].qty \/ Delta(cur) = order[cur].qty
    /\ Return("filled", order[cur].qty)

\* "failed": a terminal status, no executions seen (their refresh may fail), an
\* account unmoved all through the settle wait.  The status may be wrong.
IbkrReportsFailed ==
    /\ pc = "wait" /\ cur \in IbkrOrders /\ CanReport
    /\ Delta(cur) = 0
    /\ Return("failed", 0)

\* Everything else is unknown, with the executions it could see.
IbkrReportsUnknown ==
    /\ pc = "wait" /\ cur \in IbkrOrders /\ CanReport
    /\ Delta(cur) # order[cur].qty
    /\ \E fills \in 0..order[cur].exec :
         /\ fills < order[cur].qty
         /\ Return("unknown", fills)

\* The worker process timed out or died: the request is lost, not the order.
WorkerLost ==
    /\ pc = "wait" /\ CanReport
    /\ Return("unknown", 0)

\* _safe_adapter_execute turns an exception into a failure without fills.
AdapterRaises ==
    /\ pc = "wait" /\ CanReport
    /\ Return("failed", 0)

-----------------------------------------------------------------------------
(* What the coordinator does with a report *)

\* _handle_exposure_breach, up to its next emergency order.
Reverse(b, breach) ==
    /\ cur' = Reversal(b)
    /\ pc' = "call"
    /\ events' = events \cup {"exposure_breach", breach, "emergency_close_attempted"}

\* _record_fubon_attempt_outcome stays in the open transaction.
CcfReturned ==
    /\ pc = "ret" /\ cur = "ccf"
    /\ attempt' = [attempt EXCEPT !.ccf.mem = report.ccf.status]
    /\ \/ /\ report.ccf.status = "filled"
          /\ cur' = "umc" /\ pc' = "call"
          /\ UNCHANGED <<events, outcome>>
       \/ /\ report.ccf.status # "filled" /\ report.ccf.fills > 0
          /\ Reverse("ccf", "single_leg_exposure")
          /\ UNCHANGED outcome
       \/ /\ report.ccf.status # "filled" /\ report.ccf.fills = 0
          /\ Finish(report.ccf.status, FALSE)
          /\ UNCHANGED <<cur, events>>
    /\ UNCHANGED <<venueVars, plan, baseline, report>>

\* Mutant: two readings that both failed pass for two equal readings.
UnmovedIfSilent(now) == now = baseline

\* _leg_moved_at_broker answers False: two readings, equal.
Unmoved(now) == baseline # Unreadable /\ now # Unreadable /\ now = baseline

UmcReturned ==
    /\ pc = "ret" /\ cur = "umc"
    /\ \/ /\ report.umc.status = "filled"
          /\ Finish("filled", FALSE)
          /\ UNCHANGED <<cur, events>>
       \/ /\ report.umc.status # "filled"
          /\ \E now \in Readings("umc") :
               \/ /\ Unmoved(now)
                  /\ Reverse("ccf", IF report.umc.fills > 0
                                    THEN "imbalanced_pair_exposure"
                                    ELSE "single_leg_exposure")
                  /\ UNCHANGED outcome
               \/ /\ ~Unmoved(now)
                  /\ events' = events \cup
                       {"unverified_second_leg", "critical_manual_intervention_required"}
                  /\ Finish(report.umc.status, FALSE)
                  /\ UNCHANGED cur
    /\ UNCHANGED <<venueVars, plan, baseline, report, attempt>>

\* Mutant: an emergency order that failed is told like one that filled.
EmergencyQuiet(o) == {"emergency_close_filled"}

EmergencyEvents(o) ==
    IF report[o].status = "filled" THEN {"emergency_close_filled"}
    ELSE {"emergency_close_failed", "critical_manual_intervention_required"}

EmergencyReturned ==
    /\ pc = "ret" /\ cur \in Emergency
    /\ LET told == EmergencyEvents(cur)
           failed == IF report.ccf.status = "filled" THEN report.umc ELSE report.ccf
       IN  IF cur = "ccfX" /\ report.umc.fills > 0
           THEN /\ cur' = "umcX" /\ pc' = "call"
                /\ events' = events \cup told \cup {"emergency_close_attempted"}
                /\ UNCHANGED outcome
           ELSE /\ Finish(failed.status, TRUE)
                /\ events' = events \cup told
                /\ UNCHANGED cur
    /\ UNCHANGED <<venueVars, plan, baseline, report, attempt>>

\* The process is killed; what was not committed is gone.
Crash ==
    /\ pc \notin {"done", "crashed"}
    /\ pc' = "crashed"
    /\ attempt' = [o \in FubonOrders |-> [attempt[o] EXCEPT !.mem = attempt[o].disk]]
    /\ UNCHANGED <<venueVars, plan, cur, baseline, report, events, outcome>>

Adapter == PlaceOrder \/ NothingSent \/ FubonReports \/ IbkrReportsFilled
           \/ IbkrReportsFailed \/ IbkrReportsUnknown \/ WorkerLost \/ AdapterRaises
Coordinator == RejectInvalidPlan \/ CheckPositions \/ TakeBaseline \/ StartAttempt
               \/ CcfReturned \/ UmcReturned \/ EmergencyReturned

Next == Venues \/ Adapter \/ Coordinator \/ Crash

Spec == Init /\ [][Next]_vars

-----------------------------------------------------------------------------
(* Properties *)

AttemptStates == Statuses \cup {"none", "submitting"}
EventTypes    == {"exposure_breach", "single_leg_exposure", "imbalanced_pair_exposure",
                  "emergency_close_attempted", "emergency_close_filled",
                  "emergency_close_failed", "unverified_second_leg",
                  "critical_manual_intervention_required"}

TypeOK ==
    /\ plan \in Plans
    /\ start \in [Brokers -> Int]
    /\ recalled \in Nat
    /\ order \in [OrderIds -> [qty : Nat, exec : Nat, open : BOOLEAN, base : Int]]
    /\ view \in [Brokers -> Int]
    /\ pc \in {"recv", "baseline", "intent", "call", "wait", "ret", "done", "crashed"}
    /\ cur \in OrderIds
    /\ baseline \in Int \cup {Unreadable}
    /\ report \in [OrderIds -> [status : Statuses \cup {"none"}, fills : Nat]]
    /\ events \in SUBSET EventTypes
    /\ attempt \in [FubonOrders -> [mem : AttemptStates, disk : AttemptStates]]
    /\ outcome \in [status : Statuses \cup {"none"}, paused : BOOLEAN]

Critical == "critical_manual_intervention_required" \in events

\* The emergency path never trades a leg past where the plan found it: what it
\* reverses, it reverses of what its leg really executed (_handle_exposure_breach
\* sizes the order by the fills the adapter attached).
NeverFlips == \A b \in Brokers : order[Reversal(b)].exec <= order[b].exec

\* With no third party trading, an exit never leaves a broker outside the
\* interval between flat and the position it set out to close, and an entry
\* never trades on top of a position (verify_plan_against_broker).
TradesOnlyWhatItVerified ==
    recalled = 0 =>
      \A b \in Brokers :
        IF plan.type = "EXIT"
        THEN \/ 0 <= Pos(b) /\ Pos(b) <= start[b]
             \/ start[b] <= Pos(b) /\ Pos(b) <= 0
        ELSE start[b] # 0 => Pos(b) = start[b]

\* If execute() lets the strategy run on, both legs are executed in full and
\* nothing was reversed: a strategy that is not paused holds a hedged pair.
RunsOnOnlyWhenHedged ==
    pc = "done" /\ ~outcome.paused /\ recalled = 0 =>
      \A b \in Brokers : order[b].exec = Qty(b) /\ order[Reversal(b)].exec = 0

\* When execute() stops with known CCF fills and raises no critical event, its
\* emergency orders really executed all of the fills it knew of.
ExposureIsReversedOrCritical ==
    pc = "done" /\ outcome.status # "filled" /\ report.ccf.fills > 0 /\ ~Critical =>
      /\ order.ccfX.exec = report.ccf.fills
      /\ recalled = 0 => order.umcX.exec = report.umc.fills

\* No order of the plan itself reaches Fubon before its attempt row is on disk,
\* where a killed process cannot lose it (_execute_leg commits, then calls).
IntentIsDurable == Placed("ccf") => attempt.ccf.disk = "submitting"

\* When the coordinator unwinds a filled CCF leg and reports nothing critical,
\* the UMC leg stays where it was: the unwind does not leave a reversed pair.
NoReversedPair ==
    pc = "done" /\ Placed("ccfX") /\ report.ccf.status = "filled" /\ ~Critical =>
      Net("umc") = 0

\* A finished unwind of a filled CCF leg puts both brokers back where they were.
UnwindRestoresPair ==
    pc = "done" /\ report.ccf.status = "filled" /\ outcome.status # "filled"
      /\ ~Critical /\ recalled = 0 => \A b \in Brokers : Pos(b) = start[b]

\* What the rest of the system may rely on: PairPromise, with what the plan has
\* moved, whether a third party traded, and how execute() ended.
Verdict == IF pc = "crashed" THEN "lost"
           ELSE IF pc # "done" THEN "working"
           ELSE IF outcome.paused THEN "paused" ELSE "hedged"

Promise == INSTANCE PairPromise WITH
             net <- [b \in Brokers |-> Net(b)],
             disturbed <- recalled > 0 /\ Buys("umc"),
             verdict <- Verdict

\* Every behaviour of the coordinator is one PairPromise allows.
KeepsPromise == Promise!Spec

=============================================================================
