------------------------- MODULE ContractCalendar -------------------------
(***************************************************************************)
(* The rollover calendar: core/contract_policy.py and core/calendar.py,    *)
(* driven by one bar loop that holds at most one pair.  Time is counted in *)
(* parts of a Taipei day.  The pair session of day d runs in the evening   *)
(* of d and in the small hours of d + 1; its last minutes are a part of    *)
(* their own, because a forced exit has to happen in them:                 *)
(*   Morning  from midnight until a few minutes before the session closes  *)
(*   LastMinutes  those few minutes (force_exit_grace_minutes)             *)
(*   Evening  from the open until midnight                                 *)
(* Day 0 is a Monday.                                                      *)
(***************************************************************************)
EXTENDS Integers, FiniteSets, FiniteSetsExt

CONSTANTS LastDay,           \* the days modelled are 0 .. LastDay
          Expiries,          \* last trading days of the contracts
          MinBusinessDays,   \* min_business_days_to_expiry
          ExitBusinessDays,  \* force_exit_business_days_before_expiry
          MaxClosed          \* bound on the exchange holidays of a behaviour

ASSUME CalendarAssumption ==
  /\ LastDay \in Nat
  /\ IsFiniteSet(Expiries) /\ Expiries \subseteq Nat
  /\ \E x \in Expiries : x > 2 * LastDay   \* a later month is always listed
  /\ MinBusinessDays \in Nat
  /\ ExitBusinessDays \in Nat
  /\ ExitBusinessDays < MinBusinessDays

VARIABLES holidays,  \* trading_calendar.closed_dates and contract_policy.holidays
          weekend,   \* weekend_policy: "none" or "flat"
          now,       \* the part of a day the clock is in
          month,     \* expiry of trading_ccf_symbol
          entered,   \* the part the open position was entered in, or NoPosition
          barDone    \* a bar of this part has been processed

calVars == <<holidays, weekend, now, month, entered, barDone>>

NoPosition == -1
Morning == 0
LastMinutes == 1
Evening == 2

Days == 0 .. LastDay
DayOf(t) == t \div 3
PartOf(t) == t % 3
Weekday(d) == d % 7
Week(d) == d \div 7
AtClose(d) == 3 * d + LastMinutes

IsBusinessDay(d) == Weekday(d) < 5 /\ d \notin holidays

BusinessDaysBetween(start, end) ==
  Cardinality({d \in start + 1 .. end : IsBusinessDay(d)})

\* The day that is `days` business days before the given one.
PreviousBusinessDay(d, days) ==
  IF days = 0 THEN d
  ELSE Max({e \in -14 .. d - 1 : Cardinality({f \in e .. d - 1 : IsBusinessDay(f)}) = days})

\* Close of the last US session that ends on or before day d; weekends walk
\* back, exchange holidays of either side do not.
PairSessionCloseOn(d) == AtClose(1 + Max({e \in d - 7 .. d - 1 : Weekday(e) < 5}))

\* Mutant: a business day too few, and no session looked for.
ForceExitDeadlineAtMidnight(expiry) ==
  AtClose(1 + PreviousBusinessDay(expiry, ExitBusinessDays - 1))

ForceExitDeadline(expiry) ==
  PairSessionCloseOn(PreviousBusinessDay(expiry, ExitBusinessDays))

ShouldForceExit(t, expiry) == t >= ForceExitDeadline(expiry)

\* Mutant: any contract that has not expired is far enough.
FarEnoughToday(d) == {x \in Expiries : d <= x}

\* Contracts with enough business days left.
FarEnough(d) == {x \in Expiries : BusinessDaysBetween(d, x) >= MinBusinessDays}

\* The contract the policy selects; it raises when none qualifies, and the
\* loop then keeps the one it has.
SelectActive(d) == IF FarEnough(d) = {} THEN month ELSE Min(FarEnough(d))

\* The day whose session the part belongs to.
SessionStart(t) == IF PartOf(t) = Evening THEN DayOf(t) ELSE DayOf(t) - 1

\* TAIFEX open and the US session open (live_session_status).
IsTrading(t) ==
  /\ DayOf(t) \notin holidays
  /\ IsBusinessDay(SessionStart(t))

CloseOnly(t) == Weekday(SessionStart(t)) = 4

EntryAllowed(t) == IsTrading(t) /\ ~(CloseOnly(t) /\ weekend = "flat")

\* In the last minutes of a session whose successor is in another ISO week.
\* The next US session ignores exchange holidays.
NextUmcSession(t) == Min({d \in DayOf(t) .. DayOf(t) + 7 : Weekday(d) < 5})

\* Mutant: only a Friday session is the last one of its week.
IsFridayForceExitBar(t) ==
  weekend = "flat" /\ IsTrading(t) /\ PartOf(t) = LastMinutes /\ Weekday(DayOf(t)) = 4

IsWeekendForceExitBar(t) ==
  /\ weekend = "flat"
  /\ IsTrading(t)
  /\ PartOf(t) = LastMinutes
  /\ Week(NextUmcSession(t)) # Week(DayOf(t))

MustExit(t) == ShouldForceExit(t, month) \/ IsWeekendForceExitBar(t)

Holding == entered # NoPosition

---------------------------------------------------------------------------

CalInit ==
  /\ holidays \in UNION {kSubset(n, {d \in Days \ Expiries : Weekday(d) < 5}) : n \in 0 .. MaxClosed}
  /\ weekend \in {"none", "flat"}
  /\ now = Evening
  /\ month = Min(Expiries)
  /\ entered = NoPosition
  /\ barDone = FALSE

\* Flat and another contract is eligible: the bar goes to the switch.
SwitchBar ==
  /\ IsTrading(now)
  /\ ~Holding
  /\ SelectActive(DayOf(now)) # month
  /\ month' = SelectActive(DayOf(now))
  /\ barDone' = TRUE
  /\ UNCHANGED <<holidays, weekend, now, entered>>

\* A position that has to go, goes; the contract follows once it is flat.
ForcedExitBar ==
  /\ IsTrading(now)
  /\ Holding
  /\ MustExit(now)
  /\ entered' = NoPosition
  /\ month' = SelectActive(DayOf(now))
  /\ barDone' = TRUE
  /\ UNCHANGED <<holidays, weekend, now>>

\* Any other bar: the signal decides.
SignalBar ==
  /\ IsTrading(now)
  /\ \/ Holding /\ ~MustExit(now)
     \/ ~Holding /\ SelectActive(DayOf(now)) = month
  /\ barDone' = TRUE
  /\ \/ UNCHANGED <<month, entered>>
     \/ /\ ~Holding
        /\ EntryAllowed(now)
        /\ entered' = now
        /\ UNCHANGED month
     \/ /\ Holding
        /\ entered' = NoPosition
        /\ month' = SelectActive(DayOf(now))
  /\ UNCHANGED <<holidays, weekend, now>>

\* Time passes; a trading part does not pass without a bar.
NextPart ==
  /\ now < 3 * LastDay + Evening
  /\ IsTrading(now) => barDone
  /\ now' = now + 1
  /\ barDone' = FALSE
  /\ UNCHANGED <<holidays, weekend, month, entered>>

CalNext == SwitchBar \/ ForcedExitBar \/ SignalBar \/ NextPart

CalSpec == CalInit /\ [][CalNext]_calVars

---------------------------------------------------------------------------

CalTypeOK ==
  /\ holidays \subseteq Days \ Expiries
  /\ weekend \in {"none", "flat"} /\ barDone \in BOOLEAN
  /\ now \in Evening .. 3 * LastDay + Evening
  /\ month \in Expiries /\ entered \in {NoPosition} \cup Evening .. now

\* No position is carried into the evening of its contract's last trading
\* day, whatever the holidays around it are (force_exit_deadline).
NeverHeldIntoExpiry == Holding => now < 3 * month + Evening

\* The selection rolls before the deadline, so that no entry is made in a
\* contract that has to be left already (select_active against
\* should_force_exit).
EntersNothingDue == [][~Holding /\ Holding' => ~ShouldForceExit(now, month)]_calVars

\* Under the weekend policy "flat" no position of one week is there in the
\* next one's session.  The code names its one exception, a holiday on the
\* Friday itself (is_weekend_force_exit_bar, known limitation).
FridayClosed(d) == Weekday(d) = 4 /\ d \in holidays
FlatOverTheWeekend ==
  (weekend = "flat" /\ Holding /\ IsTrading(now)
     /\ ~\E d \in DayOf(entered) .. DayOf(now) : FridayClosed(d))
  => Week(SessionStart(entered)) = Week(SessionStart(now))
=============================================================================
