---------------------------- MODULE PairStrategy ----------------------------
(***************************************************************************)
(* The strategy of core/strategy.py with its books, driven bar by bar in   *)
(* the two ways that send no order: the replay (runner.py), where a signal *)
(* fills at the next bar that allows it, and the live dry run              *)
(* (runtime/live/modes.py, execution/outcome.py), where it fills in its    *)
(* own bar or the plan is refused.  A bar and what it wrote are committed  *)
(* together.  z is the z-score against the thresholds: 2 beyond entry_z,   *)
(* 1 beyond exit_z, 0 within or invalid.                                   *)
(***************************************************************************)
EXTENDS Integers

CONSTANTS MaxDelay,  \* max_entry_delay_minutes
          LastRow    \* bars of the data

ASSUME StrategyAssumption == MaxDelay \in Nat /\ LastRow \in Nat

VARIABLES
    mode,      \* replay or dry
    strategy,  \* StrategyRuntimeState
    filled,    \* pairs bought less pairs sold in the recorded fills
    booked,    \* net_pnl_twd of the recorded trades, summed
    row        \* bars processed; LastRow + 1 once the run is over

pairVars == <<mode, strategy, filled, booked, row>>

States == {"FLAT", "ENTRY_PENDING", "OPEN", "EXIT_PENDING", "PAUSED", "ERROR", "FORCED_CLOSED"}

\* The bar and what it finds: the minutes since the last one, the windows of
\* the calendar, the z-score, the price move since the entry and whether the
\* leg notional makes a whole contract.
BarInputs == [minutes : 1..2, entry : BOOLEAN, close : BOOLEAN, friday : BOOLEAN,
              z : -2..2, gross : {-2, 3}, sized : BOOLEAN]

FlatState == [st |-> "FLAT", direction |-> 0, candidate |-> 0, waited |-> 0,
              entryFee |-> 0, realized |-> 0]

PairInit ==
    /\ mode \in {"replay", "dry"}
    /\ strategy = FlatState
    /\ filled = 0 /\ booked = 0 /\ row = 0

\* Fees of an entry and of an exit.
EntryFee == 1
ExitFee == 1

-----------------------------------------------------------------------------
(* What a bar does, on a ledger of the state, the fills and the trades *)

\* _clear_candidate
Cleared(s) == [s EXCEPT !.candidate = 0, !.waited = 0]

Cancelled(l) == [l EXCEPT !.s = [Cleared(@) EXCEPT !.st = "FLAT"]]

\* apply_entry_execution
Entered(l) ==
    [l EXCEPT !.s = [Cleared(l.s) EXCEPT !.st = "OPEN",
                                         !.direction = l.s.candidate,
                                         !.entryFee = EntryFee,
                                         !.realized = @ - EntryFee],
              !.filled = @ + l.s.candidate]

\* Mutant: the entry fee is charged to the trade and to the account again.
ExitedTwiceCharged(l, gross) ==
    [s      |-> [l.s EXCEPT !.st = "FLAT", !.direction = 0, !.entryFee = 0,
                            !.realized = @ + gross - ExitFee - l.s.entryFee],
     filled |-> l.filled - l.s.direction,
     booked |-> l.booked + gross - l.s.entryFee - ExitFee]

\* apply_exit_execution: the trade carries both fees, realized_pnl the rest.
Exited(l, gross) ==
    [s      |-> [l.s EXCEPT !.st = "FLAT", !.direction = 0, !.entryFee = 0,
                            !.realized = @ + gross - ExitFee],
     filled |-> l.filled - l.s.direction,
     booked |-> l.booked + gross - l.s.entryFee - ExitFee]

\* _fill_exit without a position ends in ERROR.
FillExit(l, gross) ==
    IF l.s.direction = 0 THEN [l EXCEPT !.s.st = "ERROR"] ELSE Exited(l, gross)

\* _fill_entry
FillEntry(l, b) == IF b.sized THEN Entered(l) ELSE Cancelled(l)

\* entry_direction and should_exit.
EntryDirection(z) == IF z = 2 THEN -1 ELSE IF z = -2 THEN 1 ELSE 0
ShouldExit(z, direction) == z * direction > 0

\* The signals of on_bar, for a bar that filled nothing.
Signalled(l, b) ==
    IF l.s.st = "FLAT" /\ b.entry /\ EntryDirection(b.z) # 0
    THEN [l EXCEPT !.s.st = "ENTRY_PENDING", !.s.candidate = EntryDirection(b.z)]
    ELSE IF l.s.st = "OPEN" /\ b.close /\ b.friday THEN FillExit(l, b.gross)
    ELSE IF l.s.st = "OPEN" /\ b.close /\ ShouldExit(b.z, l.s.direction)
    THEN [l EXCEPT !.s.st = "EXIT_PENDING"]
    ELSE l

\* on_bar.  An entry that comes too late is cancelled, and the same bar may
\* signal again.
OnBar(l, b) ==
    IF l.s.st = "ENTRY_PENDING" /\ b.entry
    THEN IF l.s.waited <= MaxDelay THEN FillEntry(l, b) ELSE Signalled(Cancelled(l), b)
    ELSE IF l.s.st = "EXIT_PENDING" /\ b.close THEN FillExit(l, b.gross)
    ELSE Signalled(l, b)

\* execute_dry_run_entry: cancelled, filled, or a plan that was refused.
DryEntry(l, b, accepted) ==
    IF l.s.waited > MaxDelay \/ ~b.sized THEN Cancelled(l)
    ELSE IF accepted THEN Entered(l)
    ELSE [l EXCEPT !.s = [Cleared(@) EXCEPT !.st = "PAUSED"]]

\* execute_dry_run_exit: a refused plan leaves the position, paused.
DryExit(l, b, accepted) ==
    IF l.s.direction = 0 \/ accepted THEN FillExit(l, b.gross)
    ELSE [l EXCEPT !.s.st = "PAUSED"]

\* DryRunLiveModeHandler.handle_bar: a forced exit first, then what is
\* pending, then the signal and its fill in the same bar.
DryBar(l, b, forced, accepted) ==
    LET signal == OnBar(l, b)
    IN  IF forced \/ l.s.st = "EXIT_PENDING" THEN DryExit(l, b, accepted)
        ELSE IF l.s.st = "ENTRY_PENDING" THEN DryEntry(l, b, accepted)
        ELSE IF signal.s.st = "ENTRY_PENDING" THEN DryEntry(signal, b, accepted)
        ELSE IF signal.s.st = "EXIT_PENDING" THEN DryExit(signal, b, accepted)
        ELSE signal

-----------------------------------------------------------------------------

\* The ledger at the bar: a pending entry has waited longer.
AtBar(b) ==
    [s      |-> IF strategy.st # "ENTRY_PENDING" THEN strategy
                ELSE [strategy EXCEPT !.waited =
                        IF @ + b.minutes > MaxDelay THEN MaxDelay + 1 ELSE @ + b.minutes],
     filled |-> filled,
     booked |-> booked]

Commit(l) == strategy' = l.s /\ filled' = l.filled /\ booked' = l.booked

\* A bar of the replay.
ReplayBar ==
    /\ mode = "replay" /\ row < LastRow
    /\ \E b \in BarInputs : Commit(OnBar(AtBar(b), b))
    /\ row' = row + 1
    /\ UNCHANGED mode

\* finalize, unless the run ends before it: a resumed run that has no bars
\* left to process does not come back here.
Finalize ==
    /\ mode = "replay" /\ row = LastRow
    /\ \E gross \in {-2, 3} :
        Commit(IF strategy.st = "ENTRY_PENDING" THEN Cancelled(AtBar([minutes |-> 1]))
               ELSE IF strategy.direction = 0 THEN AtBar([minutes |-> 1])
               ELSE [FillExit(AtBar([minutes |-> 1]), gross) EXCEPT !.s.st = "FORCED_CLOSED"])
    /\ row' = LastRow + 1
    /\ UNCHANGED mode

\* A bar of the dry run; resolve_force_exit_reason looks at the position only.
DryRunBar ==
    /\ mode = "dry" /\ row < LastRow
    /\ \E b \in BarInputs, forced, accepted \in BOOLEAN :
        /\ forced => strategy.direction # 0
        /\ Commit(DryBar(AtBar(b), b, forced, accepted))
    /\ row' = row + 1
    /\ UNCHANGED mode

PairNext == ReplayBar \/ Finalize \/ DryRunBar

PairSpec == PairInit /\ [][PairNext]_pairVars

-----------------------------------------------------------------------------

PairTypeOK ==
    /\ mode \in {"replay", "dry"} /\ row \in 0..LastRow + 1
    /\ strategy \in [st : States, direction : -1..1, candidate : -1..1,
                     waited : 0..MaxDelay + 1, entryFee : {0, EntryFee}, realized : Int]
    /\ filled \in Int /\ booked \in Int

\* What the store recorded adds up to what the strategy believes: the fills to
\* its position, the trades and the open entry to realized_pnl, and its state
\* to having a position; and no path of bars ends in ERROR, through late,
\* refused and forced fills and an entry signalled where one was cancelled.
BooksMatchPosition ==
    /\ filled = strategy.direction
    /\ strategy.realized = booked - strategy.entryFee
    /\ strategy.st \in {"OPEN", "EXIT_PENDING"} => strategy.direction # 0
    /\ strategy.st \in {"FLAT", "ENTRY_PENDING", "FORCED_CLOSED"} => strategy.direction = 0
    /\ strategy.st = "ENTRY_PENDING" <=> strategy.candidate # 0
    /\ strategy.st # "ERROR"
=============================================================================
