---------------------------- MODULE MinuteBars ----------------------------
(***************************************************************************)
(* Minute bars and what may be decided on them: market_data/minute_bar.py, *)
(* core/tradable_spread.py and the warmup seed of market_data/warmup.py.   *)
(* Prices are abstracted to the contract they belong to and their age.     *)
(***************************************************************************)
EXTENDS CcfFeed

CONSTANTS Stale,        \* stale_seconds, in polls
          ForwardFill,  \* ccf_forward_fill_max_seconds, in minutes
          Window,       \* minutes of a warmup window
          MaxTrailing,  \* warmup_ccf_max_trailing_fill_minutes
          MaxLag        \* MAX_TRAILING_VENDOR_LAG_BARS

ASSUME BarsAssumption ==
  /\ Stale \in Nat /\ Stale < BookStale
  /\ ForwardFill \in Nat
  /\ Window \in Nat \ {0} /\ MaxTrailing \in Nat /\ MaxLag \in Nat

AtLeast(m, n) == IF m < n THEN n ELSE m

\* A carried close: whose, how many minutes the builder thinks it is carried,
\* and for how many it has been.  All that are too old are one.  `live` is kept
\* for the properties: the price came from a quote, not from the warmup.
Unseen == AtLeast(0, AtLeast(MaxTrailing - 1, Window - 3))   \* what a seed's stamp can hide
MaxWas == ForwardFill + Unseen + 1
Closes == [of : Contracts, age : 0 .. ForwardFill + 1, was : 0 .. MaxWas, live : BOOLEAN]
TooOld(k) == [k EXCEPT !.age = ForwardFill + 1, !.was = MaxWas]
Carried(k) == IF k.age > ForwardFill THEN TooOld(k) ELSE k
MinuteLater(k) == Carried([k EXCEPT !.age = @ + 1, !.was = @ + 1])

\* A warmup window is the minutes that have a CCF price of their own and those
\* without a UMC or FX price.
Minutes == 1 .. Window

\* Minutes missing at the end are the vendor's lag, and are trimmed.
VendorLag(missing) == Cardinality({m \in Minutes : m .. Window \subseteq missing})

\* The CCF report: filled minutes at the end, before the trimming.
TrailingFillFits(actual) == \E m \in actual : Window - m <= MaxTrailing

\* What is refused: no CCF price, a feed silent for too long, a gap that is not
\* at the end, more than lag.
Acceptable(actual, missing) ==
  /\ TrailingFillFits(actual)
  /\ missing = Window - VendorLag(missing) + 1 .. Window
  /\ VendorLag(missing) <= MaxLag

\* The last minute with a price of its own in what is kept.  The forward-fill
\* ratio leaves one there.
LastActual(actual, missing) ==
  LET kept == {m \in actual : m <= Window - VendorLag(missing)}
  IN  {m \in kept : \A n \in kept : n <= m}

\* The seed counts from the start of its last bar, filled or not.
SeedClose(c, m, lag) ==
  Carried([of |-> c, age |-> lag + 1, was |-> Window - m, live |-> FALSE])

SeedsOf(c, actual, missing) ==
  IF Acceptable(actual, missing)
  THEN {SeedClose(c, m, VendorLag(missing)) : m \in LastActual(actual, missing)} ELSE {}

\* What the loop can be seeded with for a contract.
WarmupSeeds ==
  [c \in Contracts |->
    UNION {SeedsOf(c, actual, missing) : actual \in SUBSET Minutes, missing \in SUBSET Minutes}]

\* build_live_minute_builder: a builder on the seed, with no minute begun.
Seeded(seed) == [minute |-> "none", quote |-> {}, close |-> seed]

\* minute: none, the one the clock is in, or one that is over.
Builders == [minute : {"none", "this", "past"},
             quote  : UNION {{{}}, {{q} : q \in Quotes}},
             close  : Closes]

\* _update_current_quotes in a minute that has begun.
Collect(b, q) == [b EXCEPT !.minute = "this", !.quote = {q}]

FreshClose(b) == \E q \in b.quote : q.age <= Stale

\* _finalize_current_minute: another leg is stale, the two legs are priced
\* from different moments, or the carried price is too old; else the bar has
\* the fresh close or the carried one.  The fresh close is remembered first.
Remembered(b) ==
  IF FreshClose(b)
  THEN [of |-> (CHOOSE q \in b.quote : TRUE).of, age |-> 0, was |-> 0, live |-> TRUE]
  ELSE b.close

\* Mutant: a fresh close of another leg lifts the ceiling on the carried one.
SkipsUnlessOthersFresh(b, othersFresh, skewed) ==
  ~othersFresh \/ (FreshClose(b) /\ skewed)

Skips(b, othersFresh, skewed) ==
  \/ ~othersFresh
  \/ FreshClose(b) /\ skewed
  \/ Remembered(b).age > ForwardFill

AfterFinalize(b, othersFresh, skewed) ==
  IF ~othersFresh \/ (FreshClose(b) /\ skewed) THEN b.close ELSE Remembered(b)

\* A bar, with the quotes its decision is taken from.
Bars == [close : Closes, quote : Quotes]

\* estimate_directional_spread finds a CCF book young enough.
FreshBook(q) == q.book /\ q.age <= BookStale

Decidable(bar) == FreshBook(bar.quote)
=============================================================================
