--------------------------- MODULE RolloverProofs ---------------------------
(***************************************************************************)
(* The live loop around its contract, proved: loop, strategy, warmup, feed *)
(* and order session stay on one contract, an open position is in it, and  *)
(* no bar carries a CCF price past its ceiling.  For every set of          *)
(* contracts and every length of window, fill and lag.                     *)
(***************************************************************************)
EXTENDS Rollover, FiniteSetTheorems, TLAPS

-----------------------------------------------------------------------------
(* The feed *)

MaybeQuote == {{}} \cup {{q} : q \in Quotes}

\* A feed that is subscribed to one contract, or to none.
OnlyFor(f, c) == f \in FeedStates /\ f.subscribed \subseteq {c}

LEMMA AgesMove ==
    /\ \A a \in Ages : Older(a) \in Ages
    /\ \A a \in 0 .. BookStale \cup {NoBook} : OlderBook(a) \in 0 .. BookStale \cup {NoBook}
    /\ 0 .. BookStale \subseteq Ages /\ RestAges \subseteq Ages /\ 0 \in 0 .. BookStale
BY FeedAssumption DEF Ages, MaxAge, Older, OlderBook, NoBook

LEMMA FeedIsDown == FeedDown \in FeedStates /\ FeedDown.subscribed = {}
BY DEF FeedDown, FeedStates

LEMMA EnsureGives ==
    ASSUME NEW f \in FeedStates, NEW c \in Contracts, NEW g \in EnsureBooks(f, c)
    PROVE  g \in FeedStates /\ g.subscribed \subseteq f.subscribed \cup {c}
<1>1. CASE c \in f.subscribed
  BY <1>1 DEF EnsureBooks
<1>2. CASE g \in {f, [f EXCEPT !.connected = TRUE]}
  BY <1>2 DEF FeedStates
<1>3. CASE g \in {[FeedDown EXCEPT !.subscribed = {c}]}
  <2>1. g = [connected |-> FALSE, subscribed |-> {c}, listening |-> {},
             book |-> [d \in Contracts |-> NoBook]]
    BY <1>3 DEF FeedDown
  <2>2. [d \in Contracts |-> NoBook] \in [Contracts -> 0 .. BookStale \cup {NoBook}]
    OBVIOUS
  <2> QED BY <2>1, <2>2 DEF FeedStates
<1>4. ASSUME NEW l \in SUBSET Contracts,
             g = [f EXCEPT !.connected = TRUE, !.subscribed = @ \cup {c}, !.listening = l]
      PROVE  g \in FeedStates /\ g.subscribed \subseteq f.subscribed \cup {c}
  <2>1. f.subscribed \cup {c} \in SUBSET Contracts
    BY DEF FeedStates
  <2>2. g = [connected |-> TRUE, subscribed |-> f.subscribed \cup {c}, listening |-> l,
             book |-> f.book]
    BY <1>4 DEF FeedStates
  <2> QED BY <2>1, <2>2 DEF FeedStates
<1>5. f.listening \in SUBSET Contracts /\ f.listening \cup {c} \in SUBSET Contracts
  BY DEF FeedStates
<1> QED BY <1>1, <1>2, <1>3, <1>4, <1>5 DEF EnsureBooks

LEMMA EnsureOnly ==
    ASSUME NEW c \in Contracts, NEW f, OnlyFor(f, c), NEW g \in EnsureBooks(f, c)
    PROVE  OnlyFor(g, c)
BY EnsureGives DEF OnlyFor

LEMMA RestartOnly ==
    ASSUME NEW f, NEW c \in Contracts, NEW g \in RestartBooks(f, c)
    PROVE  OnlyFor(g, c)
BY FeedIsDown, EnsureOnly DEF RestartBooks, Teardown, OnlyFor

LEMMA ForgottenIsNone ==
    ASSUME NEW c \in Contracts, NEW f, OnlyFor(f, c), NEW g \in Unsubscribe(f, c)
    PROVE  g \in FeedStates /\ g.subscribed = {}
<1>1. CASE c \notin f.subscribed
  BY <1>1 DEF Unsubscribe, OnlyFor
<1>2. CASE c \in f.subscribed
  <2>0. f \in FeedStates
    BY DEF OnlyFor
  <2>1. ASSUME NEW h, h = [f EXCEPT !.subscribed = @ \ {c}, !.book = [f.book EXCEPT ![c] = NoBook]]
        PROVE  h \in FeedStates /\ h.subscribed = {}
    <3>1. [f.book EXCEPT ![c] = NoBook] \in [Contracts -> 0 .. BookStale \cup {NoBook}]
      BY <2>0 DEF FeedStates
    <3>2. h = [connected |-> f.connected, subscribed |-> f.subscribed \ {c},
               listening |-> f.listening, book |-> [f.book EXCEPT ![c] = NoBook]]
      BY <2>0, <2>1 DEF FeedStates
    <3> QED BY <2>0, <3>1, <3>2 DEF OnlyFor, FeedStates
  <2>2. PICK h : /\ h = [f EXCEPT !.subscribed = @ \ {c}, !.book = [f.book EXCEPT ![c] = NoBook]]
                 /\ g \in {h, [h EXCEPT !.listening = @ \ {c}]}
    BY <1>2 DEF Unsubscribe
  <2> QED BY <2>1, <2>2 DEF FeedStates
<1> QED BY <1>1, <1>2

LEMMA ArriveKeeps ==
    ASSUME NEW f \in FeedStates, NEW c \in Contracts
    PROVE  Arrive(f, c) \in FeedStates /\ Arrive(f, c).subscribed = f.subscribed
<1>1. [f.book EXCEPT ![c] = 0] \in [Contracts -> 0 .. BookStale \cup {NoBook}]
  BY AgesMove DEF FeedStates
<1>2. Arrive(f, c) = [connected |-> f.connected, subscribed |-> f.subscribed,
                      listening |-> f.listening, book |-> [f.book EXCEPT ![c] = 0]]
  BY DEF Arrive, FeedStates
<1> QED BY <1>1, <1>2 DEF FeedStates

LEMMA AgingKeeps ==
    ASSUME NEW f \in FeedStates
    PROVE  AgeBooks(f) \in FeedStates /\ AgeBooks(f).subscribed = f.subscribed
<1>1. [c \in Contracts |-> OlderBook(f.book[c])] \in [Contracts -> 0 .. BookStale \cup {NoBook}]
  BY AgesMove DEF FeedStates
<1>2. AgeBooks(f) = [connected |-> f.connected, subscribed |-> f.subscribed,
                     listening |-> f.listening, book |-> [c \in Contracts |-> OlderBook(f.book[c])]]
  BY DEF AgeBooks, FeedStates
<1> QED BY <1>1, <1>2 DEF FeedStates

\* What a fetch leaves, and what it gives.
LEMMA FetchGives ==
    ASSUME NEW c \in Contracts, NEW f, OnlyFor(f, c), NEW r \in FetchQuote(f, c)
    PROVE  OnlyFor(r[1], c) /\ r[2] \in MaybeQuote
<1>1. PICK g \in EnsureBooks(f, c) :
        r \in IF BookIsCurrent(g, c) THEN {<<g, {[of |-> c, book |-> TRUE, age |-> g.book[c]]}>>}
              ELSE AwaitQuote(g, c)
  BY DEF FetchQuote
<1>2. OnlyFor(g, c)
  BY EnsureOnly
<1>3. \A b \in BOOLEAN, a \in Ages : {[of |-> c, book |-> b, age |-> a]} \in MaybeQuote
  BY DEF MaybeQuote, Quotes
<1>4. {} \in MaybeQuote
  BY DEF MaybeQuote
<1>5. CASE BookIsCurrent(g, c)
  <2>1. g.book[c] \in Ages
    BY <1>2, <1>5, AgesMove DEF BookIsCurrent, OnlyFor, FeedStates
  <2>2. r[1] = g /\ r[2] = {[of |-> c, book |-> TRUE, age |-> g.book[c]]}
    BY <1>1, <1>5
  <2> QED BY <1>2, <1>3, <2>1, <2>2
<1>6. CASE ~BookIsCurrent(g, c)
  <2>1. r \in AwaitQuote(g, c)
    BY <1>1, <1>6
  <2>2. CASE r = <<g, {}>>
    BY <1>2, <1>4, <2>2
  <2>3. ASSUME NEW a \in RestAges, r = <<g, {[of |-> c, book |-> FALSE, age |-> a]}>>
        PROVE  OnlyFor(r[1], c) /\ r[2] \in MaybeQuote
    BY <1>2, <1>3, <2>3, AgesMove
  <2>4. CASE r = <<Arrive(g, c), {[of |-> c, book |-> TRUE, age |-> 0]}>>
    BY <1>2, <1>3, <2>4, AgesMove, ArriveKeeps DEF OnlyFor
  <2> QED BY <2>1, <2>2, <2>3, <2>4 DEF AwaitQuote
<1> QED BY <1>5, <1>6

-----------------------------------------------------------------------------
(* Carried prices *)

\* A close that is not given up is stamped with its age if a quote gave it, and no
\* younger than what it can hide if the warmup did.
Honest(k) == k \in Closes /\ (k.age <= ForwardFill => k.was <= k.age + HiddenFill(k))

LEMMA UnseenType ==
    /\ Unseen \in Nat /\ MaxTrailing - 1 <= Unseen /\ Window - 3 <= Unseen
    /\ MaxWas = ForwardFill + Unseen + 1 /\ ForwardFill \in Nat
    /\ \A k : HiddenFill(k) \in Nat /\ HiddenFill(k) <= Unseen
BY BarsAssumption DEF Unseen, AtLeast, MaxWas, HiddenFill

LEMMA CarriedHonest ==
    ASSUME NEW c \in Contracts, NEW a \in Nat, NEW w \in Nat, NEW v \in BOOLEAN,
           NEW k, k = [of |-> c, age |-> a, was |-> w, live |-> v],
           a <= ForwardFill => w <= a + HiddenFill(k)
    PROVE  Honest(Carried(k))
<1>1. CASE a > ForwardFill
  <2>1. Carried(k) = [of |-> c, age |-> ForwardFill + 1, was |-> MaxWas, live |-> v]
    BY <1>1 DEF Carried, TooOld
  <2>2. ForwardFill + 1 \in 0 .. ForwardFill + 1 /\ MaxWas \in 0 .. MaxWas
        /\ ~(ForwardFill + 1 <= ForwardFill)
    BY UnseenType
  <2> QED BY <2>1, <2>2 DEF Honest, Closes
<1>2. CASE ~(a > ForwardFill)
  <2>1. Carried(k) = k
    BY <1>2 DEF Carried
  <2>2. a \in 0 .. ForwardFill + 1 /\ w <= a + HiddenFill(k) /\ w \in 0 .. MaxWas
    BY <1>2, UnseenType
  <2> QED BY <2>1, <2>2 DEF Honest, Closes
<1> QED BY <1>1, <1>2

\* A close is the record of its four fields.
LEMMA CloseFields ==
    ASSUME NEW k \in Closes
    PROVE  \E c \in Contracts, a \in 0 .. ForwardFill + 1, w \in 0 .. MaxWas, v \in BOOLEAN :
               k = [of |-> c, age |-> a, was |-> w, live |-> v]
BY DEF Closes

LEMMA TooOldFields ==
    ASSUME NEW c, NEW a, NEW w, NEW v, NEW k, k = [of |-> c, age |-> a, was |-> w, live |-> v],
           NEW l, l = TooOld(k)
    PROVE  l = [of |-> c, age |-> ForwardFill + 1, was |-> MaxWas, live |-> v]
BY Zenon DEF TooOld

LEMMA LaterFields ==
    ASSUME NEW c, NEW a, NEW w, NEW v, NEW k, k = [of |-> c, age |-> a, was |-> w, live |-> v]
    PROVE  MinuteLater(k) = Carried([of |-> c, age |-> a + 1, was |-> w + 1, live |-> v])
<1>1. SUFFICES ASSUME NEW l, l = [k EXCEPT !.age = @ + 1, !.was = @ + 1]
               PROVE  Carried(l) = Carried([of |-> c, age |-> a + 1, was |-> w + 1, live |-> v])
  BY Zenon DEF MinuteLater
<1>2. k.age = a /\ k.was = w
  OBVIOUS
<1>3. l = [of |-> c, age |-> a + 1, was |-> w + 1, live |-> v]
  BY Zenon, <1>1, <1>2
<1> QED BY Zenon, <1>3

LEMMA GivenUpHonest == ASSUME NEW k, Honest(k) PROVE Honest(TooOld(k))
<1>1. PICK c \in Contracts, a \in 0 .. ForwardFill + 1, w \in 0 .. MaxWas, v \in BOOLEAN :
          k = [of |-> c, age |-> a, was |-> w, live |-> v]
  BY CloseFields DEF Honest
<1>2. TooOld(k) = [of |-> c, age |-> ForwardFill + 1, was |-> MaxWas, live |-> v]
  BY <1>1, TooOldFields
<1>3. ForwardFill + 1 \in 0 .. ForwardFill + 1 /\ MaxWas \in 0 .. MaxWas
      /\ ~(ForwardFill + 1 <= ForwardFill)
  BY UnseenType
<1> QED BY <1>2, <1>3 DEF Honest, Closes

LEMMA LaterHonest == ASSUME NEW k, Honest(k) PROVE Honest(MinuteLater(k))
<1>1. PICK c \in Contracts, a \in 0 .. ForwardFill + 1, w \in 0 .. MaxWas, v \in BOOLEAN :
          k = [of |-> c, age |-> a, was |-> w, live |-> v]
  BY CloseFields DEF Honest
<1> DEFINE l == [of |-> c, age |-> a + 1, was |-> w + 1, live |-> v]
<1>2. MinuteLater(k) = Carried(l)
  BY <1>1, LaterFields
<1>3. k.age = a /\ k.was = w /\ HiddenFill(l) = HiddenFill(k)
  BY <1>1 DEF HiddenFill
<1>4. a + 1 \in Nat /\ w + 1 \in Nat
      /\ (a + 1 <= ForwardFill => w + 1 <= a + 1 + HiddenFill(l))
  BY <1>1, <1>3, UnseenType DEF Honest
<1> HIDE DEF l
<1>5. l = [of |-> c, age |-> a + 1, was |-> w + 1, live |-> v]
  BY DEF l
<1> QED BY <1>2, <1>4, <1>5, CarriedHonest

LEMMA LagType == ASSUME NEW missing PROVE VendorLag(missing) \in Nat
<1>1. IsFiniteSet(Minutes)
  BY BarsAssumption, FS_Interval DEF Minutes
<1>2. IsFiniteSet({m \in Minutes : m .. Window \subseteq missing})
  BY <1>1, FS_Subset, {m \in Minutes : m .. Window \subseteq missing} \subseteq Minutes
<1> QED BY <1>2, FS_CardinalityType DEF VendorLag

\* A seed's stamp hides no more than Unseen: the fill at the end of the window is
\* bounded when nothing is trimmed, and by the window when something is.
LEMMA SeedsHonest ==
    ASSUME NEW c \in Contracts, NEW s \in WarmupSeeds[c]
    PROVE  Honest(s)
<1>1. PICK actual \in SUBSET Minutes, missing \in SUBSET Minutes : s \in SeedsOf(c, actual, missing)
  BY DEF WarmupSeeds
<1> DEFINE lag == VendorLag(missing)
<1>2. Acceptable(actual, missing)
      /\ \E m \in LastActual(actual, missing) : s = SeedClose(c, m, lag)
  BY <1>1 DEF SeedsOf
<1>3. PICK m \in LastActual(actual, missing) : s = SeedClose(c, m, lag)
  BY <1>2
<1>4. lag \in Nat
  BY LagType
<1> HIDE DEF lag
<1>5. m \in Minutes /\ m <= Window - lag /\ \A n \in actual : n <= Window - lag => n <= m
  BY <1>3 DEF LastActual, lag
<1>6. PICK p \in actual : Window - p <= MaxTrailing
  BY <1>2 DEF Acceptable, TrailingFillFits
<1>7. m \in Int /\ 1 <= m /\ m <= Window /\ p \in Int /\ p <= Window /\ Window \in Nat
      /\ MaxTrailing \in Nat
  BY <1>5, <1>6, BarsAssumption DEF Minutes
<1>8. Window - m \in Nat
  BY <1>7
<1>9. Window - m <= lag + 1 + Unseen
  <2>1. CASE lag = 0
    <3>1. p <= m
      BY <1>5, <1>6, <1>7, <2>1
    <3> QED BY <1>6, <1>7, <2>1, <3>1, UnseenType
  <2>2. CASE lag # 0
    <3>1. lag >= 1 /\ Window - m <= Window - 1
      BY <1>4, <1>7, <2>2
    <3> QED BY <1>4, <1>7, <3>1, UnseenType
  <2> QED BY <2>1, <2>2
<1>10. lag + 1 \in Nat
  BY <1>4
<1>11. \A k : k = [of |-> c, age |-> lag + 1, was |-> Window - m, live |-> FALSE]
             => Honest(Carried(k))
  <2> SUFFICES ASSUME NEW k, k = [of |-> c, age |-> lag + 1, was |-> Window - m, live |-> FALSE]
               PROVE  Honest(Carried(k))
    OBVIOUS
  <2>1. HiddenFill(k) = Unseen
    BY DEF HiddenFill
  <2> QED BY <1>8, <1>9, <1>10, <2>1, CarriedHonest
<1> QED BY <1>3, <1>11 DEF SeedClose

\* A complete window is a seed for any contract.
LEMMA SomeSeed == ASSUME NEW c \in Contracts PROVE WarmupSeeds[c] # {}
<1>1. Window \in Minutes
  BY BarsAssumption DEF Minutes
<1>2. {m \in Minutes : m .. Window \subseteq {}} = {}
  <2>1. \A m \in Minutes : m \in m .. Window
    BY BarsAssumption DEF Minutes
  <2> QED BY <2>1
<1>3. VendorLag({}) = 0
  BY <1>2, FS_EmptySet DEF VendorLag
<1>4. Window - VendorLag({}) = Window /\ (Window - VendorLag({})) + 1 .. Window = {}
  BY <1>3, BarsAssumption
<1>5. Acceptable(Minutes, {})
  BY <1>1, <1>3, <1>4, BarsAssumption DEF Acceptable, TrailingFillFits
<1>6. Window \in LastActual(Minutes, {})
  BY <1>1, <1>4, BarsAssumption DEF LastActual, Minutes
<1>7. SeedClose(c, Window, VendorLag({})) \in SeedsOf(c, Minutes, {})
  BY <1>5, <1>6 DEF SeedsOf
<1> QED BY <1>7 DEF WarmupSeeds

-----------------------------------------------------------------------------
(* The builder and its bars *)

Shaped == [minute : {"none", "this", "past"}, quote : MaybeQuote, close : Closes]

\* A builder whose carried price is stamped honestly.
Sound(b) == b \in Shaped /\ Honest(b.close)

MaybeBar == {{}} \cup {{b} : b \in Bars}

LEMMA BuildersShaped == Builders = Shaped
<1>1. UNION {{{}}, {{q} : q \in Quotes}} = MaybeQuote
  BY DEF MaybeQuote
<1> QED BY <1>1 DEF Builders, Shaped

LEMMA SeededSound == ASSUME NEW k, Honest(k) PROVE Sound(Seeded(k))
BY DEF Honest, Seeded, Sound, Shaped, MaybeQuote

LEMMA SeedSound == ASSUME NEW c \in Contracts, NEW s \in WarmupSeeds[c] PROVE Sound(Seeded(s))
BY SeedsHonest, SeededSound

LEMMA LaterSeedSound == ASSUME NEW c \in Contracts, NEW s \in WarmupSeeds[c]
                        PROVE  Sound(Seeded(MinuteLater(s)))
BY SeedsHonest, LaterHonest, SeededSound

LEMMA NoBuilderSound == Sound(NoBuilder)
<1>1. First \in Contracts
  BY FeedAssumption DEF First
<1>2. (CHOOSE s \in WarmupSeeds[First] : TRUE) \in WarmupSeeds[First]
  BY <1>1, SomeSeed
<1> QED BY <1>1, <1>2, SeedSound DEF NoBuilder

LEMMA QuotesAge == ASSUME NEW m \in MaybeQuote
                   PROVE  {[q EXCEPT !.age = Older(@)] : q \in m} \in MaybeQuote
<1>1. CASE m = {}
  BY <1>1 DEF MaybeQuote
<1>2. ASSUME NEW q \in Quotes, m = {q} PROVE {[p EXCEPT !.age = Older(@)] : p \in m} \in MaybeQuote
  <2>1. [q EXCEPT !.age = Older(@)] \in Quotes
    BY AgesMove DEF Quotes
  <2>2. {[p EXCEPT !.age = Older(@)] : p \in m} = {[q EXCEPT !.age = Older(@)]}
    BY <1>2
  <2> QED BY <2>1, <2>2 DEF MaybeQuote
<1> QED BY <1>1, <1>2 DEF MaybeQuote

LEMMA RememberedHonest == ASSUME NEW b, Sound(b) PROVE Honest(Remembered(b))
<1>1. CASE ~FreshClose(b)
  BY <1>1 DEF Remembered, Sound
<1>2. CASE FreshClose(b)
  <2>1. (CHOOSE q \in b.quote : TRUE) \in Quotes
    BY <1>2 DEF FreshClose, Sound, Shaped, MaybeQuote
  <2>2. (CHOOSE q \in b.quote : TRUE).of \in Contracts
    BY <2>1 DEF Quotes
  <2>3. 0 \in 0 .. ForwardFill + 1 /\ 0 \in 0 .. MaxWas /\ \A k : 0 <= 0 + HiddenFill(k)
    BY UnseenType
  <2> QED BY <1>2, <2>2, <2>3 DEF Remembered, Honest, Closes
<1> QED BY <1>1, <1>2

\* A minute closed on another contract's bar, or carried, stays honest.
LEMMA PolledSound ==
    ASSUME NEW b, Sound(b), NEW q \in Quotes, NEW k, Honest(k)
    PROVE  Sound(Collect(b, q)) /\ Sound([Collect(b, q) EXCEPT !.close = k])
<1>1. Collect(b, q) \in Shaped /\ Collect(b, q).close = b.close
  BY DEF Collect, Sound, Shaped, MaybeQuote
<1> QED BY <1>1 DEF Sound, Shaped, Honest

LEMMA BarsAreRecent ==
    ASSUME NEW b, Sound(b), NEW othersFresh, NEW skewed, ~Skips(b, othersFresh, skewed),
           NEW made, made = {[close |-> Remembered(b), quote |-> p] : p \in b.quote}
    PROVE  /\ made \in MaybeBar
           /\ \A x \in made : x.close.was <= ForwardFill + HiddenFill(x.close)
<1>1. Honest(Remembered(b)) /\ ~(Remembered(b).age > ForwardFill)
  BY RememberedHonest DEF Skips
<1>2. Remembered(b).was <= ForwardFill + HiddenFill(Remembered(b))
  BY <1>1, UnseenType DEF Honest, Closes
<1>3. CASE b.quote = {}
  BY <1>3 DEF MaybeBar
<1>4. ASSUME NEW q \in Quotes, b.quote = {q} PROVE made \in MaybeBar
  <2>1. [close |-> Remembered(b), quote |-> q] \in Bars
    BY <1>1 DEF Bars, Honest
  <2>2. made = {[close |-> Remembered(b), quote |-> q]}
    BY <1>4
  <2> QED BY <2>1, <2>2 DEF MaybeBar
<1>5. made \in MaybeBar
  BY <1>3, <1>4 DEF Sound, Shaped, MaybeQuote, MaybeBar
<1> QED BY <1>2, <1>5

-----------------------------------------------------------------------------
(* The invariant *)

Clocks == /\ front \in Contracts /\ due \in Nat /\ due < front
          /\ session \in BOOLEAN /\ phase \in 0 .. PollsAMinute - 1
Flags  == up \in BOOLEAN /\ torn \in BOOLEAN
Feeds  == feed \in FeedStates /\ (up => feed.subscribed \subseteq {ccf})

\* What the loop has of prices, and no bar without a loop.
Prices == /\ last \in MaybeQuote /\ Sound(builder) /\ bar \in MaybeBar
          /\ BarPriceIsRecent
          /\ ~up => bar = {}

Names  == /\ ccf \in Contracts /\ seeded \in Contracts /\ order \in Contracts
          /\ trading \in Contracts /\ eligible \in Contracts
          /\ up => ccf = trading /\ seeded = trading /\ order = trading

\* A flat strategy holds nothing.
Holds  == /\ st \in {"FLAT", "OPEN", "PAUSED"} /\ pending \in BOOLEAN
          /\ pos \in Contracts \cup {NoPos}
          /\ pos # NoPos => pos = trading
          /\ st = "FLAT" => pos = NoPos

RollInv == Clocks /\ Flags /\ Feeds /\ Prices /\ Names /\ Holds

LEMMA RollInvSays == RollInv => RollTypeOK /\ OneContract /\ BarPriceIsRecent
<1> SUFFICES ASSUME RollInv PROVE RollTypeOK /\ OneContract /\ BarPriceIsRecent
  OBVIOUS
<1>1. builder \in Builders
  BY BuildersShaped DEF RollInv, Prices, Sound
<1>2. RollTypeOK
  BY <1>1 DEF RollInv, Clocks, Flags, Feeds, Prices, Names, Holds, RollTypeOK, MaybeQuote, MaybeBar
<1>3. OneContract
  BY DEF RollInv, Feeds, Names, Holds, OneContract
<1> QED BY <1>2, <1>3 DEF RollInv, Prices

LEMMA RollStarts == RollInit => RollInv
<1> SUFFICES ASSUME RollInit PROVE RollInv
  OBVIOUS
<1>1. First \in Contracts /\ First - 1 \in Nat /\ First - 1 < First
  BY FeedAssumption DEF First
<1>2. Clocks
  BY <1>1, LoopAssumption DEF RollInit, Clocks
<1>3. Feeds /\ Flags /\ Names
  BY <1>1, FeedIsDown DEF RollInit, Feeds, Flags, Names
<1>4. Prices
  BY NoBuilderSound DEF RollInit, Prices, MaybeQuote, MaybeBar, BarPriceIsRecent
<1>5. Holds
  BY DEF RollInit, Holds
<1> QED BY <1>2, <1>3, <1>4, <1>5 DEF RollInv

\* A process that is down holds nothing of its own.
LEMMA DownGives ==
    ASSUME Down
    PROVE  /\ Feeds' /\ Prices' /\ Flags'
           /\ ccf' \in Contracts /\ seeded' \in Contracts /\ order' \in Contracts /\ ~up'
<1>1. First \in Contracts
  BY FeedAssumption DEF First
<1>2. Prices'
  BY NoBuilderSound DEF Down, Prices, MaybeQuote, MaybeBar, BarPriceIsRecent
<1> QED BY <1>1, <1>2, FeedIsDown DEF Down, Feeds, Flags

\* A switch moves everything to the new contract.
LEMMA SwitchGives ==
    ASSUME RollInv, NEW c \in Contracts, SwitchTo(c), up
    PROVE  /\ Names' /\ trading' = c /\ pending' = FALSE
           /\ feed' \in FeedStates /\ feed'.subscribed \subseteq {ccf'}
           /\ Sound(builder')
<1>1. OnlyFor(feed, ccf) /\ ccf \in Contracts
  BY DEF RollInv, Feeds, Names, OnlyFor
<1>2. PICK g \in Unsubscribe(feed, ccf) : feed' \in EnsureBooks(g, c)
  BY DEF SwitchTo, BooksFollow
<1>3. g \in FeedStates /\ g.subscribed = {}
  BY <1>1, <1>2, ForgottenIsNone
<1>4. feed' \in FeedStates /\ feed'.subscribed \subseteq {c}
  BY <1>2, <1>3, EnsureGives
<1>5. Sound(builder')
  BY LaterSeedSound DEF SwitchTo
<1>6. trading' = c /\ eligible' = c /\ pending' = FALSE /\ ccf' = c /\ seeded' = c /\ order' = c
  BY DEF SwitchTo, OrdersFollow
<1> QED BY <1>4, <1>5, <1>6 DEF Names

\* What a bar makes of the position: flat is flat, and a pair is in the contract.
LEMMA HandledGives ==
    ASSUME RollInv, NEW b \in bar, NEW weekendBar \in BOOLEAN, NEW h \in Handled(b, weekendBar)
    PROVE  /\ h[1] \in {"FLAT", "OPEN", "PAUSED"} /\ h[2] \in Contracts \cup {NoPos}
           /\ h[2] # NoPos => h[2] = trading
           /\ h[1] = "FLAT" => h[2] = NoPos
<1>1. up /\ ccf = trading /\ trading \in Contracts
  BY DEF RollInv, Prices, Names
<1>2. /\ st \in {"FLAT", "OPEN", "PAUSED"} /\ pos \in Contracts \cup {NoPos}
      /\ pos # NoPos => pos = trading
      /\ st = "FLAT" => pos = NoPos
  BY DEF RollInv, Holds
<1>3. h \in {<<"FLAT", NoPos>>, <<"PAUSED", pos>>, <<st, pos>>, <<"PAUSED", NoPos>>, <<"OPEN", ccf>>}
  BY DEF Handled
<1> QED BY <1>1, <1>2, <1>3

LEMMA MarkedType == ASSUME RollInv, NEW r PROVE Marked(r) \in BOOLEAN
BY DEF RollInv, Holds, Marked

LEMMA EligibleType == ASSUME RollInv, NEW r \in Resolves PROVE NowEligible(r) \in Contracts
BY DEF RollInv, Clocks, Names, NowEligible

\* One poll interval.
LEMMA TickKeeps == ASSUME RollInv, Tick PROVE Clocks' /\ Feeds' /\ Prices'
<1>1. Clocks'
  <2>1. phase' \in 0 .. PollsAMinute - 1
    BY LoopAssumption DEF Tick, RollInv, Clocks
  <2> QED BY <2>1 DEF Tick, RollInv, Clocks
<1>2. Feeds'
  BY AgingKeeps DEF Tick, RollInv, Feeds
<1>3. Prices'
  <2>1. last' \in MaybeQuote
    BY QuotesAge DEF Tick, RollInv, Prices
  <2>2. PICK mi, k : /\ mi \in {"none", "this", "past"} /\ Honest(k)
                     /\ builder' = [minute |-> mi,
                                    quote |-> {[q EXCEPT !.age = Older(@)] : q \in builder.quote},
                                    close |-> k]
    <3>1. builder.minute \in {"none", "this", "past"} /\ Honest(builder.close)
          /\ Honest(MinuteLater(builder.close))
      BY LaterHonest DEF RollInv, Prices, Sound, Shaped
    <3> QED BY <3>1 DEF Tick
  <2>3. {[q EXCEPT !.age = Older(@)] : q \in builder.quote} \in MaybeQuote
    BY QuotesAge DEF RollInv, Prices, Sound, Shaped
  <2>4. Sound(builder')
    BY <2>2, <2>3 DEF Sound, Shaped, Honest
  <2>5. bar' = {} /\ up' = up
    BY DEF Tick
  <2> QED BY <2>1, <2>4, <2>5 DEF Prices, MaybeBar, BarPriceIsRecent
<1> QED BY <1>1, <1>2, <1>3

LEMMA StreamKeeps == ASSUME RollInv, up, Stream
                     PROVE  feed' \in FeedStates /\ feed'.subscribed \subseteq {ccf}
<1>1. feed \in FeedStates /\ feed.subscribed \subseteq {ccf}
  BY DEF RollInv, Feeds
<1>2. ASSUME NEW c \in feed.listening \cap feed.subscribed, feed' = Arrive(feed, c)
      PROVE  feed' \in FeedStates /\ feed'.subscribed \subseteq {ccf}
  <2>1. c \in Contracts
    BY <1>1 DEF FeedStates
  <2> QED BY <1>1, <1>2, <2>1, ArriveKeeps
<1>3. CASE feed' = Teardown(feed)
  BY <1>3, FeedIsDown DEF Teardown
<1>4. CASE feed' = [feed EXCEPT !.listening = {}]
  BY <1>1, <1>4 DEF FeedStates
<1> QED BY <1>2, <1>3, <1>4 DEF Stream

\* What an iteration does with what it fetched.
Sampled(r, q, othersFresh, skewed) ==
    /\ feed' \in AfterWatchdog(r[1], q)
    /\ IF builder.minute = "past"
       THEN /\ builder' = [Collect(builder, q) EXCEPT
                            !.close = AfterFinalize(builder, othersFresh, skewed)]
            /\ bar' = IF Skips(builder, othersFresh, skewed) THEN {}
                      ELSE {[close |-> Remembered(builder), quote |-> p] :
                              p \in builder.quote}
       ELSE builder' = Collect(builder, q) /\ UNCHANGED bar

Fetched(r) ==
    /\ last' = OrCached(r[2])
    /\ IF last' = {} THEN feed' = r[1] /\ UNCHANGED <<builder, bar>>
       ELSE \E q \in last', othersFresh, skewed \in BOOLEAN : Sampled(r, q, othersFresh, skewed)

\* One trading iteration.
LEMMA PollKeeps == ASSUME RollInv, Poll PROVE Feeds' /\ Prices'
<1>1. OnlyFor(feed, ccf) /\ ccf \in Contracts /\ last \in MaybeQuote /\ Sound(builder) /\ bar = {}
  BY DEF RollInv, Feeds, Prices, Names, OnlyFor, Poll
<1>2. UNCHANGED <<up, ccf>> /\ up
  BY DEF Poll
<1>a. PICK f \in Entered : \E r \in FetchQuote(f, ccf) : Fetched(r)
  BY DEF Poll, Fetched, Sampled
<1>3. PICK r \in FetchQuote(f, ccf) : Fetched(r)
  BY <1>a
<1>4. OnlyFor(f, ccf)
  BY <1>1, <1>a, RestartOnly DEF Entered
<1>5. OnlyFor(r[1], ccf) /\ r[2] \in MaybeQuote
  BY <1>1, <1>3, <1>4, FetchGives
<1>6. last' \in MaybeQuote
  BY <1>1, <1>3, <1>5 DEF OrCached, Fetched
<1>7. CASE last' = {}
  <2>1. feed' = r[1] /\ builder' = builder /\ bar' = bar
    BY <1>3, <1>7 DEF Fetched
  <2> QED BY <1>1, <1>2, <1>5, <1>6, <2>1 DEF Feeds, Prices, OnlyFor, MaybeBar, BarPriceIsRecent
<1>8. CASE last' # {}
  <2>1. PICK q \in last', othersFresh \in BOOLEAN, skewed \in BOOLEAN :
          Sampled(r, q, othersFresh, skewed)
    BY <1>3, <1>8 DEF Fetched
  <2>2. q \in Quotes
    BY <1>6, <2>1 DEF MaybeQuote
  <2>3. OnlyFor(feed', ccf)
    BY <1>1, <1>5, <2>1, RestartOnly DEF AfterWatchdog, Sampled
  <2>4. Honest(AfterFinalize(builder, othersFresh, skewed))
    BY <1>1, RememberedHonest DEF AfterFinalize, Sound
  <2>5. Sound(builder')
    <3>1. CASE builder.minute = "past"
      <4>1. builder' = [Collect(builder, q) EXCEPT
                          !.close = AfterFinalize(builder, othersFresh, skewed)]
        BY <2>1, <3>1 DEF Sampled
      <4> QED BY <1>1, <2>2, <2>4, <4>1, PolledSound
    <3>2. CASE builder.minute # "past"
      BY <1>1, <2>1, <2>2, <3>2, PolledSound, <2>4 DEF Sampled
    <3> QED BY <3>1, <3>2
  <2>6. /\ bar' \in MaybeBar
        /\ \A x \in bar' : x.close.was <= ForwardFill + HiddenFill(x.close)
    <3>1. CASE builder.minute = "past" /\ ~Skips(builder, othersFresh, skewed)
      BY <1>1, <2>1, <3>1, BarsAreRecent DEF Sampled
    <3>2. CASE ~(builder.minute = "past" /\ ~Skips(builder, othersFresh, skewed))
      <4>1. bar' = {}
        BY <1>1, <2>1, <3>2 DEF Sampled
      <4> QED BY <4>1 DEF MaybeBar
    <3> QED BY <3>1, <3>2
  <2> QED BY <1>2, <1>6, <2>3, <2>5, <2>6 DEF Feeds, Prices, OnlyFor, BarPriceIsRecent
<1> QED BY <1>7, <1>8

\* Every step keeps it.
LEMMA RollStep == RollInv /\ [RollNext]_vars => RollInv'
<1> SUFFICES ASSUME RollInv, [RollNext]_vars PROVE RollInv'
  OBVIOUS
<1>0. Clocks /\ Flags /\ Feeds /\ Prices /\ Names /\ Holds
  BY DEF RollInv
<1>a. UNCHANGED clockVars => Clocks'
  BY <1>0 DEF Clocks, clockVars
<1>b. UNCHANGED <<up, torn>> => Flags'
  BY <1>0 DEF Flags
<1>c. UNCHANGED <<up, last, builder, bar>> => Prices'
  BY <1>0 DEF Prices, BarPriceIsRecent
<1>d. UNCHANGED <<up, feed, ccf>> => Feeds'
  BY <1>0 DEF Feeds
<1>e. UNCHANGED <<up, ccf, seeded, order, trading, eligible>> => Names'
  BY <1>0 DEF Names
<1>f. UNCHANGED <<st, pos, trading, pending>> => Holds'
  BY <1>0 DEF Holds
<1>1. CASE RollDay \/ DeadlinePasses \/ SessionTurns
  <2>1. Clocks'
    <3>1. CASE RollDay
      BY <1>0, <3>1, FeedAssumption DEF RollDay, Clocks
    <3>2. CASE DeadlinePasses
      BY <1>0, <3>2, FeedAssumption DEF DeadlinePasses, Clocks
    <3>3. CASE SessionTurns
      BY <1>0, <3>3 DEF SessionTurns, Clocks
    <3> QED BY <1>1, <3>1, <3>2, <3>3
  <2>2. UNCHANGED <<feed, up, loopVars, stateVars>>
    BY <1>1 DEF RollDay, DeadlinePasses, SessionTurns
  <2> QED BY <1>b, <1>c, <1>d, <1>e, <1>f, <2>1, <2>2 DEF RollInv, loopVars, stateVars
<1>2. CASE Tick
  BY <1>2, <1>b, <1>e, <1>f, TickKeeps DEF Tick, RollInv, stateVars
<1>3. CASE FeedMoves
  <2>1. up /\ Stream /\ UNCHANGED <<clockVars, up, loopVars, stateVars>>
    BY <1>3 DEF FeedMoves
  <2>2. Feeds'
    BY <2>1, StreamKeeps DEF Feeds, loopVars
  <2> QED BY <1>a, <1>b, <1>c, <1>e, <1>f, <2>1, <2>2 DEF RollInv, loopVars, stateVars
<1>4. CASE Start
  <2>1. trading \in Contracts /\ front \in Contracts
    BY <1>0 DEF Names, Clocks
  <2>2. OnlyFor(feed', trading)
    BY <1>4, <2>1, FeedIsDown, EnsureOnly DEF Start, OnlyFor
  <2>3. Feeds' /\ Flags' /\ Names'
    BY <1>4, <2>1, <2>2 DEF Start, Feeds, Flags, Names, OnlyFor
  <2>4. Prices'
    BY <1>4, <2>1, SeedSound DEF Start, Prices, MaybeQuote, MaybeBar, BarPriceIsRecent
  <2> QED BY <1>4, <1>a, <1>f, <2>3, <2>4 DEF Start, RollInv
<1>5. CASE Crash
  <2>1. Down /\ UNCHANGED <<clockVars, stateVars>>
    BY <1>5 DEF Crash
  <2>2. Names'
    BY <1>0, <2>1, DownGives DEF Names, stateVars
  <2> QED BY <1>a, <1>f, <2>1, <2>2, DownGives DEF RollInv, stateVars
<1>6. CASE Settle
  <2>1. Holds'
    BY <1>0, <1>6 DEF Settle, Holds
  <2> QED BY <1>6, <1>a, <1>b, <1>c, <1>d, <1>e, <2>1 DEF Settle, RollInv, loopVars
<1>7. CASE IdlePoll
  <2>1. Feeds' /\ Flags'
    BY <1>0, <1>7, FeedIsDown DEF IdlePoll, Feeds, Flags, Teardown
  <2>2. Prices'
    <3>1. Sound(builder')
      BY <1>0, <1>7, GivenUpHonest, SeededSound DEF IdlePoll, Prices, Sound
    <3> QED BY <1>0, <1>7, <3>1 DEF IdlePoll, Prices, BarPriceIsRecent
  <2> QED BY <1>7, <1>a, <1>e, <1>f, <2>1, <2>2 DEF IdlePoll, RollInv, stateVars
<1>8. CASE DriftCheck
  <2>1. Holds'
    BY <1>0, <1>8 DEF DriftCheck, Holds
  <2> QED BY <1>8, <1>a, <1>b, <1>c, <1>d, <1>e, <2>1 DEF DriftCheck, RollInv, loopVars
<1>9. CASE Poll
  <2>1. Flags'
    BY <1>0, <1>9 DEF Poll, Flags
  <2> QED BY <1>9, <1>a, <1>e, <1>f, <2>1, PollKeeps DEF Poll, RollInv, stateVars
<1>10. CASE SwitchBefore
  <2>1. front \in Contracts /\ up /\ UNCHANGED up
    BY <1>0, <1>10 DEF SwitchBefore, Clocks, Prices
  <2>2. /\ Names' /\ trading' = front /\ pending' = FALSE
        /\ feed' \in FeedStates /\ feed'.subscribed \subseteq {ccf'}
        /\ Sound(builder')
    BY <1>10, <2>1, SwitchGives DEF SwitchBefore
  <2>3. Prices' /\ Feeds'
    BY <1>0, <1>10, <2>1, <2>2 DEF SwitchBefore, Prices, Feeds, MaybeBar, BarPriceIsRecent
  <2>4. Holds'
    BY <1>0, <1>10, <2>2 DEF SwitchBefore, Holds
  <2> QED BY <1>10, <1>a, <1>b, <2>2, <2>3, <2>4 DEF SwitchBefore, RollInv
<1>11. CASE ProcessBar
  <2>1. PICK resolved \in Resolves, b \in bar, weekendBar \in BOOLEAN :
                \E h \in Handled(b, weekendBar) :
            /\ st' = h[1] /\ pos' = h[2]
            /\ IF Completes(h[1], Marked(resolved), NowEligible(resolved))
               THEN SwitchTo(NowEligible(resolved))
               ELSE /\ NoSwitch
                    /\ pending' = Marked(resolved)
                    /\ eligible' = NowEligible(resolved)
    BY <1>11 DEF ProcessBar
  <2>2. PICK h \in Handled(b, weekendBar) :
            /\ st' = h[1] /\ pos' = h[2]
            /\ IF Completes(h[1], Marked(resolved), NowEligible(resolved))
               THEN SwitchTo(NowEligible(resolved))
               ELSE /\ NoSwitch
                    /\ pending' = Marked(resolved)
                    /\ eligible' = NowEligible(resolved)
    BY <2>1
  <2>3. up /\ UNCHANGED <<clockVars, up, torn, last>> /\ bar' = {}
    BY <1>0, <1>11 DEF ProcessBar, Prices
  <2>4. Marked(resolved) \in BOOLEAN /\ NowEligible(resolved) \in Contracts
    BY MarkedType, EligibleType
  <2>5. /\ st' \in {"FLAT", "OPEN", "PAUSED"} /\ pos' \in Contracts \cup {NoPos}
        /\ pos' # NoPos => pos' = trading
        /\ st' = "FLAT" => pos' = NoPos
    BY <2>2, HandledGives
  <2>6. CASE Completes(h[1], Marked(resolved), NowEligible(resolved))
    <3>1. SwitchTo(NowEligible(resolved)) /\ st' = "FLAT"
      BY <2>2, <2>6 DEF Completes
    <3>2. /\ Names' /\ pending' = FALSE
          /\ feed' \in FeedStates /\ feed'.subscribed \subseteq {ccf'}
          /\ Sound(builder')
      BY <2>3, <2>4, <3>1, SwitchGives
    <3>3. Prices' /\ Feeds'
      BY <1>0, <2>3, <3>2 DEF Prices, Feeds, MaybeBar, BarPriceIsRecent
    <3>4. Holds'
      BY <2>5, <3>1, <3>2 DEF Holds
    <3> QED BY <1>a, <1>b, <2>3, <3>2, <3>3, <3>4 DEF RollInv
  <2>7. CASE ~Completes(h[1], Marked(resolved), NowEligible(resolved))
    <3>1. NoSwitch /\ pending' = Marked(resolved) /\ eligible' = NowEligible(resolved)
      BY <2>2, <2>7
    <3>2. Prices' /\ Feeds' /\ Names'
      BY <1>0, <2>3, <2>4, <3>1
         DEF NoSwitch, Prices, Feeds, Names, MaybeBar, BarPriceIsRecent
    <3>3. Holds'
      BY <2>4, <2>5, <3>1 DEF NoSwitch, Holds
    <3> QED BY <1>a, <1>b, <2>3, <3>2, <3>3 DEF RollInv
  <2> QED BY <2>6, <2>7
<1>12. CASE SwitchFails
  <2>1. Down /\ bar # {} /\ UNCHANGED <<clockVars, trading>>
    BY <1>12 DEF SwitchFails
  <2>2. Holds' /\ eligible' \in Contracts
    <3>1. CASE UNCHANGED <<st, pos, eligible, pending>>
      BY <1>0, <2>1, <3>1 DEF Holds, Names
    <3>2. CASE \E resolved \in Resolves, b \in bar, weekendBar \in BOOLEAN :
                \E h \in Handled(b, weekendBar) :
                 /\ st' = h[1] /\ pos' = h[2]
                 /\ pending' = Marked(resolved)
                 /\ eligible' = NowEligible(resolved)
      <4>1. PICK resolved \in Resolves, b \in bar, weekendBar \in BOOLEAN :
                \E h \in Handled(b, weekendBar) :
                 /\ st' = h[1] /\ pos' = h[2]
                 /\ pending' = Marked(resolved)
                 /\ eligible' = NowEligible(resolved)
        BY <3>2
      <4>2. PICK h \in Handled(b, weekendBar) :
                 /\ st' = h[1] /\ pos' = h[2]
                 /\ pending' = Marked(resolved)
                 /\ eligible' = NowEligible(resolved)
        BY <4>1
      <4>3. pending' \in BOOLEAN /\ eligible' \in Contracts
        BY <4>2, MarkedType, EligibleType
      <4>4. /\ st' \in {"FLAT", "OPEN", "PAUSED"} /\ pos' \in Contracts \cup {NoPos}
            /\ pos' # NoPos => pos' = trading
            /\ st' = "FLAT" => pos' = NoPos
        BY <4>2, HandledGives
      <4> QED BY <2>1, <4>3, <4>4 DEF Holds
    <3> QED BY <1>12, <3>1, <3>2 DEF SwitchFails
  <2>3. Names'
    BY <1>0, <2>1, <2>2, DownGives DEF Names
  <2> QED BY <1>a, <2>1, <2>2, <2>3, DownGives DEF RollInv
<1>13. CASE DuplicateMinute
  <2>1. Prices'
    BY <1>0, <1>13 DEF DuplicateMinute, Prices, MaybeBar, BarPriceIsRecent
  <2> QED BY <1>13, <1>a, <1>b, <1>d, <1>e, <1>f, <2>1 DEF DuplicateMinute, RollInv, stateVars
<1>14. CASE UNCHANGED vars
  BY <1>14, <1>a, <1>b, <1>c, <1>d, <1>e, <1>f DEF vars, loopVars, stateVars, RollInv
<1> QED BY <1>1, <1>2, <1>3, <1>4, <1>5, <1>6, <1>7, <1>8, <1>9, <1>10, <1>11, <1>12, <1>13, <1>14
       DEF RollNext

LEMMA RollInvIsKept == RollSpec => []RollInv
BY RollStarts, RollStep, PTL DEF RollSpec

\* RollTypeOK: with at most one quote and one bar in hand.
THEOREM RollTyped == RollSpec => []RollTypeOK
BY RollInvIsKept, RollInvSays, PTL

\* OneContract: through switches before and after a bar, restarts and warmups
\* that fail, loop, strategy, warmup, feed and order session are on one
\* contract, and an open position is in it.
THEOREM StaysOnOneContract == RollSpec => []OneContract
BY RollInvIsKept, RollInvSays, PTL

\* BarPriceIsRecent: no bar carries a CCF price past the forward fill and what a
\* seed's stamp hides, whatever windows the warmup accepts.
THEOREM BarsStayRecent == RollSpec => []BarPriceIsRecent
BY RollInvIsKept, RollInvSays, PTL
=============================================================================
