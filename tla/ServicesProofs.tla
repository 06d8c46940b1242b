---------------------------- MODULE ServicesProofs ----------------------------
(***************************************************************************)
(* Proofs about the parts around the two legs, one after the other: the    *)
(* cached exchange rate, the commands that trade by hand, the strategy's   *)
(* books where no order is sent, the notifications and the commands that   *)
(* are answered, the rollover calendar.  They hold for every bound.        *)
(***************************************************************************)
EXTENDS MCServices, SequenceTheorems, FiniteSetTheorems, TLAPS

-----------------------------------------------------------------------------
(* The cached exchange rate *)

\* What is cached is of the symbol it is cached for, and has aged as long as it
\* has been kept; so a quote that may still be served is young enough.
CacheInv ==
    /\ CacheTypeOK
    /\ \A q \in cached : q.of = named /\ q.age <= Lag + kept
    /\ ServedRateIsBounded

\* A set of at most one thing holds things of its type.
LEMMA AtMostOne ==
    ASSUME NEW S, NEW X, S \in {{}} \cup {{x} : x \in X}, NEW y \in S
    PROVE  y \in X /\ S = {y}
OBVIOUS

\* Another minute: what is kept and what it ages by are the same.
LEMMA TimeKeepsCache ==
    ASSUME CacheInv, TimePasses
    PROVE  CacheInv'
<1>1. /\ kept \in 0..MaxServe + 1 /\ MaxServe \in Nat /\ Lag \in Nat
      /\ Oldest = Lag + MaxServe + 1
  BY CacheAssumption DEF CacheInv, CacheTypeOK, Oldest
<1>2. kept' = IF kept = MaxServe + 1 THEN kept ELSE kept + 1
  BY DEF TimePasses, Older
<1>3. served' = {} /\ named' = named
      /\ cached' = {[q EXCEPT !.age = Older(@, Oldest)] : q \in cached}
  BY DEF TimePasses
<1>4. ASSUME NEW q \in cached
      PROVE  LET p == [q EXCEPT !.age = Older(@, Oldest)]
             IN  p \in RateQuotes /\ p.of = named /\ p.age <= Lag + kept'
  <2>1. q \in RateQuotes /\ q.of = named /\ q.age <= Lag + kept
    BY <1>4, AtMostOne DEF CacheInv, CacheTypeOK
  <2>2. q.age \in 0..Oldest
    BY <2>1 DEF RateQuotes
  <2>3. Older(q.age, Oldest) \in 0..Oldest /\ Older(q.age, Oldest) <= Lag + kept'
    BY <1>1, <1>2, <2>1, <2>2 DEF Older
  <2> QED BY <2>1, <2>3 DEF RateQuotes
<1>5. cached' \in {{}} \cup {{q} : q \in RateQuotes}
  <2>1. CASE cached = {}
    BY <1>3, <2>1
  <2>2. CASE cached # {}
    <3>1. PICK q \in RateQuotes : cached = {q}
      BY <2>2 DEF CacheInv, CacheTypeOK
    <3>2. cached' = {[q EXCEPT !.age = Older(@, Oldest)]}
      BY <1>3, <3>1
    <3> QED BY <1>4, <3>1, <3>2
  <2> QED BY <2>1, <2>2
<1>6. \A p \in cached' : p.of = named /\ p.age <= Lag + kept'
  BY <1>3, <1>4
<1>7. kept' \in 0..MaxServe + 1
  BY <1>1, <1>2
<1> QED BY <1>3, <1>5, <1>6, <1>7 DEF CacheInv, CacheTypeOK, ServedRateIsBounded

\* What a call returns is in the cache, and the cache is younger than the limit.
LEMMA ServingKeepsCache ==
    ASSUME CacheInv, NEW s \in Symbols,
           \A q \in cached' : q \in RateQuotes /\ q.of = s /\ q.age <= Lag + MaxServe,
           cached' \in {{}} \cup {{q} : q \in RateQuotes},
           served' = {[asked |-> s, quote |-> q] : q \in cached'}
    PROVE  /\ served' \in {{}} \cup {{r} : r \in [asked : Symbols, quote : RateQuotes]}
           /\ ServedRateIsBounded'
<1>1. ServedRateIsBounded'
  BY DEF ServedRateIsBounded
<1>2. CASE cached' = {}
  BY <1>1, <1>2
<1>3. CASE cached' # {}
  <2>1. PICK q \in RateQuotes : cached' = {q}
    BY <1>3
  <2>2. served' = {[asked |-> s, quote |-> q]}
    BY <2>1
  <2> QED BY <1>1, <2>1, <2>2
<1> QED BY <1>2, <1>3

\* A call: a hit, an answer of the vendor, or the kept quote in its place.
LEMMA CallsKeepCache ==
    ASSUME CacheInv, Hit \/ Refetch \/ FetchFails
    PROVE  CacheInv'
<1>1. kept \in 0..MaxServe + 1 /\ MaxServe \in Nat /\ Lag \in Nat /\ Ttl \in Nat
      /\ Ttl <= MaxServe
  BY CacheAssumption DEF CacheInv, CacheTypeOK
<1>2. \A q \in cached : q \in RateQuotes /\ q.of = named /\ q.age <= Lag + kept
  BY AtMostOne DEF CacheInv, CacheTypeOK
<1>3. CASE Hit
  <2>1. PICK s \in Symbols : /\ Cache(s) # {} /\ kept < Ttl
                             /\ served' = {[asked |-> s, quote |-> q] : q \in cached}
                             /\ UNCHANGED <<cached, named, kept>>
    BY <1>3 DEF Hit, IsFresh
  <2>2. s = named /\ cached' = cached
    BY <2>1 DEF Cache
  <2>3. \A q \in cached : q.age <= Lag + MaxServe
    <3> SUFFICES ASSUME NEW q \in cached PROVE q.age <= Lag + MaxServe
      OBVIOUS
    <3>1. q.age \in Int /\ q.age <= Lag + kept
      BY <1>2 DEF RateQuotes
    <3> QED BY <1>1, <2>1, <3>1
  <2> QED BY <1>2, <2>1, <2>2, <2>3, ServingKeepsCache DEF CacheInv, CacheTypeOK
<1>4. CASE Refetch
  <2>1. PICK s \in Symbols, age \in 0..Lag :
          /\ cached' = {[of |-> s, age |-> age]} /\ named' = s /\ kept' = 0
          /\ served' = {[asked |-> s, quote |-> q] : q \in cached'}
    BY <1>4 DEF Refetch
  <2> DEFINE new == [of |-> s, age |-> age]
  <2>2. new \in RateQuotes /\ new.of = s /\ new.age <= Lag + MaxServe /\ new.age <= Lag + 0
    BY <1>1 DEF RateQuotes, Oldest
  <2>3. cached' \in {{}} \cup {{q} : q \in RateQuotes}
    BY <2>1, <2>2
  <2>4. /\ served' \in {{}} \cup {{r} : r \in [asked : Symbols, quote : RateQuotes]}
        /\ ServedRateIsBounded'
    BY <2>1, <2>2, <2>3, ServingKeepsCache
  <2>5. kept' \in 0..MaxServe + 1
    BY <1>1, <2>1
  <2> QED BY <2>1, <2>2, <2>3, <2>4, <2>5 DEF CacheInv, CacheTypeOK
<1>5. CASE FetchFails
  <2>1. PICK s \in Symbols :
          /\ cached' = Cache(s)
          /\ \/ Cache(s) # {} /\ ServeStale(s)
             \/ (Cache(s) = {} \/ kept > MaxServe) /\ served' = {} /\ UNCHANGED kept
          /\ UNCHANGED named
    BY <1>5 DEF FetchFails
  <2>2. /\ cached' \in {{}, cached} /\ cached' \in {{}} \cup {{q} : q \in RateQuotes}
        /\ UNCHANGED <<named, kept>>
    BY <2>1 DEF Cache, ServeStale, CacheInv, CacheTypeOK
  <2>3. \A q \in cached' : q \in RateQuotes /\ q.of = named /\ q.age <= Lag + kept
    BY <1>2, <2>2
  <2>4. CASE served' = {}
    BY <2>2, <2>3, <2>4 DEF CacheInv, CacheTypeOK, ServedRateIsBounded
  <2>5. CASE Cache(s) # {} /\ ServeStale(s)
    <3>1. s = named /\ kept <= MaxServe /\ served' = {[asked |-> s, quote |-> q] : q \in cached'}
      BY <2>1, <2>5 DEF Cache, ServeStale
    <3>2. ASSUME NEW q \in cached' PROVE q.age <= Lag + MaxServe
      <4>1. q.age \in Int /\ q.age <= Lag + kept
        BY <2>3, <3>2 DEF RateQuotes
      <4> QED BY <1>1, <3>1, <4>1
    <3> QED BY <2>2, <2>3, <3>1, <3>2, ServingKeepsCache DEF CacheInv, CacheTypeOK
  <2> QED BY <2>1, <2>4, <2>5
<1> QED BY <1>3, <1>4, <1>5

\* An empty cache serves nothing.
LEMMA CacheStarts == CacheInit => CacheInv
<1> SUFFICES ASSUME CacheInit PROVE CacheInv
  OBVIOUS
<1>1. 0 \in 0..MaxServe + 1
  BY CacheAssumption
<1> QED BY <1>1 DEF CacheInit, CacheInv, CacheTypeOK, ServedRateIsBounded

LEMMA CacheSteps == CacheInv /\ [CacheNext]_cacheVars => CacheInv'
<1>1. CacheInv /\ UNCHANGED cacheVars => CacheInv'
  BY DEF CacheInv, CacheTypeOK, ServedRateIsBounded, cacheVars
<1> QED BY <1>1, TimeKeepsCache, CallsKeepCache DEF CacheNext

\* However long the vendor fails and whichever symbols are asked in turn, the rate
\* that is served is the asked one's and no older than MaxServe allows.
THEOREM RateBounded == CacheSpec => []ServedRateIsBounded
<1>1. CacheInv => ServedRateIsBounded
  BY DEF CacheInv
<1> QED BY <1>1, CacheStarts, CacheSteps, PTL DEF CacheSpec

-----------------------------------------------------------------------------
(* The commands that trade by hand *)

HandTypes ==
    /\ {pos, view, working, pre, had, last} \subseteq Int /\ opened \in Nat
    /\ cmd \in Commands
    /\ step \in {"idle", "started", "checking", "sending", "opened", "sent", "reading"}
    /\ complete \in BOOLEAN
    /\ slip \subseteq {"override", "lag", "moved"}
    /\ home \in {-1, 0, 1} /\ rc \in 0..2 /\ commands \in Nat

\* Nothing is working when an order is sent, whichever read came first.
NothingWorks ==
    step = "sending" \/ (step = "checking" /\ OrdersFirst) => working = 0

\* Until a command sends, the position only moves the way of what was working; after
\* a first reading that was true, so does what a query is given: a position that is
\* again the one it read has been that all along.
Forward(s) ==
    /\ s * working >= 0
    /\ pre = had => s * (view - pre) >= 0 /\ s * (pos - view) >= 0
InOneDirection ==
    step = "checking" => \E s \in {-1, 1} : Forward(s)

\* A command that acts on the position it read, at each of its steps.
OnTheReading ==
    /\ step = "sending" =>
         /\ view = pos
         /\ IF Smoke(cmd) THEN home = cmd.side /\ pos = 0
            ELSE home = -cmd.side /\ pre = pos /\ cmd.qty <= pos * home
    /\ step = "opened" =>
         /\ home = cmd.side /\ opened <= pos * home /\ 0 <= working * home
         /\ complete => working = 0 /\ pos = opened * home
    /\ step \in {"sent", "reading"} /\ complete =>
         /\ working = 0
         /\ IF Smoke(cmd) THEN pos = 0
            ELSE /\ pos = pre + cmd.side * opened /\ view \in {pre, pos}
                 /\ pre # 0 /\ opened # 0

HandInv ==
    /\ HandTypes /\ NothingWorks /\ InOneDirection
    /\ step = "opened" => Smoke(cmd)
    /\ slip # {} \/ OnTheReading
    /\ NeverCrossesZero /\ CompleteMeansClosed

\* A command is for one side and at least one lot.
LEMMA CommandType ==
    ASSUME HandTypes
    PROVE  cmd.side \in {-1, 1} /\ cmd.qty \in Nat \ {0} /\ cmd.name \in Names
BY HandAssumption DEF HandTypes, Commands

\* A side times a number is a number.
LEMMA SidedNumber ==
    ASSUME NEW s \in {-1, 1}, NEW n \in Int
    PROVE  s * n \in Int
OBVIOUS

\* No command has run.
LEMMA HandStarts == HandInit => HandInv
<1> SUFFICES ASSUME HandInit PROVE HandInv
  OBVIOUS
<1>1. pos \in Int /\ working \in Int /\ view = pos
      /\ pos * working <= 0 /\ Magnitude(working) <= Magnitude(pos)
  BY HandAssumption DEF HandInit, Sizes
<1>2. cmd \in Commands
  <2>1. [name |-> "ibkr_close", side |-> 1, qty |-> 1, override |-> FALSE] \in Commands
    BY HandAssumption DEF Commands, Names, Smoke
  <2> QED BY <2>1 DEF HandInit
<1>3. HandTypes
  <2>1. home \in {-1, 0, 1}
    BY <1>1 DEF HandInit, SignOf
  <2>2. complete \in BOOLEAN /\ slip \subseteq {"override", "lag", "moved"}
    BY DEF HandInit
  <2>3. pre \in Int /\ had \in Int /\ last \in Int /\ opened \in Nat /\ rc \in 0..2 /\ commands \in Nat /\ step = "idle"
    BY DEF HandInit
  <2> QED BY <1>1, <1>2, <2>1, <2>2, <2>3 DEF HandTypes
<1>4. pos * home >= 0 /\ (pos + working) * home >= 0
  <2>1. CASE pos > 0
    <3>1. home = 1 /\ pos + working >= 0
      BY <1>1, <2>1 DEF HandInit, SignOf, Magnitude
    <3> QED BY <1>1, <2>1, <3>1
  <2>2. CASE pos < 0
    <3>1. home = -1 /\ pos + working <= 0
      BY <1>1, <2>2 DEF HandInit, SignOf, Magnitude
    <3> QED BY <1>1, <2>2, <3>1
  <2>3. CASE pos = 0
    BY <1>1, <2>3 DEF HandInit, SignOf
  <2> QED BY <1>1, <2>1, <2>2, <2>3
<1> QED BY <1>3, <1>4 DEF HandInit, HandInv, NothingWorks, InOneDirection, OnTheReading,
        NeverCrossesZero, SameSide, CompleteMeansClosed

\* A way that ends on the same side as it began stays there.
LEMMA Between0 ==
    ASSUME NEW h \in {-1, 0, 1}, NEW p \in Int, NEW w \in Int, NEW d \in Int,
           p * h >= 0, (p + w) * h >= 0, (0 <= d /\ d <= w) \/ (w <= d /\ d <= 0)
    PROVE  (p + d) * h >= 0
<1>1. CASE h = -1
  BY <1>1
<1>2. CASE h = 0
  BY <1>2
<1>3. CASE h = 1
  BY <1>3
<1> QED BY <1>1, <1>2, <1>3

\* What works fills a part, or all, or is cancelled.
LEMMA FillsKeepHand ==
    ASSUME HandInv, WorkingFills
    PROVE  HandInv'
<1>0. /\ pos \in Int /\ working \in Int /\ view \in Int /\ pre \in Int
      /\ home \in {-1, 0, 1} /\ opened \in Nat
  BY DEF HandInv, HandTypes
<1>1. PICK d \in Int :
        /\ (0 < d /\ d <= working) \/ (working <= d /\ d < 0)
        /\ pos' = pos + d /\ working' \in {working - d, 0}
  <2>1. PICK n \in 1..Magnitude(working) :
          pos' = pos + SignOf(working) * n /\ working' \in {working - SignOf(working) * n, 0}
    BY DEF WorkingFills
  <2>2. CASE working > 0
    BY <1>0, <2>1, <2>2 DEF Magnitude, SignOf
  <2>3. CASE working < 0
    <3>1. n \in Int /\ 1 <= n /\ n <= 0 - working /\ SignOf(working) * n = 0 - n
      BY <1>0, <2>1, <2>3 DEF Magnitude, SignOf
    <3>2. 0 - n \in Int
      BY <3>1
    <3> QED BY <1>0, <2>1, <2>3, <3>1, <3>2
  <2>4. working # 0
    BY <2>1 DEF Magnitude
  <2> QED BY <1>0, <2>2, <2>3, <2>4
<1>2. UNCHANGED <<view, home, slip, step, cmd, pre, had, last, opened, complete, rc, commands>>
  BY DEF WorkingFills
<1>3. PICK p \in Int, w \in Int : /\ pos' = p /\ working' = w /\ p = pos + d
                                  /\ w = working - d \/ w = 0
  BY <1>0, <1>1
<1>4. HandTypes'
  BY <1>2, <1>3 DEF HandInv, HandTypes
<1>5. NothingWorks' /\ step # "sending"
  BY <1>1, <1>2 DEF HandInv, NothingWorks, OrdersFirst
<1>6. InOneDirection'
  <2> SUFFICES ASSUME step = "checking" PROVE \E s \in {-1, 1} : Forward(s)'
    BY <1>2 DEF InOneDirection
  <2>1. PICK s \in {-1, 1} : Forward(s)
    BY DEF HandInv, InOneDirection
  <2>2. s * w >= 0 /\ (pre = had => s * (p - view) >= 0)
    <3>1. CASE s = 1
      BY <1>0, <1>1, <1>3, <2>1, <3>1 DEF Forward
    <3>2. CASE s = -1
      BY <1>0, <1>1, <1>3, <2>1, <3>2 DEF Forward
    <3> QED BY <3>1, <3>2
  <2>3. Forward(s)'
    BY <1>2, <1>3, <2>1, <2>2 DEF Forward
  <2> QED BY <2>3
<1>7. NeverCrossesZero'
  <2> SUFFICES ASSUME slip = {} PROVE p * home >= 0 /\ (p + w) * home >= 0
    BY <1>2, <1>3 DEF NeverCrossesZero, SameSide
  <2>1. pos * home >= 0 /\ (pos + working) * home >= 0
    BY DEF HandInv, NeverCrossesZero, SameSide
  <2>2. (pos + d) * home >= 0
    BY <1>0, <1>1, <2>1, Between0
  <2>3. p + w = pos + working \/ p + w = pos + d
    BY <1>0, <1>3
  <2> QED BY <1>3, <2>1, <2>2, <2>3
<1>8. CompleteMeansClosed'
  BY <1>0, <1>1, <1>2 DEF HandInv, CompleteMeansClosed
<1>9. slip # {} \/ OnTheReading'
  <2> SUFFICES ASSUME slip = {} PROVE OnTheReading'
    OBVIOUS
  <2>0. OnTheReading
    BY DEF HandInv
  <2>1. ~(step \in {"sent", "reading"} /\ complete)
    BY <1>0, <1>1, <2>0 DEF OnTheReading
  <2>2. ASSUME step = "opened"
        PROVE  opened <= p * home /\ 0 <= w * home /\ ~complete
    <3>1. home \in {-1, 1} /\ opened <= pos * home /\ 0 <= working * home /\ ~complete
      BY <1>0, <1>1, <2>0, <2>2, CommandType DEF OnTheReading, HandInv
    <3>2. CASE home = 1
      BY <1>0, <1>1, <1>3, <3>1, <3>2
    <3>3. CASE home = -1
      BY <1>0, <1>1, <1>3, <3>1, <3>3
    <3> QED BY <3>1, <3>2, <3>3
  <2> QED BY <1>2, <1>3, <1>5, <2>0, <2>1, <2>2 DEF OnTheReading
<1> QED BY <1>2, <1>4, <1>5, <1>6, <1>7, <1>8, <1>9 DEF HandInv

\* The account shows what it has.
LEMMA CatchUpKeepsHand ==
    ASSUME HandInv, CatchUp
    PROVE  HandInv'
<1>0. /\ pos \in Int /\ working \in Int /\ view \in Int /\ pre \in Int
  BY DEF HandInv, HandTypes
<1>1. /\ view' = pos
      /\ UNCHANGED <<pos, working, home, slip, step, cmd, pre, had, last, opened, complete, rc, commands>>
  BY DEF CatchUp
<1>2. InOneDirection'
  <2> SUFFICES ASSUME step = "checking" PROVE \E s \in {-1, 1} : Forward(s)'
    BY <1>1 DEF InOneDirection
  <2>1. PICK s \in {-1, 1} : Forward(s)
    BY DEF HandInv, InOneDirection
  <2>2. s * (pos - pos) >= 0 /\ (pre = had => s * (pos - pre) >= 0)
    <3>1. CASE s = 1
      BY <1>0, <2>1, <3>1 DEF Forward
    <3>2. CASE s = -1
      BY <1>0, <2>1, <3>2 DEF Forward
    <3> QED BY <3>1, <3>2
  <2>3. Forward(s)'
    BY <1>1, <2>1, <2>2 DEF Forward
  <2> QED BY <2>3
<1>3. slip # {} \/ OnTheReading'
  BY <1>1 DEF HandInv, OnTheReading
<1> QED BY <1>1, <1>2, <1>3 DEF HandInv, HandTypes, NothingWorks, OrdersFirst,
        NeverCrossesZero, SameSide, CompleteMeansClosed

\* A command starts, and reads.
LEMMA ReadsKeepHand ==
    ASSUME HandInv, Start \/ ReadFirst
    PROVE  HandInv'
<1>0. /\ pos \in Int /\ working \in Int /\ view \in Int /\ pre \in Int /\ opened \in Nat
      /\ commands \in Nat
  BY DEF HandInv, HandTypes
<1>1. CASE Start
  <2>1. /\ cmd' \in Commands /\ commands' = commands + 1 /\ step' = "started"
        /\ complete' = TRUE /\ opened' = 0 /\ pre' = 0 /\ had' = 0 /\ last' = 0
        /\ UNCHANGED <<pos, view, working, home, slip, rc>>
    BY <1>1 DEF Start
  <2>2. complete' \in BOOLEAN /\ commands + 1 \in Nat
    BY <1>0, <2>1
  <2> QED BY <1>0, <2>1, <2>2 DEF HandInv, HandTypes, NothingWorks, InOneDirection, OnTheReading,
          NeverCrossesZero, SameSide, CompleteMeansClosed
<1>2. CASE ReadFirst
  <2>1. /\ step = "started" /\ pre' = view /\ had' = pos
        /\ UNCHANGED <<pos, view, working, home, slip, cmd, last, opened, complete, commands>>
        /\ \/ step' = "idle" /\ rc' = 2
           \/ step' = "checking" /\ rc' = rc /\ (OrdersFirst => working = 0)
    BY <1>2 DEF ReadFirst
  <2>2. InOneDirection'
    <3>1. PICK s \in {-1, 1} : s * working >= 0
      <4>1. CASE working >= 0
        BY <1>0, <4>1
      <4>2. CASE working < 0
        <5>1. PICK s \in {-1, 1} : s = -1
          OBVIOUS
        <5>2. s * working >= 0
          BY <1>0, <4>2, <5>1
        <5> QED BY <5>2
      <4> QED BY <1>0, <4>1, <4>2
    <3>2. s * (view - view) >= 0
      BY <1>0
    <3>3. Forward(s)'
      BY <2>1, <3>1, <3>2 DEF Forward
    <3> QED BY <3>3 DEF InOneDirection
  <2> QED BY <1>0, <2>1, <2>2 DEF HandInv, HandTypes, NothingWorks, OrdersFirst, OnTheReading,
          NeverCrossesZero, SameSide, CompleteMeansClosed
<1> QED BY <1>1, <1>2

\* The position a command acts on is the one there is, unless that is a slip: a
\* reading that was true twice has been true between.
LEMMA CheckKeepsHand ==
    ASSUME HandInv, Check
    PROVE  HandInv'
<1>0. /\ pos \in Int /\ working \in Int /\ view \in Int /\ pre \in Int
      /\ cmd.side \in {-1, 1} /\ cmd.qty \in Nat \ {0}
  BY CommandType DEF HandInv, HandTypes
<1>1. /\ step = "checking"
      /\ UNCHANGED <<pos, view, working, cmd, pre, had, last, opened, complete, commands>>
  BY DEF Check
<1>2. CASE step' = "idle" /\ rc' = 2 /\ UNCHANGED <<home, slip>>
  BY <1>0, <1>1, <1>2 DEF HandInv, HandTypes, NothingWorks, InOneDirection, OnTheReading,
     NeverCrossesZero, SameSide, CompleteMeansClosed
<1>3. CASE /\ step' = "sending" /\ rc' = rc /\ (OrdersFirst \/ working = 0)
           /\ home' = IF Smoke(cmd) THEN cmd.side ELSE -cmd.side
           /\ slip' = slip \cup Reasons
  <2>1. working = 0
    BY <1>1, <1>3 DEF HandInv, NothingWorks
  <2>2. HandTypes'
    <3>1. home' \in {-1, 0, 1}
      BY <1>0, <1>3
    <3>2. slip' \subseteq {"override", "lag", "moved"}
      BY <1>3 DEF HandInv, HandTypes, Reasons
    <3> QED BY <1>1, <1>3, <3>1, <3>2 DEF HandInv, HandTypes
  <2>3. CASE slip' # {}
    BY <1>1, <1>3, <2>1, <2>2, <2>3 DEF HandInv, NothingWorks, InOneDirection,
       NeverCrossesZero, SameSide, CompleteMeansClosed
  <2>4. CASE slip' = {}
    <3>1. slip = {} /\ Fits /\ Position = Had /\ Had = pos
      BY <1>3, <2>4 DEF Reasons
    <3>2. view = pos
      <4>1. CASE OrdersFirst
        BY <3>1, <4>1 DEF Position
      <4>2. CASE ~OrdersFirst
        <5>1. pre = pos /\ pre = had
          BY <3>1, <4>2 DEF Position, Had
        <5>2. PICK s \in {-1, 1} : Forward(s)
          BY <1>1 DEF HandInv, InOneDirection
        <5>3. CASE s = 1
          BY <1>0, <1>1, <5>1, <5>2, <5>3 DEF Forward
        <5>4. CASE s = -1
          BY <1>0, <1>1, <5>1, <5>2, <5>4 DEF Forward
        <5> QED BY <5>3, <5>4
      <4> QED BY <4>1, <4>2
    <3>3. IF Smoke(cmd) THEN home' = cmd.side /\ pos = 0
          ELSE home' = -cmd.side /\ pre = pos /\ cmd.qty <= pos * home'
      <4>1. CASE Smoke(cmd)
        BY <1>3, <3>1, <4>1 DEF Fits
      <4>2. CASE ~Smoke(cmd)
        <5>1. SignOf(pos) = -cmd.side /\ cmd.qty <= Magnitude(pos) /\ home' = -cmd.side
          BY <1>3, <3>1, <4>2 DEF Fits, Closes
        <5>2. pre = pos
          BY <3>1, <4>2 DEF Position, OrdersFirst, Smoke
        <5>3. CASE pos > 0
          BY <1>0, <5>1, <5>2, <4>2, <5>3 DEF SignOf, Magnitude
        <5>4. CASE pos < 0
          BY <1>0, <5>1, <5>2, <4>2, <5>4 DEF SignOf, Magnitude
        <5>5. pos # 0
          BY <1>0, <5>1 DEF SignOf
        <5> QED BY <1>0, <5>3, <5>4, <5>5
      <4> QED BY <4>1, <4>2
    <3>4. OnTheReading'
      <4>1. Smoke(cmd)' = Smoke(cmd)
        BY <1>1 DEF Smoke
      <4> QED BY <1>1, <1>3, <3>2, <3>3, <4>1 DEF OnTheReading
    <3>5. pos * home' >= 0 /\ (pos + working) * home' >= 0
      <4>1. pos + working = pos
        BY <1>0, <2>1
      <4>2. pos * home' >= 0
        BY <1>0, <3>3
      <4> QED BY <4>1, <4>2
    <3> QED BY <1>1, <1>3, <2>1, <2>2, <3>4, <3>5 DEF HandInv, NothingWorks, InOneDirection,
            NeverCrossesZero, SameSide, CompleteMeansClosed
  <2> QED BY <2>3, <2>4
<1> QED BY <1>2, <1>3 DEF Check

\* What an order does, and what is reported of it.
LEMMA ExecutesType ==
    ASSUME HandTypes, NEW s \in {-1, 1}, NEW q \in Nat, Executes(s, q)
    PROVE  \E done \in Nat, told \in Nat :
             /\ told <= done /\ done <= q
             /\ pos' = pos + s * done /\ view' \in {view, pos'} /\ opened' = told
             /\ working' = working \/ (working' = working + s * (q - done) /\ told < q)
             /\ complete' = (complete /\ told = q)
<1>1. PICK done \in 0..q, told \in 0..q :
        /\ told <= done
        /\ pos' = pos + s * done /\ view' \in {view, pos'} /\ opened' = told
        /\ working' \in {working} \cup (IF told < q THEN {working + s * (q - done)} ELSE {})
        /\ complete' = (complete /\ told = q)
  BY DEF Executes
<1>2. done \in Nat /\ told \in Nat /\ done <= q
  BY <1>1
<1>3. working' = working \/ (working' = working + s * (q - done) /\ told < q)
  BY <1>1
<1> QED BY <1>1, <1>2, <1>3, Zenon

\* An order of a command moves the types to types.
LEMMA ExecutesKeepsTypes ==
    ASSUME HandTypes, NEW s \in {-1, 1}, NEW q \in Nat, Executes(s, q),
           step' \in {"opened", "sent"}, UNCHANGED <<home, slip, cmd, pre, had, last, rc, commands>>
    PROVE  HandTypes'
<1>1. PICK done \in Nat, told \in Nat :
        /\ pos' = pos + s * done /\ view' \in {view, pos'} /\ opened' = told
        /\ working' = working \/ working' = working + s * (q - done)
        /\ complete' = (complete /\ told = q)
  <2>1. \E done \in Nat, told \in Nat :
             /\ told <= done /\ done <= q
             /\ pos' = pos + s * done /\ view' \in {view, pos'} /\ opened' = told
             /\ working' = working \/ (working' = working + s * (q - done) /\ told < q)
             /\ complete' = (complete /\ told = q)
    BY ExecutesType
  <2> QED BY <2>1, Zenon
<1>2. pos + s * done \in Int /\ working + s * (q - done) \in Int
  <2>1. pos \in Int /\ working \in Int /\ q - done \in Int
    BY DEF HandTypes
  <2>2. s * done \in Int /\ s * (q - done) \in Int
    BY <2>1, SidedNumber
  <2> QED BY <2>1, <2>2
<1>3. complete' \in BOOLEAN
  BY <1>1
<1> QED BY <1>1, <1>2, <1>3 DEF HandTypes

\* The order of a close, or the first one of a smoke.
LEMMA SendKeepsHand ==
    ASSUME HandInv, SendOrder
    PROVE  HandInv'
<1>0. /\ pos \in Int /\ cmd.side \in {-1, 1} /\ cmd.qty \in Nat \ {0} /\ HandTypes
      /\ step = "sending" /\ working = 0 /\ Executes(cmd.side, cmd.qty)
      /\ step' = (IF Smoke(cmd) THEN "opened" ELSE "sent")
      /\ UNCHANGED <<home, slip, cmd, pre, had, last, rc, commands>>
  BY CommandType DEF HandInv, HandTypes, NothingWorks, SendOrder
<1>1. HandTypes'
  BY <1>0, ExecutesKeepsTypes
<1>2. Smoke(cmd)' = Smoke(cmd)
  BY <1>0 DEF Smoke
<1>3. /\ NothingWorks' /\ InOneDirection' /\ CompleteMeansClosed'
      /\ (step = "opened" => Smoke(cmd))'
  BY <1>0, <1>2 DEF NothingWorks, InOneDirection, CompleteMeansClosed
<1>4. CASE slip # {}
  BY <1>0, <1>1, <1>3, <1>4 DEF HandInv, NeverCrossesZero, SameSide
<1>5. CASE slip = {}
  <2> DEFINE s == cmd.side
             q == cmd.qty
  <2>1. PICK done \in Nat, told \in Nat :
          /\ told <= done /\ done <= q
          /\ pos' = pos + s * done /\ view' \in {view, pos'} /\ opened' = told
          /\ working' = 0 \/ (working' = s * (q - done) /\ told < q)
          /\ complete' = (complete /\ told = q)
    <3>1. \A n \in Int : s * n \in Int /\ 0 + s * n = s * n
      BY <1>0
    <3>2. \A n \in Nat : q - n \in Int
      BY <1>0
    <3>3. \A n \in Nat : 0 + s * (q - n) = s * (q - n)
      BY <3>1, <3>2
    <3> HIDE DEF s, q
    <3>4. PICK done \in Nat, told \in Nat :
          /\ told <= done /\ done <= q
          /\ pos' = pos + s * done /\ view' \in {view, pos'} /\ opened' = told
          /\ working' = working \/ (working' = working + s * (q - done) /\ told < q)
          /\ complete' = (complete /\ told = q)
      BY <1>0, ExecutesType DEF s, q
    <3>5. working' = 0 \/ (working' = s * (q - done) /\ told < q)
      BY <1>0, <3>3, <3>4
    <3> QED BY <3>4, <3>5, Zenon
  <2>2. PICK w \in Int : working' = w /\ (w = 0 \/ (w = s * (q - done) /\ told < q))
    BY <1>0, <2>1
  <2>3. PICK p \in Int : pos' = p /\ p = pos + s * done
    BY <1>0, <2>1
  <2>4. complete' => told = q /\ done = q /\ w = 0
    <3>1. complete' => told = q
      BY <2>1
    <3>2. told = q => done = q /\ w = 0
      <4> HIDE DEF s, q
      <4> QED BY <1>0, <2>1, <2>2 DEF q
    <3> QED BY <3>1, <3>2
  <2>5. OnTheReading
    BY <1>5 DEF HandInv
  <2>6. CASE Smoke(cmd)
    <3>1. home = s /\ pos = 0
      BY <1>0, <2>5, <2>6 DEF OnTheReading
    <3>2. told <= p * s /\ 0 <= w * s /\ (p + w) * s >= 0 /\ p * s >= 0
          /\ (told = done => p = told * s)
      <4>1. CASE s = 1
        BY <1>0, <2>1, <2>2, <2>3, <3>1, <4>1
      <4>2. CASE s = -1
        BY <1>0, <2>1, <2>2, <2>3, <3>1, <4>2
      <4> QED BY <1>0, <4>1, <4>2
    <3>3. OnTheReading'
      BY <1>0, <1>2, <2>1, <2>2, <2>3, <2>4, <2>6, <3>1, <3>2 DEF OnTheReading
    <3>4. NeverCrossesZero'
      BY <1>0, <2>2, <2>3, <3>1, <3>2 DEF NeverCrossesZero, SameSide
    <3> QED BY <1>1, <1>3, <3>3, <3>4 DEF HandInv
  <2>7. CASE ~Smoke(cmd)
    <3>1. home = -s /\ pre = pos /\ q <= pos * home /\ view = pos
      BY <1>0, <2>5, <2>7 DEF OnTheReading
    <3>2. p * home >= 0 /\ (p + w) * home >= 0 /\ pre # 0
      <4>1. CASE s = 1
        BY <1>0, <2>1, <2>2, <2>3, <3>1, <4>1
      <4>2. CASE s = -1
        BY <1>0, <2>1, <2>2, <2>3, <3>1, <4>2
      <4> QED BY <1>0, <4>1, <4>2
    <3>3. OnTheReading'
      <4>1. step' = "sent" /\ view' \in {pre, p} /\ pre' = pre /\ cmd' = cmd
        BY <1>0, <2>1, <2>3, <2>7, <3>1
      <4>2. ASSUME complete'
            PROVE  working' = 0 /\ p = pre + s * told /\ opened' = told /\ told # 0
        BY <1>0, <2>1, <2>2, <2>3, <2>4, <3>1, <4>2
      <4> QED BY <1>2, <2>3, <2>7, <3>2, <4>1, <4>2 DEF OnTheReading
    <3>4. NeverCrossesZero'
      BY <1>0, <2>2, <2>3, <3>2 DEF NeverCrossesZero, SameSide
    <3> QED BY <1>1, <1>3, <3>3, <3>4 DEF HandInv
  <2> QED BY <2>6, <2>7
<1> QED BY <1>4, <1>5

\* A smoke closes what its first order was reported to have opened.
LEMMA SmokeKeepsHand ==
    ASSUME HandInv, SmokeCloses
    PROVE  HandInv'
<1>0. /\ pos \in Int /\ working \in Int /\ opened \in Nat /\ cmd.side \in {-1, 1} /\ HandTypes
      /\ step = "opened" /\ Smoke(cmd)
      /\ UNCHANGED <<home, slip, cmd, pre, had, last, commands>>
  BY CommandType DEF HandInv, HandTypes, SmokeCloses
<1>1. CASE opened = 0
  BY <1>0, <1>1 DEF SmokeCloses, HandInv, HandTypes, NothingWorks, InOneDirection, OnTheReading,
     NeverCrossesZero, SameSide, CompleteMeansClosed
<1>2. CASE opened # 0
  <2> DEFINE s == -cmd.side
             q == opened
  <2>0. s \in {-1, 1} /\ Executes(s, q) /\ step' = "sent" /\ rc' = rc
    BY <1>0, <1>2 DEF SmokeCloses, CloseSize
  <2>1. HandTypes'
    BY <1>0, <2>0, ExecutesKeepsTypes
  <2>2. Smoke(cmd)' = Smoke(cmd)
    BY <1>0 DEF Smoke
  <2>3. /\ NothingWorks' /\ InOneDirection' /\ CompleteMeansClosed'
        /\ (step = "opened" => Smoke(cmd))'
    BY <2>0 DEF NothingWorks, InOneDirection, CompleteMeansClosed
  <2>4. CASE slip # {}
    BY <1>0, <2>0, <2>1, <2>3, <2>4 DEF HandInv, NeverCrossesZero, SameSide
  <2>5. CASE slip = {}
    <3> HIDE DEF s, q
    <3>1. PICK done \in Nat, told \in Nat :
            /\ told <= done /\ done <= q
            /\ pos' = pos + s * done /\ view' \in {view, pos'} /\ opened' = told
            /\ working' = working \/ (working' = working + s * (q - done) /\ told < q)
            /\ complete' = (complete /\ told = q)
      BY <1>0, <2>0, ExecutesType DEF q
    <3>2. PICK p \in Int : pos' = p /\ p = pos + s * done
      BY <1>0, <2>0, <3>1
    <3>3. PICK w \in Int : working' = w /\ (w = working \/ (w = working + s * (q - done) /\ told < q))
      BY <1>0, <2>0, <3>1 DEF q
    <3>4. home \in {-1, 1} /\ s = 0 - home /\ q <= pos * home /\ 0 <= working * home
          /\ (complete => working = 0 /\ pos = q * home)
      <4>1. OnTheReading
        BY <2>5 DEF HandInv
      <4> QED BY <1>0, <4>1 DEF OnTheReading, s, q
    <3>5. /\ p * home >= 0 /\ (p + w) * home >= 0
          /\ (complete /\ told = q => w = 0 /\ p = 0)
      <4>0. q \in Nat
        BY <1>0 DEF q
      <4>1. CASE home = 1
        BY <1>0, <3>1, <3>2, <3>3, <3>4, <4>0, <4>1
      <4>2. CASE home = -1
        BY <1>0, <3>1, <3>2, <3>3, <3>4, <4>0, <4>2
      <4> QED BY <3>4, <4>1, <4>2
    <3>6. complete' => complete /\ told = q
      BY <3>1
    <3>7. OnTheReading'
      BY <1>0, <2>0, <2>2, <3>2, <3>3, <3>5, <3>6 DEF OnTheReading
    <3>8. NeverCrossesZero'
      BY <1>0, <3>2, <3>3, <3>5 DEF NeverCrossesZero, SameSide
    <3> QED BY <2>1, <2>3, <3>7, <3>8 DEF HandInv
  <2> QED BY <2>4, <2>5
<1> QED BY <1>1, <1>2

\* The first of the last reads changes nothing.
LEMMA ReadLastKeepsHand ==
    ASSUME HandInv, ReadLast
    PROVE  HandInv'
<1>1. /\ step = "sent" /\ step' = "reading" /\ last' \in {working, view}
      /\ UNCHANGED <<pos, view, working, home, slip, cmd, pre, had, opened, complete, rc, commands>>
  BY DEF ReadLast
<1> QED BY <1>1 DEF HandInv, HandTypes, NothingWorks, InOneDirection, OnTheReading, Smoke,
        NeverCrossesZero, SameSide, CompleteMeansClosed

\* The last reads: a stale view never shows what the command was for.
LEMMA EndKeepsHand ==
    ASSUME HandInv, End
    PROVE  HandInv'
<1>1. /\ step = "reading" /\ step' = "idle" /\ rc' \in {0, 1}
      /\ UNCHANGED <<pos, view, working, home, slip, cmd, pre, had, last, opened, complete, commands>>
      /\ rc' = 0 => IF PositionLast THEN Success(view, last) ELSE Success(last, working)
  BY DEF End
<1>2. ASSUME rc' = 0, slip = {}
      PROVE  working = 0 /\ pos = IF cmd.name = "ibkr_close" THEN pre + cmd.side * opened ELSE 0
  <2>1. complete /\ (PositionLast => view = 0)
    BY <1>1, <1>2 DEF Success, PositionLast
  <2>2. /\ working = 0
        /\ IF Smoke(cmd) THEN pos = 0
           ELSE pos = pre + cmd.side * opened /\ view \in {pre, pos} /\ pre # 0
    BY <1>1, <1>2, <2>1 DEF HandInv, OnTheReading
  <2>3. CASE Smoke(cmd)
    BY <2>2, <2>3 DEF Smoke
  <2>4. CASE ~Smoke(cmd)
    <3>1. cmd.name \in {"ibkr_close", "fubon_close"}
      BY <2>4, CommandType DEF Smoke, Names, HandInv
    <3> QED BY <2>1, <2>2, <2>4, <3>1 DEF PositionLast
  <2> QED BY <2>3, <2>4
<1>3. HandTypes'
  BY <1>1 DEF HandInv, HandTypes
<1>4. CompleteMeansClosed'
  BY <1>1, <1>2 DEF CompleteMeansClosed
<1> QED BY <1>1, <1>3, <1>4 DEF HandInv, NothingWorks, InOneDirection, OnTheReading,
        NeverCrossesZero, SameSide

\* HandInv through every step.
LEMMA HandSteps == HandInv /\ [HandNext]_handVars => HandInv'
<1>1. HandInv /\ UNCHANGED handVars => HandInv'
  BY DEF HandInv, HandTypes, NothingWorks, OrdersFirst, InOneDirection, Forward,
         OnTheReading, Smoke, NeverCrossesZero, SameSide, CompleteMeansClosed, handVars
<1> QED BY <1>1, FillsKeepHand, CatchUpKeepsHand, ReadsKeepHand, CheckKeepsHand,
        SendKeepsHand, SmokeKeepsHand, ReadLastKeepsHand, EndKeepsHand DEF HandNext

\* No sequence of commands, partial fills, lost orders and late views crosses zero,
\* unless a check was overridden, read a position that lagged, or one that moved
\* before the order was sent.
THEOREM ZeroNeverCrossed == HandSpec => []NeverCrossesZero
<1>1. HandInv => NeverCrossesZero
  BY DEF HandInv
<1> QED BY <1>1, HandStarts, HandSteps, PTL DEF HandSpec

\* Exit code 0 tells the truth about the account.
THEOREM CompleteIsClosed == HandSpec => []CompleteMeansClosed
<1>1. HandInv => CompleteMeansClosed
  BY DEF HandInv
<1> QED BY <1>1, HandStarts, HandSteps, PTL DEF HandSpec

-----------------------------------------------------------------------------
(* The commands that trade by hand: the bounds of their types *)

\* Within the bound the orders keep to.
Within(p) == -2 * MaxQty <= p /\ p <= 2 * MaxQty

\* Where the account is and may get to keeps within the bounds; while a smoke has
\* its position open, so does what closing it leaves.
HandBounds ==
    /\ Within(pos) /\ Within(pos + working) /\ Within(view) /\ Within(had) /\ Within(last)
    /\ working \in Sizes /\ opened \in 0..MaxQty /\ commands \in 0..MaxCommands
    /\ step = "opened" =>
         /\ Within(pos - cmd.side * opened) /\ Within(pos + working - cmd.side * opened)
         /\ 0 <= working * cmd.side

\* What is between two bounded positions is bounded.
LEMMA WithinBetween ==
    ASSUME NEW p \in Int, NEW q \in Int, NEW r \in Int, Within(p), Within(q),
           (p <= r /\ r <= q) \/ (q <= r /\ r <= p)
    PROVE  Within(r)
BY HandAssumption DEF Within

LEMMA HandStartsBounded == HandInit => HandBounds
<1> SUFFICES ASSUME HandInit PROVE HandBounds
  OBVIOUS
<1>1. pos \in Sizes /\ working \in Sizes /\ view = pos /\ MaxQty \in Nat
      /\ pos * working <= 0 /\ Magnitude(working) <= Magnitude(pos)
  BY HandAssumption DEF HandInit
<1>2. pos + working \in Sizes
  <2>1. CASE pos > 0
    BY <1>1, <2>1 DEF Sizes, Magnitude
  <2>2. CASE pos < 0
    BY <1>1, <2>2 DEF Sizes, Magnitude
  <2>3. CASE pos = 0
    BY <1>1, <2>3 DEF Sizes
  <2> QED BY <1>1, <2>1, <2>2, <2>3 DEF Sizes
<1>3. \A p \in Sizes : Within(p)
  BY <1>1 DEF Sizes, Within
<1>4. opened \in 0..MaxQty /\ commands \in 0..MaxCommands /\ step = "idle" /\ had \in Sizes /\ last \in Sizes
  BY HandAssumption DEF HandInit, Sizes
<1> QED BY <1>1, <1>2, <1>3, <1>4 DEF HandBounds

LEMMA FillsKeepBounds ==
    ASSUME HandInv, HandBounds, WorkingFills
    PROVE  HandBounds'
<1>0. /\ pos \in Int /\ working \in Int /\ opened \in Nat /\ MaxQty \in Nat
      /\ cmd.side \in {-1, 1}
      /\ UNCHANGED <<view, had, last, step, cmd, opened, commands>>
  BY HandAssumption, CommandType DEF HandInv, HandTypes, WorkingFills
<1>1. PICK n \in 1..Magnitude(working) :
          pos' = pos + SignOf(working) * n /\ working' \in {working - SignOf(working) * n, 0}
  BY DEF WorkingFills
<1>2. PICK d \in Int, w \in Int :
        /\ (0 < d /\ d <= working) \/ (working <= d /\ d < 0)
        /\ pos' = pos + d /\ working' = w /\ (w = working - d \/ w = 0)
  <2>1. CASE working > 0
    <3>1. SignOf(working) * n = n /\ n \in Int /\ 0 < n /\ n <= working
      BY <1>0, <1>1, <2>1 DEF Magnitude, SignOf
    <3> QED BY <1>0, <1>1, <3>1
  <2>2. CASE working < 0
    <3>1. SignOf(working) * n = 0 - n /\ 0 - n \in Int /\ 0 - n < 0 /\ working <= 0 - n
      BY <1>0, <1>1, <2>2 DEF Magnitude, SignOf
    <3> QED BY <1>0, <1>1, <3>1
  <2>3. working # 0
    BY <1>1 DEF Magnitude
  <2> QED BY <1>0, <2>1, <2>2, <2>3
<1>3. w \in Sizes
  BY <1>0, <1>2 DEF HandBounds, Sizes
<1>4. Within(pos + d) /\ Within(pos + d + w)
  BY <1>0, <1>2, WithinBetween DEF HandBounds
<1>5. ASSUME step = "opened"
      PROVE  /\ Within(pos + d - cmd.side * opened) /\ Within(pos + d + w - cmd.side * opened)
             /\ 0 <= w * cmd.side
  <2> DEFINE c == cmd.side * opened
  <2>1. c \in Int
    BY <1>0
  <2>2. Within(pos - c) /\ Within(pos + working - c) /\ 0 <= working * cmd.side
    BY <1>5 DEF HandBounds
  <2> HIDE DEF c
  <2>3. Within(pos + d - c) /\ Within(pos + d + w - c)
    BY <1>0, <1>2, <2>1, <2>2, WithinBetween
  <2>4. 0 <= w * cmd.side
    BY <1>0, <1>2, <2>2
  <2> QED BY <2>3, <2>4 DEF c
<1> QED BY <1>0, <1>2, <1>3, <1>4, <1>5 DEF HandBounds

LEMMA SendKeepsBounds ==
    ASSUME HandInv, HandBounds, SendOrder
    PROVE  HandBounds'
<1> DEFINE s == cmd.side
           q == cmd.qty
<1>0. /\ pos \in Int /\ s \in {-1, 1} /\ q \in 1..MaxQty /\ q \in Nat /\ HandTypes
      /\ MaxQty \in Nat /\ working = 0 /\ Executes(s, q) /\ step' \in {"opened", "sent"}
      /\ UNCHANGED <<cmd, had, last, commands>>
  BY HandAssumption, CommandType DEF HandInv, HandTypes, NothingWorks, SendOrder, Commands
<1>1. \A n \in Int : s * n = n \/ s * n = 0 - n
  BY <1>0
<1>2. Within(pos + s * q)
  <2>1. Magnitude(pos + s * q) <= 2 * MaxQty
    BY <1>0 DEF Executes
  <2> HIDE DEF s, q
  <2> QED BY <1>0, <2>1 DEF Magnitude, Within
<1> HIDE DEF s, q
<1>3. PICK done \in Nat, told \in Nat :
        /\ told <= done /\ done <= q
        /\ pos' = pos + s * done /\ view' \in {view, pos'} /\ opened' = told
        /\ working' = working \/ (working' = working + s * (q - done) /\ told < q)
        /\ complete' = (complete /\ told = q)
  BY <1>0, ExecutesType
<1>4. PICK w \in Int, p \in Int : working' = w /\ (w = 0 \/ w = s * (q - done)) /\ pos' = p /\ p = pos + s * done
  BY <1>0, <1>3
<1>5. /\ w \in Sizes /\ told \in 0..MaxQty /\ 0 <= w * s
      /\ (pos <= p /\ p <= pos + s * q) \/ (pos + s * q <= p /\ p <= pos)
      /\ (pos <= p + w /\ p + w <= pos + s * q) \/ (pos + s * q <= p + w /\ p + w <= pos)
      /\ (pos <= p - s * told /\ p - s * told <= pos + s * q)
         \/ (pos + s * q <= p - s * told /\ p - s * told <= pos)
      /\ (pos <= p + w - s * told /\ p + w - s * told <= pos + s * q)
         \/ (pos + s * q <= p + w - s * told /\ p + w - s * told <= pos)
      /\ s * told \in Int /\ pos + s * q \in Int
  <2>1. CASE s = 1
    BY <1>0, <1>3, <1>4, <2>1 DEF Sizes
  <2>2. CASE s = -1
    BY <1>0, <1>3, <1>4, <2>2 DEF Sizes
  <2> QED BY <1>0, <2>1, <2>2
<1>6. Within(pos) /\ Within(view) /\ Within(had) /\ Within(last)
  BY DEF HandBounds
<1>7. Within(p) /\ Within(p + w) /\ Within(p - s * told) /\ Within(p + w - s * told)
  <2> DEFINE c == s * told
             e == pos + s * q
  <2>1. c \in Int /\ e \in Int /\ p - c \in Int /\ p + w \in Int /\ p + w - c \in Int
    BY <1>4, <1>5
  <2> HIDE DEF c, e
  <2> QED BY <1>0, <1>2, <1>4, <1>5, <1>6, <2>1, WithinBetween DEF c, e
<1>8. Within(view')
  BY <1>3, <1>4, <1>6, <1>7
<1> QED BY <1>0, <1>3, <1>4, <1>5, <1>6, <1>7, <1>8 DEF HandBounds, s

\* An order to the other side moves the account by as much the other way.
LEMMA OppositeSides ==
    ASSUME NEW c \in {-1, 1}, NEW d \in {-1, 1}, d + c = 0, NEW n \in Int, NEW w \in Int
    PROVE  d * n = 0 - c * n /\ c * n \in Int /\ w * (0 - d) = w * c
<1>1. CASE c = 1 /\ d = -1
  BY <1>1
<1>2. CASE c = -1 /\ d = 1
  BY <1>2
<1> QED BY <1>1, <1>2

LEMMA SmokeKeepsBounds ==
    ASSUME HandInv, HandBounds, SmokeCloses
    PROVE  HandBounds'
<1> DEFINE s == -cmd.side
           q == opened
<1>0. /\ pos \in Int /\ working \in Int /\ cmd.side \in {-1, 1} /\ s \in {-1, 1}
      /\ q \in 0..MaxQty /\ q \in Nat /\ HandTypes
      /\ MaxQty \in Nat /\ step = "opened" /\ UNCHANGED <<cmd, had, last, commands>>
      /\ working \in Sizes /\ 0 <= working * cmd.side
      /\ Within(pos) /\ Within(pos + working) /\ Within(view) /\ Within(had) /\ Within(last)
      /\ Within(pos - cmd.side * opened) /\ Within(pos + working - cmd.side * opened)
  BY HandAssumption, CommandType DEF HandInv, HandTypes, SmokeCloses, HandBounds
<1>1. CASE opened = 0
  BY <1>1 DEF SmokeCloses, HandBounds
<1>2. CASE opened # 0
  <2>1. Executes(s, q) /\ step' = "sent"
    BY <1>2 DEF SmokeCloses, CloseSize
  <2>2. /\ Within(pos + s * q) /\ Within(pos + working + s * q) /\ 0 <= working * (0 - s)
        /\ s * q \in Int
    <3> DEFINE c == cmd.side
    <3>1. /\ s + c = 0 /\ c \in {-1, 1} /\ s \in {-1, 1} /\ q \in Int /\ working \in Int /\ pos \in Int
          /\ Within(pos - c * q) /\ Within(pos + working - c * q) /\ 0 <= working * c
      BY <1>0
    <3> HIDE DEF s, q, c
    <3>2. s * q = 0 - c * q /\ c * q \in Int /\ working * (0 - s) = working * c
      BY <3>1, OppositeSides
    <3>3. pos + s * q = pos - c * q /\ pos + working + s * q = pos + working - c * q /\ s * q \in Int
      BY <3>1, <3>2
    <3> QED BY <3>1, <3>2, <3>3
  <2> HIDE DEF s, q
  <2>3. PICK done \in Nat, told \in Nat :
          /\ told <= done /\ done <= q
          /\ pos' = pos + s * done /\ view' \in {view, pos'} /\ opened' = told
          /\ working' = working \/ (working' = working + s * (q - done) /\ told < q)
          /\ complete' = (complete /\ told = q)
    BY <1>0, <2>1, ExecutesType
  <2>4. PICK w \in Int, p \in Int :
          /\ working' = w /\ (w = working \/ w = working + s * (q - done))
          /\ pos' = p /\ p = pos + s * done
    <3>1. s * done \in Int /\ s * (q - done) \in Int
      BY <1>0
    <3> QED BY <1>0, <2>3, <3>1
  <2> DEFINE e == s * q
  <2>5. /\ w \in Sizes /\ told \in 0..MaxQty
        /\ (pos <= p /\ p <= pos + e) \/ (pos + e <= p /\ p <= pos)
        /\ (pos + working <= p + w /\ p + w <= pos + working + e)
           \/ (pos + working + e <= p + w /\ p + w <= pos + working)
    <3>1. CASE s = 1
      BY <1>0, <2>2, <2>3, <2>4, <3>1 DEF Sizes
    <3>2. CASE s = -1
      BY <1>0, <2>2, <2>3, <2>4, <3>2 DEF Sizes
    <3> QED BY <1>0, <3>1, <3>2
  <2>6. Within(p) /\ Within(p + w)
    <3>1. pos + e \in Int /\ pos + working + e \in Int /\ p + w \in Int /\ pos + working \in Int
      BY <1>0, <2>2, <2>4
    <3>2. Within(pos + e) /\ Within(pos + working + e)
      BY <2>2
    <3> HIDE DEF e
    <3> QED BY <1>0, <2>4, <2>5, <3>1, <3>2, WithinBetween
  <2>7. Within(view')
    BY <1>0, <2>3, <2>4, <2>6
  <2> QED BY <1>0, <2>1, <2>3, <2>4, <2>5, <2>6, <2>7 DEF HandBounds
<1> QED BY <1>1, <1>2

\* The bounds of HandTypeOK are kept by every step, for any sizes and commands.
LEMMA HandStepsBounded ==
    ASSUME HandInv, HandBounds, [HandNext]_handVars
    PROVE  HandBounds'
<1>1. CASE CatchUp
  BY <1>1 DEF CatchUp, HandBounds
<1>2. CASE Start
  <2>1. /\ commands \in Nat /\ commands < MaxCommands /\ commands' = commands + 1
        /\ opened' = 0 /\ step' = "started" /\ UNCHANGED <<pos, view, working>>
        /\ had' = 0 /\ last' = 0
        /\ MaxCommands \in Nat /\ MaxQty \in Nat
    BY <1>2, HandAssumption DEF Start, HandInv, HandTypes
  <2>2. commands' \in 0..MaxCommands /\ opened' \in 0..MaxQty /\ Within(had') /\ Within(last')
    BY <2>1 DEF Within
  <2> QED BY <2>1, <2>2 DEF HandBounds
<1>3. CASE ReadFirst
  BY <1>3 DEF ReadFirst, HandBounds
<1>4. CASE Check
  BY <1>4 DEF Check, HandBounds
<1>5. CASE End
  BY <1>5 DEF End, HandBounds
<1>6. CASE ReadLast
  <2>1. Within(working)
    BY HandAssumption DEF HandBounds, Sizes, Within
  <2> QED BY <1>6, <2>1 DEF ReadLast, HandBounds
<1>7. CASE UNCHANGED handVars
  BY <1>7 DEF handVars, HandBounds
<1> QED BY <1>1, <1>2, <1>3, <1>4, <1>5, <1>6, <1>7, FillsKeepBounds, SendKeepsBounds, SmokeKeepsBounds
        DEF HandNext

LEMMA HandTypesMeanTypeOK == HandInv /\ HandBounds => HandTypeOK
<1> SUFFICES ASSUME HandInv, HandBounds PROVE HandTypeOK
  OBVIOUS
<1>1. /\ {pos, view, working, pre, had, last} \subseteq Int /\ MaxQty \in Nat
      /\ cmd \in Commands
      /\ step \in {"idle", "started", "checking", "sending", "opened", "sent", "reading"}
      /\ complete \in BOOLEAN
      /\ slip \subseteq {"override", "lag", "moved"}
      /\ home \in {-1, 0, 1} /\ rc \in 0..2
  BY HandAssumption DEF HandInv, HandTypes
<1>2. {pos, view, working, had, last} \subseteq -2 * MaxQty..2 * MaxQty
  BY <1>1 DEF HandBounds, Within, Sizes
<1>3. home \in -1..1
  BY <1>1
<1> QED BY <1>1, <1>2, <1>3 DEF HandTypeOK, HandBounds

-----------------------------------------------------------------------------
(* The strategy's books *)

Strategies == [st : States, direction : -1..1, candidate : -1..1,
               waited : 0..MaxDelay + 1, entryFee : {0, EntryFee}, realized : Int]
Ledgers == [s : Strategies, filled : Int, booked : Int]

\* BooksMatchPosition of a ledger that a bar is working on, and that nothing is
\* still to be charged without a position: an entry books its own fee alone.
Balanced(l) ==
    /\ l \in Ledgers
    /\ l.filled = l.s.direction
    /\ l.s.realized = l.booked - l.s.entryFee
    /\ l.s.st \in {"OPEN", "EXIT_PENDING"} => l.s.direction # 0
    /\ l.s.st \in {"FLAT", "ENTRY_PENDING", "FORCED_CLOSED"} => l.s.direction = 0
    /\ l.s.st = "ENTRY_PENDING" <=> l.s.candidate # 0
    /\ l.s.st # "ERROR"
    /\ l.s.direction = 0 => l.s.entryFee = 0

\* A pending entry fills, or is cancelled.
LEMMA EntryBalances ==
    ASSUME NEW l, Balanced(l), l.s.st = "ENTRY_PENDING"
    PROVE  /\ Balanced(Entered(l)) /\ Balanced(Cancelled(l))
           /\ Cancelled(l).s.st = "FLAT" /\ Entered(l).s.st = "OPEN"
<1> DEFINE e == Entered(l)
           c == Cancelled(l)
<1>1. /\ l \in Ledgers /\ l.s \in Strategies /\ l.s.direction = 0 /\ l.s.candidate # 0
      /\ l.s.entryFee = 0 /\ l.filled = 0 /\ l.s.realized = l.booked
      /\ l.booked \in Int /\ l.s.realized \in Int /\ l.s.candidate \in -1..1
  BY DEF Balanced, Ledgers, Strategies
<1>2. 0 \in 0..MaxDelay + 1
  BY StrategyAssumption
<1> DEFINE k == Cleared(l.s)
<1>3. k \in Strategies /\ k.realized = l.s.realized
  BY <1>1, <1>2 DEF Cleared, Strategies
<1>4. e.s = [k EXCEPT !.st = "OPEN", !.direction = l.s.candidate, !.entryFee = EntryFee,
                      !.realized = @ - EntryFee]
      /\ e.filled = l.filled + l.s.candidate /\ e.booked = l.booked
  BY <1>1 DEF Entered, Ledgers
<1>5. Balanced(e) /\ e.s.st = "OPEN"
  <2>1. k.candidate = 0
    BY <1>1 DEF Cleared, Strategies
  <2> HIDE DEF k
  <2>2. e.s.st = "OPEN" /\ e.s.direction = l.s.candidate /\ e.s.candidate = 0
        /\ e.s.entryFee = EntryFee /\ e.s.realized = l.s.realized - EntryFee
    BY <1>3, <1>4, <2>1 DEF Strategies
  <2>3. l.s.realized - EntryFee \in Int /\ "OPEN" \in States /\ EntryFee \in {0, EntryFee}
    BY <1>1 DEF EntryFee, States
  <2>4. [k EXCEPT !.st = "OPEN", !.direction = l.s.candidate, !.entryFee = EntryFee,
                  !.realized = @ - EntryFee] \in Strategies
    BY <1>1, <1>3, <2>3 DEF Strategies
  <2>5. e \in Ledgers
    <3>1. l.filled + l.s.candidate \in Int
      BY <1>1
    <3> QED BY <1>1, <2>4, <3>1 DEF Entered, Ledgers, k
  <2> HIDE DEF e
  <2> QED BY <1>1, <1>4, <2>2, <2>5 DEF Balanced, EntryFee
<1>6. c.s \in Strategies /\ c.s = [l.s EXCEPT !.candidate = 0, !.waited = 0, !.st = "FLAT"]
      /\ c.filled = l.filled /\ c.booked = l.booked /\ c \in Ledgers
  BY <1>1, <1>2 DEF Cancelled, Cleared, Strategies, Ledgers, States
<1>7. Balanced(c) /\ c.s.st = "FLAT"
  <2>1. c.s.st = "FLAT" /\ c.s.direction = 0 /\ c.s.candidate = 0
        /\ c.s.entryFee = 0 /\ c.s.realized = l.s.realized
    BY <1>1, <1>6 DEF Strategies
  <2> HIDE DEF c
  <2> QED BY <1>1, <1>6, <2>1 DEF Balanced
<1> QED BY <1>5, <1>7

\* A position is closed, and both its fees are booked.
LEMMA ExitBalances ==
    ASSUME NEW l, Balanced(l), l.s.direction # 0, NEW gross \in Int
    PROVE  /\ FillExit(l, gross) = Exited(l, gross)
           /\ Balanced(Exited(l, gross)) /\ Exited(l, gross).s.st = "FLAT"
<1> DEFINE e == Exited(l, gross)
<1>1. /\ l \in Ledgers /\ l.s \in Strategies /\ l.filled = l.s.direction
      /\ l.s.candidate = 0 /\ l.s.realized = l.booked - l.s.entryFee
      /\ l.booked \in Int /\ l.s.realized \in Int /\ l.s.entryFee \in Int
      /\ l.s.direction \in Int
  BY DEF Balanced, Ledgers, Strategies, EntryFee
<1>2. e.s = [l.s EXCEPT !.st = "FLAT", !.direction = 0, !.entryFee = 0,
                        !.realized = @ + gross - ExitFee]
      /\ e.filled = l.filled - l.s.direction
      /\ e.booked = l.booked + gross - l.s.entryFee - ExitFee
  BY DEF Exited
<1>3. e \in Ledgers
  <2>1. l.s.realized + gross - ExitFee \in Int /\ l.filled - l.s.direction \in Int
        /\ l.booked + gross - l.s.entryFee - ExitFee \in Int
    BY <1>1 DEF ExitFee
  <2>2. [l.s EXCEPT !.st = "FLAT", !.direction = 0, !.entryFee = 0,
                    !.realized = @ + gross - ExitFee] \in Strategies
    BY <1>1, <2>1 DEF Strategies, States
  <2> QED BY <2>1, <2>2 DEF Exited, Ledgers
<1>4. e.s.st = "FLAT" /\ e.s.direction = 0 /\ e.s.candidate = 0 /\ e.s.entryFee = 0
      /\ e.s.realized = l.s.realized + gross - ExitFee
  <2> HIDE DEF e
  <2> QED BY <1>1, <1>2 DEF Strategies
<1>5. Balanced(e)
  <2> HIDE DEF e
  <2> QED BY <1>1, <1>2, <1>3, <1>4 DEF Balanced, ExitFee
<1> QED BY <1>4, <1>5 DEF FillExit

\* A ledger in another state of the strategy, with the same books.
LEMMA RestateBalances ==
    ASSUME NEW l, Balanced(l), NEW st \in States \ {"ERROR"},
           st \in {"OPEN", "EXIT_PENDING"} => l.s.direction # 0,
           st \in {"FLAT", "FORCED_CLOSED"} => l.s.direction = 0,
           st # "ENTRY_PENDING", l.s.st # "ENTRY_PENDING"
    PROVE  Balanced([l EXCEPT !.s.st = st]) /\ [l EXCEPT !.s.st = st].s.st = st
<1> DEFINE e == [l EXCEPT !.s.st = st]
<1>1. l \in Ledgers /\ l.s \in Strategies
  BY DEF Balanced, Ledgers
<1>2. e.s = [l.s EXCEPT !.st = st] /\ e.filled = l.filled /\ e.booked = l.booked
      /\ e.s \in Strategies /\ e \in Ledgers
  BY <1>1 DEF Ledgers, Strategies
<1>3. e.s.st = st /\ e.s.direction = l.s.direction /\ e.s.candidate = l.s.candidate
      /\ e.s.entryFee = l.s.entryFee /\ e.s.realized = l.s.realized
  BY <1>1, <1>2 DEF Strategies
<1> HIDE DEF e
<1>4. Balanced(e)
  BY <1>2, <1>3 DEF Balanced
<1> QED BY <1>3, <1>4 DEF e

\* What a bar may find.
LEMMA BarType ==
    ASSUME NEW b \in BarInputs
    PROVE  /\ b.gross \in Int /\ b.z \in -2..2 /\ b.minutes \in 1..2
           /\ EntryDirection(b.z) \in -1..1
BY DEF BarInputs, EntryDirection

\* A signal opens nothing and closes only what there is.
LEMMA SignalBalances ==
    ASSUME NEW l, Balanced(l), l.s.st # "ENTRY_PENDING", NEW b \in BarInputs
    PROVE  Balanced(Signalled(l, b))
<1>1. CASE l.s.st = "FLAT" /\ b.entry /\ EntryDirection(b.z) # 0
  <2> DEFINE e == [l EXCEPT !.s.st = "ENTRY_PENDING", !.s.candidate = EntryDirection(b.z)]
  <2>1. l \in Ledgers /\ l.s \in Strategies
    BY DEF Balanced, Ledgers
  <2>2. e.s = [l.s EXCEPT !.st = "ENTRY_PENDING", !.candidate = EntryDirection(b.z)]
        /\ e.filled = l.filled /\ e.booked = l.booked
    BY <2>1 DEF Ledgers, Strategies
  <2>3. e.s.st = "ENTRY_PENDING" /\ e.s.direction = l.s.direction
        /\ e.s.candidate = EntryDirection(b.z) /\ e.s.entryFee = l.s.entryFee
        /\ e.s.realized = l.s.realized
    BY <2>1, <2>2 DEF Strategies
  <2>4. e.s \in Strategies /\ e \in Ledgers
    BY <2>1, <2>2, BarType DEF Ledgers, Strategies, States
  <2>5. Balanced(e)
    <3> HIDE DEF e
    <3> QED BY <1>1, <2>2, <2>3, <2>4 DEF Balanced
  <2> QED BY <1>1, <2>5 DEF Signalled
<1>2. CASE l.s.st = "OPEN" /\ b.close /\ b.friday
  <2>1. l.s.direction # 0
    BY <1>2 DEF Balanced
  <2> QED BY <1>2, <2>1, ExitBalances, BarType DEF Signalled
<1>3. CASE l.s.st = "OPEN" /\ b.close /\ ~b.friday /\ ShouldExit(b.z, l.s.direction)
  <2>1. Balanced([l EXCEPT !.s.st = "EXIT_PENDING"])
    <3>1. l.s.direction # 0 /\ "EXIT_PENDING" \in States \ {"ERROR"}
      BY <1>3 DEF Balanced, States
    <3> QED BY <1>3, <3>1, RestateBalances
  <2> QED BY <1>3, <2>1 DEF Signalled
<1>4. CASE Signalled(l, b) = l
  BY <1>4
<1> QED BY <1>1, <1>2, <1>3, <1>4 DEF Signalled

\* A bar of the strategy keeps the books.
LEMMA OnBarBalances ==
    ASSUME NEW l, Balanced(l), NEW b \in BarInputs
    PROVE  Balanced(OnBar(l, b))
<1>1. CASE l.s.st = "ENTRY_PENDING" /\ b.entry
  <2>1. Balanced(Entered(l)) /\ Balanced(Cancelled(l)) /\ Cancelled(l).s.st = "FLAT"
    BY <1>1, EntryBalances
  <2>2. Balanced(Signalled(Cancelled(l), b))
    BY <2>1, SignalBalances
  <2> QED BY <1>1, <2>1, <2>2 DEF OnBar, FillEntry
<1>2. CASE l.s.st = "EXIT_PENDING" /\ b.close
  <2>1. l.s.direction # 0
    BY <1>2 DEF Balanced
  <2> QED BY <1>2, <2>1, ExitBalances, BarType DEF OnBar
<1>3. CASE l.s.st # "ENTRY_PENDING"
  BY <1>2, <1>3, SignalBalances DEF OnBar
<1>4. CASE l.s.st = "ENTRY_PENDING" /\ ~b.entry
  BY <1>4 DEF OnBar, Signalled
<1> QED BY <1>1, <1>3, <1>4

\* A dry entry fills, is cancelled, or is refused and pauses.
LEMMA DryEntryBalances ==
    ASSUME NEW l, Balanced(l), l.s.st = "ENTRY_PENDING", NEW b, NEW accepted \in BOOLEAN
    PROVE  Balanced(DryEntry(l, b, accepted))
<1> DEFINE c == [l EXCEPT !.s = [Cleared(@) EXCEPT !.st = "PAUSED"]]
<1>1. /\ l \in Ledgers /\ l.s \in Strategies /\ l.s.direction = 0 /\ l.s.candidate # 0
      /\ l.s.entryFee = 0 /\ l.filled = 0 /\ l.s.realized = l.booked
      /\ l.booked \in Int /\ l.s.realized \in Int
  BY DEF Balanced, Ledgers, Strategies
<1>2. 0 \in 0..MaxDelay + 1
  BY StrategyAssumption
<1>3. c.s \in Strategies /\ c.s = [l.s EXCEPT !.candidate = 0, !.waited = 0, !.st = "PAUSED"]
      /\ c.filled = l.filled /\ c.booked = l.booked /\ c \in Ledgers
  BY <1>1, <1>2 DEF Cleared, Strategies, Ledgers, States
<1> HIDE DEF c
<1>4. Balanced(c)
  <2>1. c.s.st = "PAUSED" /\ c.s.direction = 0 /\ c.s.candidate = 0
        /\ c.s.entryFee = 0 /\ c.s.realized = l.s.realized
    BY <1>1, <1>3 DEF Strategies
  <2> QED BY <1>1, <1>3, <2>1 DEF Balanced
<1> QED BY <1>4, EntryBalances DEF DryEntry, c

\* A dry exit closes the position, or is refused and pauses it.
LEMMA DryExitBalances ==
    ASSUME NEW l, Balanced(l), l.s.direction # 0, NEW b \in BarInputs,
           NEW accepted \in BOOLEAN
    PROVE  Balanced(DryExit(l, b, accepted))
<1>1. Balanced([l EXCEPT !.s.st = "PAUSED"])
  <2>1. "PAUSED" \in States \ {"ERROR"} /\ l.s.st # "ENTRY_PENDING"
    BY DEF Balanced, States
  <2> QED BY <2>1, RestateBalances
<1>2. Balanced(FillExit(l, b.gross))
  BY ExitBalances, BarType
<1> QED BY <1>1, <1>2 DEF DryExit

\* A bar of the dry run keeps the books.
LEMMA DryBarBalances ==
    ASSUME NEW l, Balanced(l), NEW b \in BarInputs, NEW forced \in BOOLEAN,
           NEW accepted \in BOOLEAN, forced => l.s.direction # 0
    PROVE  Balanced(DryBar(l, b, forced, accepted))
<1> DEFINE signal == OnBar(l, b)
<1>1. Balanced(signal)
  BY OnBarBalances
<1> HIDE DEF signal
<1>2. CASE forced \/ l.s.st = "EXIT_PENDING"
  <2>1. l.s.direction # 0
    BY <1>2 DEF Balanced
  <2> QED BY <1>2, <2>1, DryExitBalances DEF DryBar
<1>3. CASE l.s.st = "ENTRY_PENDING" /\ ~(forced \/ l.s.st = "EXIT_PENDING")
  BY <1>3, DryEntryBalances DEF DryBar
<1>4. CASE ~(forced \/ l.s.st = "EXIT_PENDING") /\ l.s.st # "ENTRY_PENDING"
  <2>1. signal.s.st = "ENTRY_PENDING" => Balanced(DryEntry(signal, b, accepted))
    BY <1>1, DryEntryBalances
  <2>2. signal.s.st = "EXIT_PENDING" => Balanced(DryExit(signal, b, accepted))
    <3> SUFFICES ASSUME signal.s.st = "EXIT_PENDING"
                 PROVE  Balanced(DryExit(signal, b, accepted))
      OBVIOUS
    <3>1. signal.s.direction # 0
      BY <1>1 DEF Balanced
    <3> QED BY <1>1, <3>1, DryExitBalances
  <2> QED BY <1>1, <1>4, <2>1, <2>2 DEF DryBar, signal
<1> QED BY <1>2, <1>3, <1>4

PairInv ==
    /\ mode \in {"replay", "dry"}
    /\ Balanced([s |-> strategy, filled |-> filled, booked |-> booked])

\* Waiting for the next bar changes no book.
LEMMA AtBarBalances ==
    ASSUME PairInv, NEW b, b.minutes \in Nat
    PROVE  /\ Balanced(AtBar(b)) /\ AtBar(b).s.st = strategy.st
           /\ AtBar(b).s.direction = strategy.direction
<1> DEFINE l == [s |-> strategy, filled |-> filled, booked |-> booked]
           n == IF strategy.waited + b.minutes > MaxDelay THEN MaxDelay + 1
                ELSE strategy.waited + b.minutes
           e == AtBar(b)
<1>1. Balanced(l) /\ strategy \in Strategies /\ filled \in Int /\ booked \in Int
  BY DEF PairInv, Balanced, Ledgers
<1>2. n \in 0..MaxDelay + 1
  <2>1. strategy.waited \in Nat
    BY <1>1, StrategyAssumption DEF Strategies
  <2>2. PICK w \in Nat : w = strategy.waited
    BY <2>1
  <2>3. PICK m \in Nat : m = b.minutes
    OBVIOUS
  <2> QED BY <2>2, <2>3, StrategyAssumption
<1>3. CASE strategy.st # "ENTRY_PENDING"
  BY <1>1, <1>3 DEF AtBar
<1>4. CASE strategy.st = "ENTRY_PENDING"
  <2>1. e.s = [strategy EXCEPT !.waited = n] /\ e.filled = filled /\ e.booked = booked
    BY <1>1, <1>4 DEF AtBar
  <2> HIDE DEF n
  <2>2. [strategy EXCEPT !.waited = n] \in Strategies
    BY <1>1, <1>2 DEF Strategies
  <2>3. e = [s |-> [strategy EXCEPT !.waited = n], filled |-> filled, booked |-> booked]
    BY <1>4 DEF AtBar, n
  <2>4. e \in Ledgers
    BY <1>1, <2>2, <2>3 DEF Ledgers
  <2> HIDE DEF e
  <2>5. e.s.st = strategy.st /\ e.s.direction = strategy.direction
        /\ e.s.candidate = strategy.candidate /\ e.s.entryFee = strategy.entryFee
        /\ e.s.realized = strategy.realized
    BY <1>1, <2>1 DEF Strategies
  <2>6. Balanced(e)
    <3>1. l.s = strategy /\ l.filled = filled /\ l.booked = booked
      OBVIOUS
    <3> HIDE DEF l
    <3> QED BY <1>1, <2>1, <2>4, <2>5, <3>1 DEF Balanced
  <2> QED BY <2>5, <2>6 DEF e
<1> QED BY <1>3, <1>4

\* The end of a replay closes what is open.
LEMMA FinalizeBalances ==
    ASSUME PairInv, NEW gross \in {-2, 3}
    PROVE  LET l == AtBar([minutes |-> 1])
           IN  Balanced(IF strategy.st = "ENTRY_PENDING" THEN Cancelled(l)
                        ELSE IF strategy.direction = 0 THEN l
                        ELSE [FillExit(l, gross) EXCEPT !.s.st = "FORCED_CLOSED"])
<1> DEFINE l == AtBar([minutes |-> 1])
<1>1. Balanced(l) /\ l.s.st = strategy.st /\ l.s.direction = strategy.direction
  BY AtBarBalances
<1> HIDE DEF l
<1>2. CASE strategy.st = "ENTRY_PENDING"
  BY <1>1, <1>2, EntryBalances DEF l
<1>3. CASE strategy.st # "ENTRY_PENDING" /\ strategy.direction = 0
  BY <1>1, <1>3 DEF l
<1>4. CASE strategy.st # "ENTRY_PENDING" /\ strategy.direction # 0
  <2> DEFINE x == FillExit(l, gross)
  <2>0. gross \in Int
    OBVIOUS
  <2>1. Balanced(x) /\ x.s.st = "FLAT"
    BY <1>1, <1>4, <2>0, ExitBalances
  <2> HIDE DEF x
  <2>2. x.s.direction = 0 /\ "FORCED_CLOSED" \in States \ {"ERROR"}
    BY <2>1 DEF Balanced, States
  <2>3. Balanced([x EXCEPT !.s.st = "FORCED_CLOSED"])
    BY <2>1, <2>2, RestateBalances
  <2> QED BY <1>4, <2>3 DEF l, x
<1> QED BY <1>2, <1>3, <1>4

\* What a balanced ledger commits leaves the books in order.
LEMMA CommitBalances ==
    ASSUME NEW l, Balanced(l), Commit(l), mode' = mode, PairInv
    PROVE  PairInv'
<1>1. [s |-> strategy', filled |-> filled', booked |-> booked'] = l
  BY DEF Commit, Balanced, Ledgers
<1> QED BY <1>1 DEF PairInv

\* No bar has come.
LEMMA PairStarts == PairInit => PairInv
<1> SUFFICES ASSUME PairInit PROVE PairInv
  OBVIOUS
<1> DEFINE l == [s |-> strategy, filled |-> filled, booked |-> booked]
<1>1. 0 \in 0..MaxDelay + 1
  BY StrategyAssumption
<1>2. l \in Ledgers
  BY <1>1 DEF PairInit, FlatState, Ledgers, Strategies, States
<1>3. Balanced(l)
  BY <1>2 DEF PairInit, FlatState, Balanced
<1> QED BY <1>3 DEF PairInv, PairInit

\* A bar of the replay or the dry run, or the end of the run, leaves the books in order.
LEMMA PairSteps == PairInv /\ [PairNext]_pairVars => PairInv'
<1> SUFFICES ASSUME PairInv, [PairNext]_pairVars PROVE PairInv'
  OBVIOUS
<1>1. CASE ReplayBar
  <2>1. PICK b \in BarInputs : Commit(OnBar(AtBar(b), b))
    BY <1>1 DEF ReplayBar
  <2>2. b.minutes \in Nat
    BY BarType
  <2>3. Balanced(OnBar(AtBar(b), b))
    BY <2>2, AtBarBalances, OnBarBalances
  <2> QED BY <1>1, <2>1, <2>3, CommitBalances DEF ReplayBar
<1>2. CASE Finalize
  <2> DEFINE done(gross) ==
        IF strategy.st = "ENTRY_PENDING" THEN Cancelled(AtBar([minutes |-> 1]))
        ELSE IF strategy.direction = 0 THEN AtBar([minutes |-> 1])
        ELSE [FillExit(AtBar([minutes |-> 1]), gross) EXCEPT !.s.st = "FORCED_CLOSED"]
  <2>1. PICK gross \in {-2, 3} : Commit(done(gross))
    BY <1>2 DEF Finalize
  <2>2. Balanced(done(gross))
    BY FinalizeBalances
  <2> QED BY <1>2, <2>1, <2>2, CommitBalances DEF Finalize
<1>3. CASE DryRunBar
  <2>1. PICK b \in BarInputs : \E forced, accepted \in BOOLEAN :
           /\ forced => strategy.direction # 0
           /\ Commit(DryBar(AtBar(b), b, forced, accepted))
    BY <1>3 DEF DryRunBar
  <2>2. PICK forced \in BOOLEAN, accepted \in BOOLEAN :
           /\ forced => strategy.direction # 0
           /\ Commit(DryBar(AtBar(b), b, forced, accepted))
    BY <2>1
  <2>3. b.minutes \in Nat
    BY BarType
  <2>4. Balanced(AtBar(b)) /\ AtBar(b).s.direction = strategy.direction
    BY <2>3, AtBarBalances
  <2>5. Balanced(DryBar(AtBar(b), b, forced, accepted))
    BY <2>2, <2>4, DryBarBalances
  <2> QED BY <1>3, <2>2, <2>5, CommitBalances DEF DryRunBar
<1>4. CASE UNCHANGED pairVars
  BY <1>4 DEF pairVars, PairInv
<1> QED BY <1>1, <1>2, <1>3, <1>4 DEF PairNext

\* BooksMatchPosition at every step: the fills a replay or a dry run recorded
\* are its position, its trades and its open entry its result, and no path of
\* bars of any length, with any delay allowed, ends in ERROR.
THEOREM BooksMatch == PairSpec => []BooksMatchPosition
<1>1. PairInv => BooksMatchPosition
  BY DEF PairInv, Balanced, BooksMatchPosition
<1> QED BY <1>1, PairStarts, PairSteps, PTL DEF PairSpec

-----------------------------------------------------------------------------
(* The publisher's queue *)

\* The alerts of a queue are in the order of their calls.
InOrder(q) == \A i, j \in DOMAIN q : i < j /\ q[i] # Reply /\ q[j] # Reply => q[i] < q[j]

\* A sequence without the element at one place.
LEMMA RemoveAtShifts ==
    ASSUME NEW S, NEW q \in Seq(S), NEW i \in DOMAIN q
    PROVE  /\ RemoveAt(q, i) \in Seq(S) /\ Len(RemoveAt(q, i)) = Len(q) - 1
           /\ \A j \in 1..Len(q) - 1 : RemoveAt(q, i)[j] = IF j < i THEN q[j] ELSE q[j + 1]
<1>1. Len(q) \in Nat /\ i \in 1..Len(q) /\ \A j \in 1..Len(q) : q[j] \in S
  OBVIOUS
<1> DEFINE a == SubSeq(q, 1, i - 1)
           b == SubSeq(q, i + 1, Len(q))
<1>2. /\ a \in Seq(S) /\ Len(a) = i - 1
      /\ \A j \in 1..i - 1 : a[j] = q[j]
  <2>1. \A j \in 1..i - 1 : q[j] \in S
    BY <1>1
  <2> HIDE DEF a
  <2>2. /\ a \in Seq(S) /\ Len(a) = IF 1 <= i - 1 THEN (i - 1) - 1 + 1 ELSE 0
        /\ \A j \in 1..(i - 1) - 1 + 1 : a[j] = q[1 + j - 1]
    BY <1>1, <2>1, SubSeqProperties DEF a
  <2> QED BY <1>1, <2>2
<1>3. /\ b \in Seq(S) /\ Len(b) = Len(q) - i
      /\ \A j \in 1..Len(q) - i : b[j] = q[i + j]
  <2>1. \A j \in i + 1..Len(q) : q[j] \in S
    BY <1>1
  <2> HIDE DEF b
  <2>2. /\ b \in Seq(S) /\ Len(b) = IF i + 1 <= Len(q) THEN Len(q) - (i + 1) + 1 ELSE 0
        /\ \A j \in 1..Len(q) - (i + 1) + 1 : b[j] = q[(i + 1) + j - 1]
    BY <1>1, <2>1, SubSeqProperties DEF b
  <2> QED BY <1>1, <2>2
<1> HIDE DEF a, b
<1>4. /\ a \o b \in Seq(S) /\ Len(a \o b) = Len(a) + Len(b)
      /\ \A j \in 1..Len(a) + Len(b) : (a \o b)[j] = IF j <= Len(a) THEN a[j] ELSE b[j - Len(a)]
  BY <1>2, <1>3, ConcatProperties
<1>5. RemoveAt(q, i) = a \o b
  BY DEF RemoveAt, a, b
<1> DEFINE r == a \o b
<1> HIDE DEF r
<1>6. r \in Seq(S) /\ Len(r) = Len(q) - 1
  BY <1>1, <1>2, <1>3, <1>4 DEF r
<1>7. ASSUME NEW j \in 1..Len(q) - 1 PROVE r[j] = IF j < i THEN q[j] ELSE q[j + 1]
  <2>1. /\ j \in 1..Len(a) + Len(b)
        /\ r[j] = IF j <= i - 1 THEN a[j] ELSE b[j - (i - 1)]
    <3>1. Len(a) = i - 1 /\ j \in 1..Len(a) + Len(b)
      BY <1>1, <1>2, <1>3
    <3>2. r[j] = IF j <= Len(a) THEN a[j] ELSE b[j - Len(a)]
      BY <1>4, <3>1 DEF r
    <3> QED BY <3>1, <3>2
  <2>2. CASE j < i
    <3>1. j \in 1..i - 1
      BY <1>1, <2>2
    <3> QED BY <1>1, <1>2, <2>1, <2>2, <3>1
  <2>3. CASE ~(j < i)
    <3>1. ~(j <= i - 1) /\ j - (i - 1) \in 1..Len(q) - i /\ i + (j - (i - 1)) = j + 1
      BY <1>1, <2>3
    <3>2. b[j - (i - 1)] = q[j + 1]
      BY <1>3, <3>1
    <3> QED BY <2>1, <2>3, <3>1, <3>2
  <2> QED BY <2>2, <2>3
<1> QED BY <1>5, <1>6, <1>7 DEF r

\* What is left keeps its order, and nothing else goes.
LEMMA RemoveAtKeeps ==
    ASSUME NEW q \in Seq(Nat), InOrder(q), NEW i \in DOMAIN q
    PROVE  /\ RemoveAt(q, i) \in Seq(Nat) /\ InOrder(RemoveAt(q, i))
           /\ \A j \in DOMAIN RemoveAt(q, i) : \E k \in DOMAIN q : k # i /\ RemoveAt(q, i)[j] = q[k]
           /\ \A k \in DOMAIN q : k # i => q[k] \in ToSet(RemoveAt(q, i))
<1> DEFINE r == RemoveAt(q, i)
<1>1. /\ r \in Seq(Nat) /\ Len(r) = Len(q) - 1
      /\ \A j \in 1..Len(q) - 1 : r[j] = IF j < i THEN q[j] ELSE q[j + 1]
  BY RemoveAtShifts
<1>2. Len(q) \in Nat /\ DOMAIN q = 1..Len(q) /\ i \in 1..Len(q) /\ DOMAIN r = 1..Len(q) - 1
  BY <1>1
<1> HIDE DEF r
<1> DEFINE at(j) == IF j < i THEN j ELSE j + 1
<1>3. \A j \in DOMAIN r : at(j) \in DOMAIN q /\ at(j) # i /\ r[j] = q[at(j)]
  <2> SUFFICES ASSUME NEW j \in DOMAIN r PROVE at(j) \in DOMAIN q /\ at(j) # i /\ r[j] = q[at(j)]
    OBVIOUS
  <2>1. j \in 1..Len(q) - 1 /\ r[j] = IF j < i THEN q[j] ELSE q[j + 1]
    BY <1>1, <1>2
  <2>2. CASE j < i
    <3>1. at(j) = j /\ j \in 1..Len(q) /\ j # i
      BY <1>2, <2>1, <2>2
    <3> QED BY <1>2, <2>1, <2>2, <3>1
  <2>3. CASE ~(j < i)
    <3>1. at(j) = j + 1 /\ j + 1 \in 1..Len(q) /\ j + 1 # i
      BY <1>2, <2>1, <2>3
    <3> QED BY <1>2, <2>1, <2>3, <3>1
  <2> QED BY <2>2, <2>3
<1>4. \A j, k \in DOMAIN r : j < k => at(j) < at(k)
  BY <1>2
<1>5. \A k \in DOMAIN q : k # i => \E j \in DOMAIN r : r[j] = q[k]
  <2> SUFFICES ASSUME NEW k \in DOMAIN q, k # i PROVE \E j \in DOMAIN r : r[j] = q[k]
    OBVIOUS
  <2>1. CASE k < i
    <3>1. k \in 1..Len(q) - 1 /\ r[k] = q[k]
      BY <1>1, <1>2, <2>1
    <3> QED BY <1>2, <3>1
  <2>2. CASE k > i
    <3>1. k - 1 \in 1..Len(q) - 1 /\ ~(k - 1 < i) /\ (k - 1) + 1 = k
      BY <1>2, <2>2
    <3>2. r[k - 1] = q[k]
      BY <1>1, <3>1
    <3> QED BY <1>2, <3>1, <3>2
  <2> QED BY <1>2, <2>1, <2>2
<1> HIDE DEF at
<1>6. InOrder(r)
  BY <1>3, <1>4 DEF InOrder
<1>7. \A k \in DOMAIN q : k # i => q[k] \in ToSet(r)
  BY <1>5 DEF ToSet
<1> QED BY <1>1, <1>3, <1>6, <1>7 DEF r

\* A message goes behind what is there.
LEMMA AppendKeeps ==
    ASSUME NEW q \in Seq(Nat), InOrder(q), NEW m \in Nat,
           m = Reply \/ \A i \in DOMAIN q : q[i] < m
    PROVE  /\ Append(q, m) \in Seq(Nat) /\ InOrder(Append(q, m))
           /\ m \in ToSet(Append(q, m)) /\ ToSet(q) \subseteq ToSet(Append(q, m))
           /\ \A j \in DOMAIN Append(q, m) :
                Append(q, m)[j] = m \/ \E k \in DOMAIN q : Append(q, m)[j] = q[k]
<1> DEFINE r == Append(q, m)
<1>1. /\ r \in Seq(Nat) /\ Len(r) = Len(q) + 1 /\ r[Len(q) + 1] = m
      /\ \A i \in 1..Len(q) : r[i] = q[i]
  OBVIOUS
<1>2. Len(q) \in Nat /\ DOMAIN q = 1..Len(q) /\ DOMAIN r = 1..Len(q) + 1
      /\ \A i \in 1..Len(q) : q[i] \in Nat
  BY <1>1
<1> HIDE DEF r
<1>3. \A j \in DOMAIN r : (j \in DOMAIN q /\ r[j] = q[j]) \/ (j = Len(q) + 1 /\ r[j] = m)
  BY <1>1, <1>2
<1>4. InOrder(r)
  <2> SUFFICES ASSUME NEW i \in DOMAIN r, NEW j \in DOMAIN r, i < j, r[i] # Reply, r[j] # Reply
               PROVE  r[i] < r[j]
    BY DEF InOrder
  <2>1. i \in DOMAIN q /\ r[i] = q[i]
    BY <1>2, <1>3
  <2> QED BY <1>3, <2>1 DEF InOrder
<1>5. m \in ToSet(r) /\ ToSet(q) \subseteq ToSet(r)
  <2>1. Len(q) + 1 \in DOMAIN r
    BY <1>2
  <2>2. \A i \in DOMAIN q : i \in DOMAIN r /\ r[i] = q[i]
    BY <1>1, <1>2
  <2> QED BY <1>1, <2>1, <2>2 DEF ToSet
<1> QED BY <1>1, <1>3, <1>4, <1>5 DEF r

\* What publish() leaves: the same queue, or one with the message behind it and
\* every alert that was in it.
LEMMA QueuedKeeps ==
    ASSUME NEW q \in Seq(Nat), InOrder(q), NEW m \in Nat,
           m = Reply \/ \A i \in DOMAIN q : q[i] < m, NEW r \in Queued(q, m)
    PROVE  /\ r \in Seq(Nat) /\ InOrder(r)
           /\ ToSet(q) \subseteq ToSet(r) \cup {Reply}
           /\ \A j \in DOMAIN r : r[j] = m \/ \E k \in DOMAIN q : r[j] = q[k]
           /\ r = q \/ m \in ToSet(r)
<1>1. CASE r = q
  <2>1. \A j \in DOMAIN r : \E k \in DOMAIN q : r[j] = q[k]
    BY <1>1
  <2> QED BY <1>1, <2>1
<1>2. CASE r = Append(q, m)
  BY <1>2, AppendKeeps
<1>3. ASSUME NEW i \in OldestLowest(q), Replaced(q[i], m), r = Append(RemoveAt(q, i), m)
      PROVE  /\ r \in Seq(Nat) /\ InOrder(r) /\ ToSet(q) \subseteq ToSet(r) \cup {Reply}
             /\ \A j \in DOMAIN r : r[j] = m \/ \E k \in DOMAIN q : r[j] = q[k]
             /\ m \in ToSet(r)
  <2> DEFINE p == RemoveAt(q, i)
  <2>1. i \in DOMAIN q
    BY DEF OldestLowest
  <2>2. /\ p \in Seq(Nat) /\ InOrder(p)
        /\ \A j \in DOMAIN p : \E k \in DOMAIN q : k # i /\ p[j] = q[k]
        /\ \A k \in DOMAIN q : k # i => q[k] \in ToSet(p)
    BY <2>1, RemoveAtKeeps
  <2>3. q[i] = Reply
    BY <1>3 DEF Replaced, Priority
  <2> HIDE DEF p
  <2>4. m = Reply \/ \A j \in DOMAIN p : p[j] < m
    BY <2>2
  <2>5. /\ r \in Seq(Nat) /\ InOrder(r) /\ m \in ToSet(r) /\ ToSet(p) \subseteq ToSet(r)
        /\ \A j \in DOMAIN r : r[j] = m \/ \E k \in DOMAIN p : r[j] = p[k]
    BY <1>3, <2>2, <2>4, AppendKeeps DEF p
  <2>6. ToSet(q) \subseteq ToSet(r) \cup {Reply}
    <3>1. \A k \in DOMAIN q : q[k] \in ToSet(r) \cup {Reply}
      BY <2>2, <2>3, <2>5
    <3> QED BY <3>1 DEF ToSet
  <2> QED BY <2>2, <2>5, <2>6
<1>4. r = q \/ r = Append(q, m) \/
      \E i \in OldestLowest(q) : Replaced(q[i], m) /\ r = Append(RemoveAt(q, i), m)
  BY DEF Queued
<1> QED BY <1>1, <1>2, <1>3, <1>4

\* No alert is lost: it waits, was tried, or was refused; and none that waits was
\* called before one that was tried.
QueueInv ==
    /\ items \in Seq(Nat) /\ alerts \in Nat /\ tried \subseteq 1..alerts
    /\ InOrder(items)
    /\ \A i \in DOMAIN items : items[i] <= alerts
    /\ \A a \in tried, i \in DOMAIN items : items[i] # Reply => a < items[i]
    /\ \A b \in 1..alerts : b \in tried \cup refused \cup ToSet(items)

LEMMA PublishKeepsQueue ==
    ASSUME QueueInv, Publish
    PROVE  QueueInv'
<1> DEFINE m == alerts + 1
<1>1. alerts \in Nat /\ m \in Nat /\ m # Reply /\ m > alerts /\ alerts' = m /\ tried' = tried
  BY DEF QueueInv, Publish, Reply
<1>2. items' \in Queued(items, m) /\ \A i \in DOMAIN items : items[i] < m
  <2>1. \A i \in DOMAIN items : items[i] \in Nat /\ items[i] <= alerts
    BY DEF QueueInv
  <2> QED BY <1>1, <2>1 DEF Publish
<1>3. refused' = IF items' = items THEN refused \cup {m} ELSE refused
  BY DEF Publish
<1> HIDE DEF m
<1>4. /\ items' \in Seq(Nat) /\ InOrder(items')
      /\ ToSet(items) \subseteq ToSet(items') \cup {Reply}
      /\ \A j \in DOMAIN items' : items'[j] = m \/ \E k \in DOMAIN items : items'[j] = items[k]
      /\ items' = items \/ m \in ToSet(items')
  BY <1>1, <1>2, QueuedKeeps DEF QueueInv
<1>5. \A i \in DOMAIN items' : items'[i] <= m
  <2>1. \A k \in DOMAIN items : items[k] \in Nat /\ items[k] <= alerts
    BY DEF QueueInv
  <2> QED BY <1>1, <1>4, <2>1
<1>6. \A a \in tried, i \in DOMAIN items' : items'[i] # Reply => a < items'[i]
  <2> SUFFICES ASSUME NEW a \in tried, NEW i \in DOMAIN items', items'[i] # Reply
               PROVE  a < items'[i]
    OBVIOUS
  <2>1. a \in Nat /\ a <= alerts /\ a < m
    BY <1>1 DEF QueueInv
  <2>2. CASE items'[i] = m
    BY <2>1, <2>2
  <2>3. ASSUME NEW k \in DOMAIN items, items'[i] = items[k] PROVE a < items'[i]
    BY <2>3 DEF QueueInv
  <2> QED BY <1>4, <2>2, <2>3
<1>7. \A b \in 1..m : b \in tried \cup refused' \cup ToSet(items')
  <2>1. \A b \in 1..alerts : b # Reply /\ b \in tried \cup refused \cup ToSet(items)
    BY <1>1 DEF QueueInv, Reply
  <2>2. \A b \in 1..m : b \in 1..alerts \/ b = m
    BY <1>1 DEF m
  <2>3. m \in refused' \cup ToSet(items')
    BY <1>3, <1>4
  <2> QED BY <1>3, <1>4, <2>1, <2>2, <2>3
<1>8. tried \subseteq 1..m
  BY <1>1 DEF QueueInv
<1> QED BY <1>1, <1>4, <1>5, <1>6, <1>7, <1>8 DEF QueueInv, InOrder

\* A reply in the queue is no alert, and takes the place of none.
LEMMA ReplyKeepsQueue ==
    ASSUME QueueInv, items' \in Queued(items, Reply), UNCHANGED <<alerts, tried, refused>>
    PROVE  QueueInv'
<1>1. Reply \in Nat /\ alerts \in Nat /\ Reply <= alerts
  BY DEF Reply, QueueInv
<1>2. /\ items' \in Seq(Nat) /\ InOrder(items')
      /\ ToSet(items) \subseteq ToSet(items') \cup {Reply}
      /\ \A j \in DOMAIN items' : items'[j] = Reply \/ \E k \in DOMAIN items : items'[j] = items[k]
  BY <1>1, QueuedKeeps DEF QueueInv
<1>3. \A i \in DOMAIN items' : items'[i] <= alerts
  BY <1>1, <1>2 DEF QueueInv
<1>4. \A a \in tried, i \in DOMAIN items' : items'[i] # Reply => a < items'[i]
  BY <1>2 DEF QueueInv
<1>5. \A b \in 1..alerts : b \in tried \cup refused \cup ToSet(items')
  BY <1>2 DEF QueueInv, Reply
<1> QED BY <1>2, <1>3, <1>4, <1>5 DEF QueueInv, InOrder

\* What leaves is the oldest alert, or a reply where there is no alert.
LEMMA TakeKeepsQueue ==
    ASSUME QueueInv, TakeNext
    PROVE  QueueInv'
<1>1. PICK i \in OldestHighest(items) : sending' = {items[i]} /\ items' = RemoveAt(items, i)
  BY DEF TakeNext
<1> DEFINE x == items[i]
<1>2. /\ i \in DOMAIN items /\ x \in Nat /\ x <= alerts /\ alerts \in Nat
      /\ alerts' = alerts /\ refused' = refused /\ tried' = tried \cup ({x} \ {Reply})
  <2>1. i \in DOMAIN items /\ alerts \in Nat
    BY <1>1 DEF OldestHighest, QueueInv
  <2>2. x \in Nat /\ x <= alerts
    BY <2>1 DEF QueueInv
  <2>3. alerts' = alerts /\ refused' = refused /\ tried' = tried \cup ({x} \ {Reply})
    BY <1>1 DEF TakeNext
  <2> QED BY <2>1, <2>2, <2>3
<1>3. /\ items' \in Seq(Nat) /\ InOrder(items')
      /\ \A j \in DOMAIN items' : \E k \in DOMAIN items : k # i /\ items'[j] = items[k]
      /\ \A k \in DOMAIN items : k # i => items[k] \in ToSet(items')
  BY <1>1, <1>2, RemoveAtKeeps DEF QueueInv
<1>4. \A k \in DOMAIN items : k # i /\ items[k] # Reply => x # Reply /\ x < items[k]
  <2> SUFFICES ASSUME NEW k \in DOMAIN items, k # i, items[k] # Reply
               PROVE  x # Reply /\ x < items[k]
    OBVIOUS
  <2>1. x # Reply /\ i <= k
    BY <1>1 DEF OldestHighest, Priority
  <2>2. DOMAIN items = 1..Len(items) /\ Len(items) \in Nat
    BY DEF QueueInv
  <2>3. i < k
    BY <1>2, <2>1, <2>2
  <2> QED BY <1>2, <2>1, <2>3 DEF QueueInv, InOrder
<1> HIDE DEF x
<1>5. tried' \subseteq 1..alerts
  <2>1. x # Reply => x \in 1..alerts
    BY <1>2 DEF Reply
  <2> QED BY <1>2, <2>1 DEF QueueInv
<1>6. \A a \in tried', j \in DOMAIN items' : items'[j] # Reply => a < items'[j]
  <2> SUFFICES ASSUME NEW a \in tried', NEW j \in DOMAIN items', items'[j] # Reply
               PROVE  a < items'[j]
    OBVIOUS
  <2>1. PICK k \in DOMAIN items : k # i /\ items'[j] = items[k]
    BY <1>3
  <2>2. a \in tried \/ a = x
    BY <1>2
  <2> QED BY <1>4, <2>1, <2>2 DEF QueueInv
<1>7. \A j \in DOMAIN items' : items'[j] <= alerts
  BY <1>3 DEF QueueInv
<1>8. \A b \in 1..alerts : b \in tried' \cup refused \cup ToSet(items')
  <2> SUFFICES ASSUME NEW b \in 1..alerts PROVE b \in tried' \cup refused \cup ToSet(items')
    OBVIOUS
  <2>1. CASE b \in ToSet(items)
    <3>1. PICK k \in DOMAIN items : b = items[k]
      BY <2>1 DEF ToSet
    <3>2. CASE k = i
      <4>1. b = x /\ b # Reply
        BY <3>1, <3>2 DEF x, Reply
      <4> QED BY <1>2, <4>1
    <3> QED BY <1>3, <3>1, <3>2
  <2> QED BY <1>2, <2>1 DEF QueueInv
<1> QED BY <1>2, <1>3, <1>5, <1>6, <1>7, <1>8 DEF QueueInv, InOrder

LEMMA QueueInvInductive == NtfySpec => []QueueInv
<1>1. NtfyInit => QueueInv
  <2> SUFFICES ASSUME NtfyInit PROVE QueueInv
    OBVIOUS
  <2>1. items = <<>> /\ alerts = 0 /\ tried = {}
    BY DEF NtfyInit
  <2>2. items \in Seq(Nat) /\ DOMAIN items = {}
    BY <2>1
  <2> QED BY <2>1, <2>2 DEF QueueInv, InOrder
<1>2. QueueInv /\ [NtfyNext]_ntfyVars => QueueInv'
  <2> SUFFICES ASSUME QueueInv, [NtfyNext]_ntfyVars PROVE QueueInv'
    OBVIOUS
  <2>1. CASE UNCHANGED <<items, alerts, tried, refused>>
    BY <2>1 DEF QueueInv, InOrder
  <2>2. CASE Publish
    BY <2>2, PublishKeepsQueue
  <2>3. CASE TakeNext
    BY <2>3, TakeKeepsQueue
  <2>4. CASE items' \in Queued(items, Reply) /\ UNCHANGED <<alerts, tried, refused>>
    BY <2>4, ReplyKeepsQueue
  <2>5. CASE UNCHANGED ntfyVars
    BY <2>1, <2>5 DEF ntfyVars, pubVars
  <2>6. CASE Alert \/ SessionStarts \/ SessionEnds
    BY <2>1, <2>2, <2>6 DEF Alert, SessionStarts, SessionEnds, pubVars
  <2>7. CASE Sent \/ SendFails \/ Finish \/ WorkerEnds \/ Exit
    BY <2>1, <2>7 DEF Sent, SendFails, Finish, WorkerEnds, Exit, pubVars
  <2>8. CASE Write \/ Bootstrap \/ Dial \/ StreamBreaks
    BY <2>1, <2>8 DEF Write, Bootstrap, Dial, StreamBreaks, pubVars
  <2>9. CASE Read
    <3>1. UNCHANGED <<alerts, tried, refused>> /\ (items' \in Queued(items, Reply) \/ UNCHANGED items)
      BY <2>9 DEF Read
    <3> QED BY <2>1, <2>4, <3>1
  <2> QED BY <2>3, <2>5, <2>6, <2>7, <2>8, <2>9 DEF NtfyNext
<1> QED BY <1>1, <1>2, PTL DEF NtfySpec

\* AlertsGoOutInOrder: no alert that publish() took is given up for another
\* message or overtaken, for any queue and any replies between the alerts.
THEOREM AlertsInOrder == NtfySpec => []AlertsGoOutInOrder
<1>1. QueueInv => AlertsGoOutInOrder
  <2> SUFFICES ASSUME QueueInv, NEW a \in tried, NEW b \in 1..alerts, b < a,
                      b \notin tried \cup refused
               PROVE  FALSE
    BY DEF AlertsGoOutInOrder
  <2>1. b \in ToSet(items) /\ b # Reply /\ a \in Nat /\ alerts \in Nat
    BY DEF QueueInv, Reply
  <2>2. PICK i \in DOMAIN items : items[i] = b
    BY <2>1 DEF ToSet
  <2> QED BY <2>1, <2>2 DEF QueueInv
<1> QED BY <1>1, QueueInvInductive, PTL

-----------------------------------------------------------------------------
(* The subscriber's cursor *)

\* The identifiers remembered are the last ones up to a given one.
LastIds(q, i) == q \in Seq(Int) /\ \A k \in DOMAIN q : q[k] = i - Len(q) + k

LEMMA RememberIsLast ==
    ASSUME NEW i \in Nat, LastIds(seen, i - 1)
    PROVE  /\ LastIds(Remember(i), i)
           /\ Len(Remember(i)) = IF Len(seen) + 1 > SeenLimit THEN SeenLimit ELSE Len(seen) + 1
<1> DEFINE s == Append(seen, i)
<1>1. /\ s \in Seq(Int) /\ Len(s) = Len(seen) + 1 /\ s[Len(seen) + 1] = i
      /\ \A k \in 1..Len(seen) : s[k] = seen[k]
  BY DEF LastIds
<1>2. /\ Len(seen) \in Nat /\ DOMAIN seen = 1..Len(seen) /\ SeenLimit \in Nat
      /\ \A k \in 1..Len(seen) : seen[k] = (i - 1) - Len(seen) + k
  BY NtfyAssumption DEF LastIds
<1> HIDE DEF s
<1>3. \A k \in 1..Len(s) : s[k] \in Int /\ s[k] = i - Len(s) + k
  <2> SUFFICES ASSUME NEW k \in 1..Len(s) PROVE s[k] \in Int /\ s[k] = i - Len(s) + k
    OBVIOUS
  <2>1. CASE k = Len(seen) + 1
    BY <1>1, <1>2, <2>1
  <2>2. CASE k # Len(seen) + 1
    <3>1. k \in 1..Len(seen)
      BY <1>1, <1>2, <2>2
    <3> QED BY <1>1, <1>2, <3>1
  <2> QED BY <2>1, <2>2
<1> DEFINE n == IF Len(s) > SeenLimit THEN SeenLimit ELSE Len(s)
           r == SubSeq(s, Len(s) - n + 1, Len(s))
<1>4. n \in Nat /\ n <= Len(s) /\ Len(s) \in Nat
  BY <1>1, <1>2
<1>5. Remember(i) = r
  BY DEF Remember, s
<1> HIDE DEF n
<1>6. \A k \in Len(s) - n + 1..Len(s) : s[k] \in Int
  BY <1>3, <1>4
<1> HIDE DEF r
<1>7. /\ r \in Seq(Int)
      /\ Len(r) = IF Len(s) - n + 1 <= Len(s) THEN Len(s) - (Len(s) - n + 1) + 1 ELSE 0
      /\ \A k \in 1..Len(s) - (Len(s) - n + 1) + 1 : r[k] = s[(Len(s) - n + 1) + k - 1]
  BY <1>4, <1>6, SubSeqProperties DEF r
<1>8. Len(r) = n
  BY <1>4, <1>7
<1>9. ASSUME NEW k \in DOMAIN r PROVE r[k] = i - Len(r) + k
  <2>1. k \in 1..n /\ k \in 1..Len(s) - (Len(s) - n + 1) + 1 /\ Len(s) - n + k \in 1..Len(s)
    BY <1>4, <1>7, <1>8
  <2>2. r[k] = s[Len(s) - n + k]
    BY <1>4, <1>7, <2>1
  <2>3. s[Len(s) - n + k] = i - Len(s) + (Len(s) - n + k)
    BY <1>3, <2>1
  <2> QED BY <1>4, <1>8, <2>1, <2>2, <2>3
<1>10. LastIds(r, i)
  BY <1>7, <1>9 DEF LastIds
<1> QED BY <1>1, <1>5, <1>8, <1>10 DEF n

\* The messages of the topic that have been read, and what they were answered.
Answered ==
    /\ answers \in [LogIds -> Nat]
    /\ \A i \in LogIds :
         answers[i] = IF i <= Len(log) /\ log[i] = "status" /\ base < i /\ i <= cursor
                      THEN 1 ELSE 0

\* Where the cursor is: the subscriber has read everything from base to it, the
\* stream is no further, and what the server may deliver again is remembered.
Cursors ==
    /\ log \in Seq({"status", "other"}) /\ Len(log) <= MaxLog
    /\ {cursor, base, next, since} \subseteq Nat /\ cursor <= Len(log) /\ base <= Len(log)
    /\ cursor = 0 => seen = <<>>
    /\ cursor # 0 => base <= cursor
    /\ sub = "boot" => cursor = 0
    /\ sub = "reading" => /\ base <= since
                          /\ IF cursor = 0 THEN next = since /\ base = since ELSE next = cursor
LastRemembered ==
    /\ LastIds(seen, cursor)
    /\ Len(seen) = SeenLimit \/ cursor - base <= Len(seen)

CursorInv == Answered /\ Cursors /\ LastRemembered

\* A message is new if and only if it is the next one.
LEMMA NewIsNext ==
    ASSUME CursorInv, sub = "reading", NEW i \in {next + 1} \cup (next - Overlap + 1)..next,
           since < i
    PROVE  /\ i \in Nat /\ base < i
           /\ IsNew(i) => i = next + 1 /\ cursor < i /\ (cursor # 0 => i = cursor + 1)
<1>1. /\ {cursor, base, next, since} \subseteq Nat /\ base <= since
      /\ IF cursor = 0 THEN next = since /\ base = since ELSE next = cursor
      /\ Overlap \in Nat /\ SeenLimit \in Nat /\ Overlap <= SeenLimit
  BY NtfyAssumption DEF CursorInv, Cursors
<1>2. /\ Len(seen) \in Nat /\ DOMAIN seen = 1..Len(seen)
      /\ \A k \in 1..Len(seen) : seen[k] = cursor - Len(seen) + k
      /\ Len(seen) = SeenLimit \/ cursor - base <= Len(seen)
  BY DEF CursorInv, LastRemembered, LastIds
<1>3. i \in Nat /\ base < i
  BY <1>1
<1>4. CASE i = next + 1
  BY <1>1, <1>3, <1>4
<1>5. CASE i # next + 1
  <2>1. next - Overlap + 1 <= i /\ i <= next
    BY <1>1, <1>5
  <2>2. cursor # 0 /\ next = cursor
    BY <1>1, <1>3, <2>1
  <2>3. i - cursor + Len(seen) \in 1..Len(seen)
    <3>1. /\ i \in Nat /\ cursor \in Nat /\ base \in Nat /\ Overlap \in Nat
          /\ i <= cursor /\ base < i /\ cursor - Overlap < i
      BY <1>1, <1>3, <2>1, <2>2
    <3>2. CASE Len(seen) = SeenLimit
      BY <1>1, <1>2, <3>1, <3>2
    <3>3. CASE cursor - base <= Len(seen)
      BY <1>2, <3>1, <3>3
    <3> QED BY <1>2, <3>2, <3>3
  <2>4. seen[i - cursor + Len(seen)] = i
    <3>1. i \in Nat /\ cursor \in Nat /\ Len(seen) \in Nat
      BY <1>1, <1>2, <1>3
    <3>2. seen[i - cursor + Len(seen)] = cursor - Len(seen) + (i - cursor + Len(seen))
      BY <1>2, <2>3
    <3> QED BY <3>1, <3>2
  <2>5. ~IsNew(i)
    BY <1>2, <2>3, <2>4 DEF IsNew, ToSet
  <2> QED BY <1>3, <2>5
<1> QED BY <1>4, <1>5

LEMMA ReadKeepsCursor ==
    ASSUME CursorInv, Read
    PROVE  CursorInv'
<1>1. PICK i \in {next + 1} \cup (next - Overlap + 1)..next :
        /\ since < i /\ i <= Len(log)
        /\ next' = IF i > next THEN i ELSE next
        /\ IF IsNew(i)
           THEN /\ seen' = Remember(i) /\ cursor' = i
                /\ IF log[i] = "status" THEN answers' = [answers EXCEPT ![i] = @ + 1]
                   ELSE UNCHANGED answers
           ELSE UNCHANGED <<seen, cursor, answers>>
  BY DEF Read
<1>2. sub = "reading" /\ sub' = sub /\ log' = log /\ base' = base /\ since' = since
  BY DEF Read
<1>3. /\ i \in Nat /\ base < i
      /\ IsNew(i) => i = next + 1 /\ cursor < i /\ (cursor # 0 => i = cursor + 1)
  BY <1>1, <1>2, NewIsNext
<1>4. /\ {cursor, base, next, since} \subseteq Nat /\ base <= since
      /\ IF cursor = 0 THEN next = since /\ base = since ELSE next = cursor
      /\ Len(log) \in Nat /\ Len(log) <= MaxLog /\ MaxLog \in Nat
  BY <1>2, NtfyAssumption DEF CursorInv, Cursors
<1>5. CASE ~IsNew(i)
  <2>1. i <= next \/ i = next + 1
    BY <1>4
  <2>2. i # next + 1
    <3> SUFFICES ASSUME i = next + 1 PROVE FALSE
      OBVIOUS
    <3>1. \A k \in DOMAIN seen : seen[k] # i
      <4>1. CASE cursor = 0
        BY <4>1 DEF CursorInv, Cursors
      <4>2. CASE cursor # 0
        <5>1. i = cursor + 1
          BY <1>4, <4>2
        <5>2. \A k \in DOMAIN seen : k \in 1..Len(seen) /\ Len(seen) \in Nat
                                     /\ seen[k] = cursor - Len(seen) + k
          BY DEF CursorInv, LastRemembered, LastIds
        <5> QED BY <1>4, <5>1, <5>2
      <4> QED BY <4>1, <4>2
    <3> QED BY <1>5, <3>1 DEF IsNew, ToSet
  <2>3. next' = next
    BY <1>1, <1>3, <1>4, <2>1, <2>2
  <2> QED BY <1>1, <1>2, <1>5, <2>3 DEF CursorInv, Answered, Cursors, LastRemembered, LastIds
<1>6. CASE IsNew(i)
  <2>1. /\ next' = i /\ cursor' = i /\ seen' = Remember(i) /\ i \in LogIds
        /\ i = next + 1 /\ cursor < i /\ (cursor # 0 => i = cursor + 1)
    BY <1>1, <1>3, <1>4, <1>6 DEF LogIds
  <2>2. Cursors'
    BY <1>1, <1>2, <1>3, <1>4, <2>1 DEF CursorInv, Cursors
  <2>3. LastIds(seen, i - 1)
    <3>1. CASE cursor = 0
      BY <3>1 DEF CursorInv, Cursors, LastIds
    <3>2. CASE cursor # 0
      <4>1. i - 1 = cursor
        BY <1>4, <2>1, <3>2
      <4> QED BY <4>1 DEF CursorInv, LastRemembered
    <3> QED BY <3>1, <3>2
  <2>4. /\ LastIds(seen', i)
        /\ Len(seen') = IF Len(seen) + 1 > SeenLimit THEN SeenLimit ELSE Len(seen) + 1
    BY <1>3, <2>1, <2>3, RememberIsLast
  <2>5. Len(seen') = SeenLimit \/ i - base <= Len(seen')
    <3>1. SeenLimit \in Nat /\ Len(seen) \in Nat
          /\ (Len(seen) = SeenLimit \/ cursor - base <= Len(seen))
      BY NtfyAssumption DEF CursorInv, LastRemembered, LastIds
    <3>2. i - base <= (cursor - base) + 1 \/ (cursor = 0 /\ i - base = 1)
      BY <1>4, <2>1
    <3> QED BY <1>3, <1>4, <2>4, <3>1, <3>2
  <2>6. LastRemembered'
    BY <1>2, <2>1, <2>4, <2>5 DEF LastRemembered
  <2>7. \A j \in LogIds : j # i => (base < j /\ j <= cursor <=> base < j /\ j <= i)
    BY <1>4, <2>1 DEF LogIds
  <2>8. answers' \in [LogIds -> Nat]
    BY <1>1, <1>6, <2>1 DEF CursorInv, Answered
  <2>9. ASSUME NEW j \in LogIds
        PROVE  answers'[j] = IF j <= Len(log) /\ log[j] = "status" /\ base < j /\ j <= i
                             THEN 1 ELSE 0
    <3>1. answers[j] \in Nat /\ answers[j] =
            IF j <= Len(log) /\ log[j] = "status" /\ base < j /\ j <= cursor THEN 1 ELSE 0
      BY DEF CursorInv, Answered
    <3>2. CASE j # i
      <4>1. answers'[j] = answers[j]
        BY <1>1, <1>6, <3>2 DEF CursorInv, Answered
      <4> QED BY <2>7, <3>1, <3>2, <4>1
    <3>3. CASE j = i
      <4>1. answers[j] = 0 /\ j <= Len(log) /\ base < j /\ j <= i
        BY <1>1, <1>3, <1>4, <2>1, <3>1, <3>3
      <4>2. answers'[j] = IF log[j] = "status" THEN answers[j] + 1 ELSE answers[j]
        BY <1>1, <1>6, <3>3 DEF CursorInv, Answered
      <4> QED BY <4>1, <4>2
    <3> QED BY <3>2, <3>3
  <2>10. Answered'
    BY <1>2, <2>1, <2>8, <2>9 DEF Answered
  <2> QED BY <2>2, <2>6, <2>10 DEF CursorInv
<1> QED BY <1>5, <1>6

\* Nothing is answered before the subscriber has a cursor.
LEMMA StartsKeepCursor ==
    ASSUME CursorInv, Bootstrap \/ Dial
    PROVE  CursorInv'
<1>1. /\ {cursor, base, next, since} \subseteq Nat /\ Len(log) \in Nat /\ cursor <= Len(log)
      /\ base <= Len(log) /\ log' = log /\ answers' = answers
      /\ cursor = 0 => seen = <<>>
  BY DEF CursorInv, Cursors, Bootstrap, Dial
<1>2. cursor = 0 => \A i \in LogIds : answers[i] = 0
  BY <1>1 DEF CursorInv, Answered, LogIds
<1>3. CASE Dial
  <2>1. /\ sub' = "reading" /\ cursor' = cursor /\ seen' = seen
        /\ since' = (IF cursor # 0 THEN cursor ELSE Len(log)) /\ next' = since'
        /\ base' = IF cursor = 0 THEN Len(log) ELSE base
    BY <1>3 DEF Dial, Since
  <2>2. Cursors'
    BY <1>1, <2>1 DEF CursorInv, Cursors
  <2>3. LastRemembered'
    <3>1. CASE cursor = 0
      <4>1. Len(seen) \in Nat /\ cursor' - base' <= Len(seen')
        BY <1>1, <2>1, <3>1
      <4> QED BY <2>1, <4>1 DEF CursorInv, LastRemembered
    <3>2. CASE cursor # 0
      BY <2>1, <3>2 DEF CursorInv, LastRemembered
    <3> QED BY <3>1, <3>2
  <2>4. Answered'
    BY <1>1, <1>2, <2>1 DEF CursorInv, Answered, LogIds
  <2> QED BY <2>2, <2>3, <2>4 DEF CursorInv
<1>4. CASE Bootstrap /\ UNCHANGED <<cursor, seen, base>>
  BY <1>4 DEF Bootstrap, CursorInv, Cursors, LastRemembered, Answered
<1>5. CASE Bootstrap /\ ~UNCHANGED <<cursor, seen, base>>
  <2>1. /\ cursor' = Len(log) /\ seen' = Remember(Len(log)) /\ base' = Len(log)
        /\ cursor = 0 /\ log # <<>> /\ sub' = "dialling" /\ UNCHANGED <<next, since>>
    BY <1>5 DEF Bootstrap, CursorInv, Cursors
  <2>2. Len(log) # 0 /\ Len(log) <= MaxLog
    BY <2>1 DEF CursorInv, Cursors
  <2>3. Cursors'
    BY <1>1, <2>1, <2>2 DEF CursorInv, Cursors
  <2>4. LastIds(seen, Len(log) - 1)
    BY <1>1, <2>1 DEF LastIds
  <2>5. LastIds(seen', Len(log)) /\ Len(seen') \in Nat
    <3>1. LastIds(Remember(Len(log)), Len(log))
      BY <1>1, <2>4, RememberIsLast
    <3> QED BY <2>1, <3>1 DEF LastIds
  <2>6. LastRemembered'
    BY <1>1, <2>1, <2>5 DEF LastRemembered
  <2>7. Answered'
    BY <1>1, <1>2, <2>1 DEF CursorInv, Answered, LogIds
  <2> QED BY <2>3, <2>6, <2>7 DEF CursorInv
<1> QED BY <1>3, <1>4, <1>5

\* A message more on the topic is not yet read.
LEMMA LogKeepsCursor ==
    ASSUME CursorInv, NEW m \in {"status", "other"}, log' = Append(log, m), Len(log) < MaxLog,
           UNCHANGED subVars
    PROVE  CursorInv'
<1>1. /\ log' \in Seq({"status", "other"}) /\ Len(log') = Len(log) + 1 /\ Len(log) \in Nat
      /\ \A i \in 1..Len(log) : log'[i] = log[i]
  BY DEF CursorInv, Cursors
<1>2. {cursor, base, next, since} \subseteq Nat /\ cursor <= Len(log) /\ base <= Len(log)
  BY DEF CursorInv, Cursors
<1>3. UNCHANGED <<sub, cursor, seen, next, since, base, answers>> /\ MaxLog \in Nat
  BY NtfyAssumption DEF subVars
<1>4. Cursors'
  BY <1>1, <1>2, <1>3 DEF CursorInv, Cursors
<1>5. Answered'
  <2>1. \A i \in LogIds :
          (i <= Len(log') /\ log'[i] = "status" /\ base < i /\ i <= cursor)
          <=> (i <= Len(log) /\ log[i] = "status" /\ base < i /\ i <= cursor)
    BY <1>1, <1>2 DEF LogIds
  <2> QED BY <1>3, <2>1 DEF CursorInv, Answered
<1>6. LastRemembered'
  BY <1>3 DEF CursorInv, LastRemembered
<1> QED BY <1>4, <1>5, <1>6 DEF CursorInv

LEMMA CursorInvInductive == NtfySpec => []CursorInv
<1>1. NtfyInit => CursorInv
  <2> SUFFICES ASSUME NtfyInit PROVE CursorInv
    OBVIOUS
  <2>1. /\ log \in Seq({"status", "other"}) /\ Len(log) \in {0, 1}
    <3>1. CASE log = <<>>
      BY <3>1
    <3>2. ASSUME NEW m \in {"status", "other"}, log = <<m>>
          PROVE  log \in Seq({"status", "other"}) /\ Len(log) = 1
      BY <3>2
    <3> QED BY <3>1, <3>2 DEF NtfyInit
  <2>2. /\ sub = "boot" /\ cursor = 0 /\ seen = <<>> /\ next = 0 /\ since = 0
        /\ base = Len(log) /\ answers = [i \in LogIds |-> 0]
    BY DEF NtfyInit
  <2>3. Answered
    BY <2>2 DEF Answered, LogIds
  <2>4. Cursors
    BY <2>1, <2>2, NtfyAssumption DEF Cursors
  <2>5. LastRemembered
    BY <2>1, <2>2 DEF LastRemembered, LastIds
  <2> QED BY <2>3, <2>4, <2>5 DEF CursorInv
<1>2. CursorInv /\ [NtfyNext]_ntfyVars => CursorInv'
  <2> SUFFICES ASSUME CursorInv, [NtfyNext]_ntfyVars PROVE CursorInv'
    OBVIOUS
  <2>1. CASE UNCHANGED <<log, subVars>>
    BY <2>1 DEF subVars, CursorInv, Answered, Cursors, LastRemembered
  <2>2. CASE UNCHANGED ntfyVars \/ Alert \/ SessionStarts \/ SessionEnds \/ TakeNext
             \/ WorkerEnds \/ Exit
    BY <2>1, <2>2 DEF ntfyVars, Alert, SessionStarts, SessionEnds, TakeNext,
       WorkerEnds, Exit
  <2>3. CASE Sent \/ SendFails \/ Write
    <3>1. UNCHANGED subVars /\ (UNCHANGED log \/ (Len(log) < MaxLog
            /\ \E m \in {"status", "other"} : log' = Append(log, m)))
      BY <2>3 DEF Sent, SendFails, Delivered, Write
    <3> QED BY <2>1, <3>1, LogKeepsCursor
  <2>4. CASE Finish \/ StreamBreaks
    <3>1. sub' \in {"stopped", "dialling"} /\ UNCHANGED <<log, cursor, seen, next, since, base, answers>>
      BY <2>4 DEF Finish, StreamBreaks
    <3> QED BY <3>1 DEF CursorInv, Answered, Cursors, LastRemembered
  <2> QED BY <2>2, <2>3, <2>4, StartsKeepCursor, ReadKeepsCursor DEF NtfyNext
<1> QED BY <1>1, <1>2, PTL DEF NtfySpec

\* CommandsAnsweredOnce: every command since the subscriber's first message is
\* answered once, through any number of reconnects, as long as the server
\* delivers no more again than is remembered.
THEOREM CommandsOnce == NtfySpec => []CommandsAnsweredOnce
<1>1. CursorInv => CommandsAnsweredOnce
  <2> SUFFICES ASSUME CursorInv, NEW i \in DOMAIN log
               PROVE  answers[i] = IF log[i] = "status" /\ base < i /\ i <= cursor THEN 1 ELSE 0
    BY DEF CommandsAnsweredOnce
  <2>1. i \in LogIds /\ i <= Len(log)
    BY NtfyAssumption DEF CursorInv, Cursors, LogIds
  <2> QED BY <2>1 DEF CursorInv, Answered
<1> QED BY <1>1, CursorInvInductive, PTL

-----------------------------------------------------------------------------
(* The notifications: their types *)

\* A bounded sequence is a sequence that is no longer than its bound.
LEMMA BoundedSeqs ==
    ASSUME NEW S, NEW n \in Nat, NEW q
    PROVE  q \in BoundedSeq(S, n) <=> q \in Seq(S) /\ Len(q) <= n
<1>1. BoundedSeq(S, n) = UNION {[1..m -> S] : m \in 0..n}
  BY DEF BoundedSeq, SeqOf
<1>2. ASSUME q \in BoundedSeq(S, n) PROVE q \in Seq(S) /\ Len(q) <= n
  <2>1. PICK m \in 0..n : q \in [1..m -> S]
    BY <1>1, <1>2
  <2>2. q \in Seq(S)
    BY <2>1, SeqDef
  <2>3. Len(q) = m
    <3>1. DOMAIN q = 1..m /\ DOMAIN q = 1..Len(q) /\ Len(q) \in Nat /\ m \in Nat
      BY <2>1, <2>2
    <3> QED BY <3>1
  <2> QED BY <2>1, <2>2, <2>3
<1>3. ASSUME q \in Seq(S), Len(q) <= n PROVE q \in BoundedSeq(S, n)
  <2>1. Len(q) \in 0..n /\ q \in [1..Len(q) -> S]
    BY <1>3
  <2> QED BY <1>1, <2>1
<1> QED BY <1>2, <1>3

\* Remembering an identifier forgets the oldest at the limit.
LEMMA RememberType ==
    ASSUME seen \in Seq(LogIds), NEW i \in LogIds
    PROVE  Remember(i) \in Seq(LogIds) /\ Len(Remember(i)) <= SeenLimit
<1> DEFINE s == Append(seen, i)
           n == IF Len(s) > SeenLimit THEN SeenLimit ELSE Len(s)
<1>1. s \in Seq(LogIds) /\ Len(s) \in Nat /\ SeenLimit \in Nat
      /\ \A k \in 1..Len(s) : s[k] \in LogIds
  BY NtfyAssumption
<1>2. Remember(i) = SubSeq(s, Len(s) - n + 1, Len(s))
  BY DEF Remember
<1> HIDE DEF s
<1>3. n \in 0..Len(s) /\ n <= SeenLimit
  BY <1>1
<1> HIDE DEF n
<1>4. Len(s) - n + 1 \in Int /\ Len(s) \in Int
      /\ \A k \in Len(s) - n + 1 .. Len(s) : s[k] \in LogIds
  BY <1>1, <1>3
<1>5. /\ Remember(i) \in Seq(LogIds)
      /\ Len(Remember(i)) = IF Len(s) - n + 1 <= Len(s) THEN Len(s) - (Len(s) - n + 1) + 1 ELSE 0
  BY <1>2, <1>4, SubSeqProperties
<1> QED BY <1>1, <1>3, <1>5

\* What publish() leaves is as long as the queue may be.
LEMMA QueuedType ==
    ASSUME NEW S, NEW q \in Seq(S), Len(q) <= QueueSize, NEW m \in S, NEW r \in Queued(q, m)
    PROVE  r \in Seq(S) /\ Len(r) <= QueueSize
<1>1. Len(q) \in Nat /\ QueueSize \in Nat
  BY NtfyAssumption
<1>2. \/ r = q
      \/ Len(q) < QueueSize /\ r = Append(q, m)
      \/ \E i \in DOMAIN q : r = Append(RemoveAt(q, i), m)
  <2>1. CASE run # "up"
    BY <2>1 DEF Queued
  <2>2. CASE run = "up" /\ Len(q) < QueueSize
    BY <2>2 DEF Queued
  <2>3. CASE run = "up" /\ ~(Len(q) < QueueSize)
    BY <2>3 DEF Queued, OldestLowest
  <2> QED BY <2>1, <2>2, <2>3
<1>3. CASE r = q
  BY <1>3
<1>4. CASE Len(q) < QueueSize /\ r = Append(q, m)
  <2>1. r \in Seq(S) /\ Len(r) = Len(q) + 1
    BY <1>4
  <2> QED BY <1>1, <1>4, <2>1
<1>5. CASE \E i \in DOMAIN q : r = Append(RemoveAt(q, i), m)
  <2>1. PICK i \in DOMAIN q : r = Append(RemoveAt(q, i), m)
    BY <1>5
  <2>2. RemoveAt(q, i) \in Seq(S) /\ Len(RemoveAt(q, i)) = Len(q) - 1
    BY RemoveAtShifts
  <2>3. r \in Seq(S) /\ Len(r) = Len(RemoveAt(q, i)) + 1
    BY <2>1, <2>2
  <2> QED BY <1>1, <2>2, <2>3
<1> QED BY <1>2, <1>3, <1>4, <1>5

\* The type invariant with its sequences as sequences.
NtfyTypes ==
    /\ run \in {"up", "closing", "gone"} /\ market \in {"unknown", "trading", "idle"}
    /\ items \in Seq(Alerts \cup {Reply}) /\ Len(items) <= QueueSize
    /\ sending \subseteq Alerts \cup {Reply} /\ thread \in BOOLEAN
    /\ alerts \in 0..MaxAlerts /\ refused \subseteq Alerts /\ tried \subseteq Alerts
    /\ log \in Seq({"status", "other"}) /\ Len(log) <= MaxLog
    /\ sub \in {"boot", "dialling", "reading", "stopped"}
    /\ cursor \in 0..Len(log) /\ {next, since, base} \subseteq 0..Len(log)
    /\ seen \in Seq(LogIds) /\ Len(seen) <= SeenLimit /\ answers \in [LogIds -> Nat]

LEMMA NtfyTypesMeanTypeOK == NtfyTypes => NtfyTypeOK
<1>1. QueueSize \in Nat /\ MaxLog \in Nat /\ SeenLimit \in Nat
  BY NtfyAssumption
<1> QED BY <1>1, BoundedSeqs DEF NtfyTypes, NtfyTypeOK

LEMMA NtfyStartsTyped == NtfyInit => NtfyTypes
<1> SUFFICES ASSUME NtfyInit PROVE NtfyTypes
  OBVIOUS
<1>1. QueueSize \in Nat /\ SeenLimit \in Nat /\ MaxAlerts \in Nat /\ MaxLog \in Nat \ {0}
  BY NtfyAssumption
<1>2. log \in Seq({"status", "other"}) /\ Len(log) \in Nat /\ Len(log) <= MaxLog
  <2>1. CASE log = <<>>
    BY <1>1, <2>1
  <2>2. CASE log = <<"status">>
    BY <1>1, <2>2
  <2>3. CASE log = <<"other">>
    BY <1>1, <2>3
  <2> QED BY <2>1, <2>2, <2>3 DEF NtfyInit
<1>3. items \in Seq(Alerts \cup {Reply}) /\ Len(items) <= QueueSize
  BY <1>1 DEF NtfyInit
<1>4. seen \in Seq(LogIds) /\ Len(seen) <= SeenLimit
  BY <1>1 DEF NtfyInit
<1>5. cursor \in 0..Len(log) /\ {next, since, base} \subseteq 0..Len(log) /\ alerts \in 0..MaxAlerts
  BY <1>1, <1>2 DEF NtfyInit
<1> QED BY <1>2, <1>3, <1>4, <1>5 DEF NtfyInit, NtfyTypes

LEMMA PublishType ==
    ASSUME NtfyTypes, Publish, alerts < MaxAlerts
    PROVE  /\ items' \in Seq(Alerts \cup {Reply}) /\ Len(items') <= QueueSize
           /\ alerts' \in 0..MaxAlerts /\ refused' \subseteq Alerts
           /\ UNCHANGED <<sending, thread, tried>>
<1>1. alerts + 1 \in Alerts /\ alerts + 1 \in 0..MaxAlerts
  BY NtfyAssumption DEF NtfyTypes, Alerts
<1>2. items' \in Queued(items, alerts + 1)
  BY DEF Publish
<1>3. items' \in Seq(Alerts \cup {Reply}) /\ Len(items') <= QueueSize
  BY <1>1, <1>2, QueuedType DEF NtfyTypes
<1> QED BY <1>1, <1>3 DEF Publish, NtfyTypes

\* A longer topic leaves what points into it where it is.
LEMMA LogGrowsTyped ==
    ASSUME NtfyTypes, NEW m \in {"status", "other"}, Len(log) < MaxLog, log' = Append(log, m),
           UNCHANGED <<cursor, next, since, base>>
    PROVE  /\ log' \in Seq({"status", "other"}) /\ Len(log') <= MaxLog
           /\ cursor' \in 0..Len(log') /\ {next, since, base}' \subseteq 0..Len(log')
<1>1. /\ log' \in Seq({"status", "other"}) /\ Len(log') = Len(log) + 1 /\ Len(log) \in Nat
      /\ MaxLog \in Nat
  BY NtfyAssumption DEF NtfyTypes
<1>2. \A k \in 0..Len(log) : k \in 0..Len(log')
  BY <1>1
<1> QED BY <1>1, <1>2 DEF NtfyTypes

LEMMA PublisherStepsTyped ==
    ASSUME NtfyTypes, Alert \/ SessionStarts \/ TakeNext \/ Sent \/ SendFails \/ Write
    PROVE  NtfyTypes'
<1>1. CASE Alert
  BY <1>1, PublishType DEF Alert, NtfyTypes, subVars
<1>2. CASE SessionStarts
  <2>1. CASE market = "idle"
    BY <1>2, <2>1, PublishType DEF SessionStarts, NtfyTypes, subVars
  <2>2. CASE market # "idle"
    BY <1>2, <2>2 DEF SessionStarts, NtfyTypes, subVars, pubVars
  <2> QED BY <2>1, <2>2
<1>3. CASE TakeNext
  <2>1. PICK i \in OldestHighest(items) : sending' = {items[i]} /\ items' = RemoveAt(items, i)
    BY <1>3 DEF TakeNext
  <2>2. i \in DOMAIN items /\ items \in Seq(Alerts \cup {Reply}) /\ Len(items) <= QueueSize
    BY <2>1 DEF OldestHighest, NtfyTypes
  <2>3. RemoveAt(items, i) \in Seq(Alerts \cup {Reply}) /\ Len(RemoveAt(items, i)) = Len(items) - 1
    BY <2>2, RemoveAtShifts
  <2>4. Len(items) \in Nat /\ QueueSize \in Nat /\ items[i] \in Alerts \cup {Reply}
    BY <2>2, NtfyAssumption
  <2>5. Len(items') <= QueueSize
    BY <2>1, <2>2, <2>3, <2>4
  <2>6. sending' \subseteq Alerts \cup {Reply} /\ tried' \subseteq Alerts
    BY <1>3, <2>1, <2>4 DEF TakeNext, NtfyTypes
  <2> QED BY <1>3, <2>1, <2>3, <2>5, <2>6 DEF TakeNext, NtfyTypes, subVars
<1>4. CASE Sent \/ SendFails
  <2>1. UNCHANGED <<run, market, items, thread, alerts, refused, tried, subVars>> /\ sending' = {}
    BY <1>4 DEF Sent, SendFails
  <2>2. UNCHANGED log \/ (Len(log) < MaxLog /\ log' = Append(log, "other"))
    BY <1>4 DEF Sent, SendFails, Delivered
  <2>3. CASE Len(log) < MaxLog /\ log' = Append(log, "other")
    <3>1. /\ log' \in Seq({"status", "other"}) /\ Len(log') <= MaxLog
          /\ cursor' \in 0..Len(log') /\ {next, since, base}' \subseteq 0..Len(log')
      BY <2>1, <2>3, LogGrowsTyped DEF subVars
    <3> QED BY <2>1, <3>1 DEF NtfyTypes, subVars
  <2>4. CASE UNCHANGED log
    BY <2>1, <2>4 DEF NtfyTypes, subVars
  <2> QED BY <2>2, <2>3, <2>4
<1>5. CASE Write
  <2>1. PICK m \in {"status", "other"} : log' = Append(log, m)
    BY <1>5 DEF Write
  <2>2. /\ log' \in Seq({"status", "other"}) /\ Len(log') <= MaxLog
        /\ cursor' \in 0..Len(log') /\ {next, since, base}' \subseteq 0..Len(log')
    BY <1>5, <2>1, LogGrowsTyped DEF Write, subVars
  <2> QED BY <1>5, <2>2 DEF Write, NtfyTypes, subVars, pubVars
<1> QED BY <1>1, <1>2, <1>3, <1>4, <1>5

LEMMA SubscriberStepsTyped ==
    ASSUME NtfyTypes, Bootstrap \/ Dial \/ Read
    PROVE  NtfyTypes'
<1>1. Len(log) \in Nat /\ log \in Seq({"status", "other"}) /\ Len(log) <= MaxLog /\ MaxLog \in Nat
      /\ \A i \in 1..Len(log) : i \in LogIds
  BY NtfyAssumption DEF NtfyTypes, LogIds
<1>2. CASE Bootstrap
  <2>1. CASE UNCHANGED <<cursor, seen, base>>
    BY <1>2, <2>1 DEF Bootstrap, NtfyTypes, pubVars
  <2>2. CASE log # <<>> /\ cursor' = Len(log) /\ seen' = Remember(Len(log)) /\ base' = Len(log)
    <3>1. Len(log) \in LogIds
      <4>1. Len(log) # 0
        BY <1>1, <2>2
      <4> QED BY <1>1, <4>1
    <3>2. seen' \in Seq(LogIds) /\ Len(seen') <= SeenLimit
      BY <2>2, <3>1, RememberType DEF NtfyTypes
    <3>3. Len(log) \in 0..Len(log)
      BY <1>1
    <3> QED BY <1>2, <2>2, <3>2, <3>3 DEF Bootstrap, NtfyTypes, pubVars
  <2> QED BY <1>2, <2>1, <2>2 DEF Bootstrap
<1>3. CASE Dial
  <2>1. Since \in 0..Len(log) /\ Len(log) \in 0..Len(log)
    BY <1>1 DEF Since, NtfyTypes
  <2> QED BY <1>3, <2>1 DEF Dial, NtfyTypes, pubVars
<1>4. CASE Read
  <2>1. PICK i \in {next + 1} \cup (next - Overlap + 1)..next :
        /\ since < i /\ i <= Len(log)
        /\ next' = IF i > next THEN i ELSE next
        /\ IF IsNew(i)
           THEN /\ seen' = Remember(i) /\ cursor' = i
                /\ IF log[i] = "status"
                   THEN /\ answers' = [answers EXCEPT ![i] = @ + 1]
                        /\ items' \in Queued(items, Reply)
                   ELSE UNCHANGED <<answers, items>>
           ELSE UNCHANGED <<seen, cursor, answers, items>>
    BY <1>4 DEF Read
  <2>2. i \in 1..Len(log) /\ i \in LogIds /\ i \in 0..Len(log)
    <3>1. since \in Nat /\ next \in Nat /\ Overlap \in Nat
      BY NtfyAssumption DEF NtfyTypes
    <3>2. i \in Int
      BY <3>1
    <3>3. i \in 1..Len(log) /\ i \in 0..Len(log)
      BY <1>1, <2>1, <3>1, <3>2
    <3> QED BY <1>1, <3>3
  <2>3. next' \in 0..Len(log)
    BY <2>1, <2>2 DEF NtfyTypes
  <2>4. seen' \in Seq(LogIds) /\ Len(seen') <= SeenLimit /\ cursor' \in 0..Len(log)
    BY <2>1, <2>2, RememberType DEF NtfyTypes
  <2>5. answers' \in [LogIds -> Nat]
    BY <2>1, <2>2 DEF NtfyTypes
  <2>6. items' \in Seq(Alerts \cup {Reply}) /\ Len(items') <= QueueSize
    BY <2>1, QueuedType DEF NtfyTypes
  <2> QED BY <1>4, <2>3, <2>4, <2>5, <2>6 DEF Read, NtfyTypes
<1> QED BY <1>2, <1>3, <1>4

\* NtfyTypeOK is kept by every step, for any queue, any topic and any memory.
LEMMA NtfyStepsTyped ==
    ASSUME NtfyTypes, [NtfyNext]_ntfyVars
    PROVE  NtfyTypes'
<1>1. CASE SessionEnds
  BY <1>1 DEF SessionEnds, NtfyTypes, pubVars, subVars
<1>2. CASE Finish
  BY <1>2 DEF Finish, NtfyTypes, pubVars
<1>3. CASE WorkerEnds
  BY <1>3 DEF WorkerEnds, NtfyTypes, subVars
<1>4. CASE Exit
  BY <1>4 DEF Exit, NtfyTypes, pubVars, subVars
<1>5. CASE StreamBreaks
  BY <1>5 DEF StreamBreaks, NtfyTypes, pubVars
<1>6. CASE UNCHANGED ntfyVars
  BY <1>6 DEF ntfyVars, NtfyTypes, pubVars, subVars
<1> QED BY <1>1, <1>2, <1>3, <1>4, <1>5, <1>6, PublisherStepsTyped, SubscriberStepsTyped
        DEF NtfyNext

-----------------------------------------------------------------------------
(* The rollover calendar: days and counts *)

\* A set of natural numbers that is not empty has a least element.
LEMMA LeastNat ==
    ASSUME NEW S \in SUBSET Nat, S # {}
    PROVE  \E m \in S : \A n \in S : m <= n
<1> DEFINE T == {0..m : m \in S}
           R == StrictSubsetOrdering(Nat)
<1>1. IsWellFoundedOn(R, FiniteSubsetsOf(Nat))
  BY FS_StrictSubsetOrderingWellFounded
<1>2. T \subseteq FiniteSubsetsOf(Nat) /\ T # {}
  <2>1. ASSUME NEW m \in S PROVE 0..m \in FiniteSubsetsOf(Nat)
    <3>1. IsFiniteSet(0..m)
      BY FS_Interval
    <3> QED BY <3>1 DEF FiniteSubsetsOf
  <2> QED BY <2>1
<1> HIDE DEF R, T
<1>3. \E x \in T : \A y \in T : ~(<<y, x>> \in R)
  BY <1>1, <1>2, WFMin
<1>4. PICK m \in S : \A n \in S : ~(<<0..n, 0..m>> \in R)
  BY <1>3 DEF T
<1>5. ASSUME NEW n \in S, n < m PROVE FALSE
  <2>1. 0..n \subseteq 0..m /\ 0..n # 0..m /\ 0..n \in SUBSET Nat /\ 0..m \in SUBSET Nat
    <3>1. n \in Nat /\ m \in Nat /\ m \in 0..m /\ ~(m \in 0..n)
      BY <1>5
    <3>2. 0..n \subseteq 0..m /\ 0..n \subseteq Nat /\ 0..m \subseteq Nat
      BY <1>5, <3>1
    <3> QED BY <3>1, <3>2
  <2>2. <<0..n, 0..m>> \in R
    BY <2>1 DEF R, StrictSubsetOrdering
  <2> QED BY <1>4, <2>2
<1> QED BY <1>4, <1>5

LEMMA MinIsLeast ==
    ASSUME NEW S \in SUBSET Nat, S # {}
    PROVE  Min(S) \in S
BY LeastNat DEF Min

\* The business days from one day to another.
Open(a, b) == {d \in a..b : IsBusinessDay(d)}

LEMMA OpenIsFinite ==
    ASSUME NEW a \in Int, NEW b \in Int
    PROVE  IsFiniteSet(Open(a, b)) /\ Cardinality(Open(a, b)) \in Nat
<1>1. IsFiniteSet(a..b)
  BY FS_Interval
<1>2. Open(a, b) \in SUBSET (a..b)
  BY DEF Open
<1>3. IsFiniteSet(Open(a, b))
  BY <1>1, <1>2, FS_Subset
<1> QED BY <1>3, FS_CardinalityType

\* A day more at the front counts if it is a business day.
LEMMA OneDayMore ==
    ASSUME NEW a \in Int, NEW b \in Int, a <= b
    PROVE  Cardinality(Open(a, b)) =
             Cardinality(Open(a + 1, b)) + IF IsBusinessDay(a) THEN 1 ELSE 0
<1> DEFINE T == Open(a + 1, b)
<1>1. IsFiniteSet(T) /\ Cardinality(T) \in Nat
  <2>1. a + 1 \in Int
    OBVIOUS
  <2> QED BY <2>1, OpenIsFinite
<1>2. \A d : d \in a..b <=> d = a \/ d \in a + 1..b
  OBVIOUS
<1>3. a \notin T
  <2>1. a \notin a + 1..b
    OBVIOUS
  <2> QED BY <2>1 DEF Open
<1>4. CASE IsBusinessDay(a)
  <2>1. Open(a, b) = T \cup {a}
    BY <1>2, <1>4 DEF Open
  <2> HIDE DEF T
  <2>2. Cardinality(Open(a, b)) = Cardinality(T) + 1
    BY <1>1, <1>3, <2>1, FS_AddElement
  <2> QED BY <1>4, <2>2 DEF T
<1>5. CASE ~IsBusinessDay(a)
  <2>1. Open(a, b) = T
    BY <1>2, <1>5 DEF Open
  <2> HIDE DEF T
  <2> QED BY <1>1, <1>5, <2>1 DEF T
<1> QED BY <1>4, <1>5

\* More days hold no fewer business days.
LEMMA MoreDays ==
    ASSUME NEW a \in Int, NEW b \in Int, NEW c \in Int, a <= b
    PROVE  Cardinality(Open(b, c)) <= Cardinality(Open(a, c))
<1>1. Open(b, c) \in SUBSET Open(a, c)
  <2>1. b..c \subseteq a..c
    OBVIOUS
  <2> QED BY <2>1 DEF Open
<1> QED BY <1>1, OpenIsFinite, FS_Subset

\* No holiday lies before day 0, and the two weeks there have ten business days.
LEMMA TenBefore ==
    ASSUME holidays \subseteq Nat, NEW b \in Nat \cup {-1}
    PROVE  10 <= Cardinality(Open(-14, b))
<1>1. \A m, n \in Int : IsFiniteSet(m..n) /\ Cardinality(m..n) = IF m > n THEN 0 ELSE n - m + 1
  BY FS_Interval
<1> DEFINE A == -14..-10
           B == -7..-3
<1>2. /\ IsFiniteSet(A) /\ IsFiniteSet(B)
      /\ Cardinality(A) = 5 /\ Cardinality(B) = 5
  <2>1. -14 \in Int /\ -10 \in Int /\ -7 \in Int /\ -3 \in Int
    OBVIOUS
  <2>2. IsFiniteSet(A) /\ Cardinality(A) = IF -14 > -10 THEN 0 ELSE -10 - -14 + 1
    BY <1>1, <2>1
  <2>3. IsFiniteSet(B) /\ Cardinality(B) = IF -7 > -3 THEN 0 ELSE -3 - -7 + 1
    BY <1>1, <2>1
  <2> HIDE DEF A, B
  <2> QED BY <2>2, <2>3
<1>3. Cardinality(A \cap B) = 0
  <2>1. A \cap B = {}
    OBVIOUS
  <2> QED BY <2>1, FS_EmptySet
<1>4. \A d \in A \cup B : d \in -14..b /\ d % 7 < 5 /\ d \notin Nat
  OBVIOUS
<1>5. A \cup B \in SUBSET Open(-14, b)
  BY <1>4 DEF Open, IsBusinessDay, Weekday
<1> HIDE DEF A, B
<1>6. Cardinality(A \cup B) = 10
  BY <1>2, <1>3, FS_Union
<1>7. IsFiniteSet(Open(-14, b)) /\ Cardinality(Open(-14, b)) \in Nat
  <2>1. -14 \in Int /\ b \in Int
    OBVIOUS
  <2> QED BY <2>1, OpenIsFinite
<1>8. Cardinality(A \cup B) <= Cardinality(Open(-14, b))
  BY <1>5, <1>7, FS_Subset
<1> QED BY <1>6, <1>8

\* Counting business days back from an expiry ends on one, with that many from it on.
LEMMA CountedBack ==
    ASSUME holidays \subseteq Nat, NEW x \in Nat, NEW n \in 1..10
    PROVE  /\ PreviousBusinessDay(x, n) \in -14..x - 1
           /\ IsBusinessDay(PreviousBusinessDay(x, n))
           /\ Cardinality(Open(PreviousBusinessDay(x, n), x - 1)) = n
<1> DEFINE C(e) == Cardinality(Open(e, x - 1))
           S == {e \in -14..x - 1 : C(e) = n}
           K == {k \in Nat : k <= x + 13 /\ n <= C(x - 1 - k)}
<1>1. PreviousBusinessDay(x, n) = Max(S)
  BY DEF PreviousBusinessDay, Open
<1>2. \A e \in Int : C(e) \in Nat
  <2>1. x - 1 \in Int
    OBVIOUS
  <2> QED BY <2>1, OpenIsFinite
<1>3. \A e \in Int : e <= x - 1 => C(e) = C(e + 1) + IF IsBusinessDay(e) THEN 1 ELSE 0
  <2>1. x - 1 \in Int
    OBVIOUS
  <2> QED BY <2>1, OneDayMore
<1>4. C(x) = 0
  <2>1. Open(x, x - 1) = {}
    BY DEF Open
  <2> QED BY <2>1, FS_EmptySet
<1>5. 10 <= C(-14)
  <2>1. x - 1 \in Nat \cup {-1}
    OBVIOUS
  <2> QED BY <2>1, TenBefore
<1> HIDE DEF C
<1>6. x + 13 \in K
  <2>1. x + 13 \in Nat /\ x - 1 - (x + 13) = -14 /\ n <= 10 /\ n \in Nat
    OBVIOUS
  <2>2. C(x - 1 - (x + 13)) = C(-14)
    BY <2>1
  <2>3. -14 \in Int
    OBVIOUS
  <2>4. n <= C(x - 1 - (x + 13))
    BY <1>2, <1>5, <2>1, <2>2, <2>3
  <2> QED BY <2>1, <2>4
<1>7. K \in SUBSET Nat
  OBVIOUS
<1> HIDE DEF K
<1>8. PICK m \in K : \A k \in K : m <= k
  BY <1>6, <1>7, LeastNat
<1>9. m \in Nat /\ m <= x + 13 /\ n <= C(x - 1 - m)
  BY <1>8 DEF K
<1> DEFINE e == x - 1 - m
<1>10. e \in -14..x - 1 /\ e \in Int /\ e + 1 \in Int
  BY <1>9
<1>11. C(e) <= n
  <2>1. CASE m = 0
    <3>1. e = x - 1 /\ e + 1 = x
      BY <2>1
    <3>2. C(e + 1) = 0
      BY <1>4, <3>1
    <3>3. C(e) = C(e + 1) + IF IsBusinessDay(e) THEN 1 ELSE 0
      BY <1>3, <1>10
    <3> QED BY <1>2, <1>10, <3>2, <3>3
  <2>2. CASE m # 0
    <3>1. m - 1 \in Nat /\ m - 1 <= x + 13 /\ x - 1 - (m - 1) = e + 1 /\ ~(m <= m - 1)
      BY <1>9, <2>2
    <3>2. ~(n <= C(e + 1))
      <4>1. m - 1 \notin K
        BY <1>8, <3>1
      <4>2. C(x - 1 - (m - 1)) = C(e + 1)
        BY <3>1
      <4> HIDE DEF e
      <4> QED BY <3>1, <4>1, <4>2 DEF K
    <3>3. C(e) = C(e + 1) + IF IsBusinessDay(e) THEN 1 ELSE 0
      BY <1>3, <1>10
    <3> HIDE DEF e
    <3> QED BY <1>2, <1>10, <3>2, <3>3
  <2> QED BY <2>1, <2>2
<1>12. e \in S
  <2>1. C(e) = n
    BY <1>2, <1>9, <1>10, <1>11
  <2> HIDE DEF e
  <2> QED BY <1>10, <2>1
<1>13. \A y \in S : e >= y
  <2> SUFFICES ASSUME NEW y \in S
               PROVE  e >= y
    OBVIOUS
  <2>1. x - 1 - y \in Nat /\ x - 1 - y <= x + 13 /\ x - 1 - (x - 1 - y) = y /\ C(y) = n
    OBVIOUS
  <2>2. C(x - 1 - (x - 1 - y)) = C(y)
    BY <2>1
  <2>3. x - 1 - y \in K
    <3>1. n <= C(x - 1 - (x - 1 - y))
      BY <2>1, <2>2
    <3> HIDE DEF S
    <3> QED BY <2>1, <3>1 DEF K
  <2> QED BY <1>8, <1>9, <2>1, <2>3
<1> HIDE DEF e, S
<1>14. Max(S) \in S /\ \A y \in S : Max(S) >= y
  BY <1>12, <1>13 DEF Max
<1> DEFINE D == Max(S)
<1>15. D \in -14..x - 1 /\ C(D) = n /\ D \in Int /\ D + 1 \in Int
  BY <1>14 DEF S
<1>16. IsBusinessDay(D)
  <2> SUFFICES ASSUME ~IsBusinessDay(D)
               PROVE  FALSE
    OBVIOUS
  <2> HIDE DEF D
  <2>1. C(D + 1) = n
    <3>1. C(D) = C(D + 1) + IF IsBusinessDay(D) THEN 1 ELSE 0
      BY <1>3, <1>15
    <3>2. C(D + 1) \in Nat
      BY <1>2, <1>15
    <3> QED BY <1>15, <3>1, <3>2
  <2>2. CASE D = x - 1
    <3>1. D + 1 = x
      BY <2>2
    <3> QED BY <1>4, <2>1, <3>1
  <2>3. CASE D # x - 1
    <3>1. D + 1 \in S
      BY <1>15, <2>1, <2>3 DEF S
    <3> QED BY <1>14, <1>15, <3>1 DEF D
  <2> QED BY <2>2, <2>3
<1> QED BY <1>1, <1>15, <1>16 DEF C

\* The last weekday before a day is at most three days away.
LEMMA LastWeekday ==
    ASSUME NEW d \in Int
    PROVE  LET e == Max({f \in d - 7 .. d - 1 : Weekday(f) < 5})
           IN  /\ e \in d - 7 .. d - 1 /\ Weekday(e) < 5
               /\ \A f \in d - 7 .. d - 1 : Weekday(f) < 5 => f <= e
<1> DEFINE T == {f \in d - 7 .. d - 1 : Weekday(f) < 5}
<1>1. d % 7 \in 0..6 /\ d = 7 * (d \div 7) + (d % 7)
  OBVIOUS
<1>5. Weekday(d - 1) \in Int /\ Weekday(d - 2) \in Int
  BY DEF Weekday
<1>2. CASE Weekday(d - 1) < 5
  BY <1>2 DEF Max
<1>3. CASE Weekday(d - 1) >= 5 /\ Weekday(d - 2) < 5
  <2>1. d - 2 \in T /\ \A f \in T : d - 2 >= f
    <3>1. d - 2 \in d - 7 .. d - 1
      OBVIOUS
    <3>2. \A f \in d - 7 .. d - 1 : f = d - 1 \/ d - 2 >= f
      OBVIOUS
    <3>3. \A f \in T : f # d - 1
      BY <1>3, <1>5
    <3> QED BY <1>3, <3>1, <3>2, <3>3
  <2> HIDE DEF T
  <2>2. Max(T) \in T /\ \A f \in T : Max(T) >= f
    BY <2>1 DEF Max
  <2> QED BY <2>2 DEF T
<1>4. CASE Weekday(d - 1) >= 5 /\ Weekday(d - 2) >= 5
  <2>0. Weekday(d - 3) < 5
    BY <1>4 DEF Weekday
  <2>1. d - 3 \in T /\ \A f \in T : d - 3 >= f
    <3>1. d - 3 \in d - 7 .. d - 1
      OBVIOUS
    <3>2. \A f \in d - 7 .. d - 1 : f = d - 1 \/ f = d - 2 \/ d - 3 >= f
      OBVIOUS
    <3>3. \A f \in T : f # d - 1 /\ f # d - 2
      BY <1>4, <1>5
    <3> QED BY <2>0, <3>1, <3>2, <3>3
  <2> HIDE DEF T
  <2>2. Max(T) \in T /\ \A f \in T : Max(T) >= f
    BY <2>1 DEF Max
  <2> QED BY <2>2 DEF T
<1> QED BY <1>2, <1>3, <1>4, <1>5

-----------------------------------------------------------------------------
(* The rollover calendar: deadlines *)

\* The forced exit is at least one business day before the last trading day (and at
\* most ten, as the model counts back no further than two weeks before day 0), and
\* on the last day a month is still listed that is far enough away.
Horizon ==
    /\ ExitBusinessDays \in 1..10
    /\ \E x \in Expiries : x >= LastDay + 7 * MinBusinessDays

\* An entry needs two business days more than the exit: one more, which the module
\* assumes, is not enough over a weekend.  The shipped configuration has 5 and 1
\* (configs/live.example.toml:42).
EntryMargin == ExitBusinessDays + 2 <= MinBusinessDays

\* The business day a position in the contract must not see the end of.
LastOut(x) == PreviousBusinessDay(x, ExitBusinessDays)

\* The forced exit is due in the last minutes of the session before that day, or
\* of one before it.
LEMMA DueBefore ==
    ASSUME holidays \subseteq Nat, ExitBusinessDays \in 1..10, NEW x \in Nat
    PROVE  /\ ForceExitDeadline(x) \in Int /\ ForceExitDeadline(x) <= 3 * LastOut(x) + 1
           /\ \A f \in LastOut(x) - 7 .. LastOut(x) - 1 :
                  Weekday(f) < 5 => 3 * f + 4 <= ForceExitDeadline(x)
<1> DEFINE D == LastOut(x)
           e == Max({f \in D - 7 .. D - 1 : Weekday(f) < 5})
<1>1. D \in Int
  BY CountedBack DEF LastOut
<1>2. /\ e \in D - 7 .. D - 1
      /\ \A f \in D - 7 .. D - 1 : Weekday(f) < 5 => f <= e
  <2> HIDE DEF D
  <2> QED BY <1>1, LastWeekday
<1>3. ForceExitDeadline(x) = 3 * (1 + e) + 1
  BY DEF ForceExitDeadline, PairSessionCloseOn, AtClose, LastMinutes, LastOut
<1> HIDE DEF e, D
<1> QED BY <1>1, <1>2, <1>3 DEF D

\* A day more at the end is at most a business day more.
LEMMA OneDayAtTheEnd ==
    ASSUME NEW a \in Int, NEW x \in Int
    PROVE  Cardinality(Open(a, x)) <= Cardinality(Open(a, x - 1)) + 1
<1> DEFINE T == Open(a, x - 1)
<1>1. IsFiniteSet(T) /\ Cardinality(T) \in Nat
  <2>1. x - 1 \in Int
    OBVIOUS
  <2> QED BY <2>1, OpenIsFinite
<1>2. Open(a, x) \in SUBSET (T \cup {x})
  <2>1. \A f \in a..x : f = x \/ f \in a..x - 1
    OBVIOUS
  <2> QED BY <2>1 DEF Open
<1> HIDE DEF T
<1>3. /\ IsFiniteSet(T \cup {x})
      /\ Cardinality(T \cup {x}) = IF x \in T THEN Cardinality(T) ELSE Cardinality(T) + 1
  BY <1>1, FS_AddElement
<1>4. Cardinality(Open(a, x)) <= Cardinality(T \cup {x})
  BY <1>2, <1>3, FS_Subset
<1>5. Cardinality(Open(a, x)) \in Nat
  BY OpenIsFinite
<1> QED BY <1>1, <1>3, <1>4, <1>5 DEF T

\* What is known of a contract that is far enough away.
LEMMA FarEnoughMeans ==
    ASSUME NEW d \in Nat, NEW x \in FarEnough(d)
    PROVE  /\ x \in Nat /\ MinBusinessDays \in Nat /\ ExitBusinessDays \in Nat
           /\ ExitBusinessDays < MinBusinessDays
           /\ Cardinality(Open(d + 1, x - 1)) \in Nat
           /\ MinBusinessDays <= Cardinality(Open(d + 1, x - 1)) + 1
<1>1. /\ x \in Nat /\ MinBusinessDays \in Nat /\ ExitBusinessDays \in Nat
      /\ ExitBusinessDays < MinBusinessDays
      /\ MinBusinessDays <= Cardinality(Open(d + 1, x))
  BY CalendarAssumption DEF FarEnough, BusinessDaysBetween, Open
<1>2. x \in Int /\ d + 1 \in Int /\ x - 1 \in Int
  BY <1>1
<1>3. /\ Cardinality(Open(d + 1, x)) \in Nat /\ Cardinality(Open(d + 1, x - 1)) \in Nat
      /\ Cardinality(Open(d + 1, x)) <= Cardinality(Open(d + 1, x - 1)) + 1
  BY <1>2, OpenIsFinite, OneDayAtTheEnd
<1> QED BY <1>1, <1>3

\* A contract far enough away may still be open on a later business day.
LEMMA FarFromLastOut ==
    ASSUME holidays \subseteq Nat, Horizon, NEW d \in Nat, NEW x \in FarEnough(d)
    PROVE  d < LastOut(x)
<1> DEFINE D == LastOut(x)
<1>1. /\ x \in Nat /\ MinBusinessDays \in Nat /\ ExitBusinessDays < MinBusinessDays
      /\ Cardinality(Open(d + 1, x - 1)) \in Nat
      /\ MinBusinessDays <= Cardinality(Open(d + 1, x - 1)) + 1
  BY FarEnoughMeans
<1>2. ExitBusinessDays \in 1..10
  BY DEF Horizon
<1>3. /\ D \in -14..x - 1 /\ IsBusinessDay(D)
      /\ Cardinality(Open(D, x - 1)) = ExitBusinessDays
  BY <1>1, <1>2, CountedBack DEF LastOut
<1> HIDE DEF D
<1>4. SUFFICES ASSUME D <= d
               PROVE  FALSE
  BY <1>3 DEF D
<1>5. D \in Int /\ D + 1 \in Int /\ d + 1 \in Int /\ x - 1 \in Int /\ D <= x - 1 /\ D + 1 <= d + 1
  BY <1>1, <1>3, <1>4
<1>6. Cardinality(Open(D, x - 1)) = Cardinality(Open(D + 1, x - 1)) + 1
  BY <1>3, <1>5, OneDayMore
<1>7. Cardinality(Open(d + 1, x - 1)) <= Cardinality(Open(D + 1, x - 1))
  BY <1>5, MoreDays
<1>8. Cardinality(Open(D + 1, x - 1)) \in Nat
  BY <1>5, OpenIsFinite
<1> QED BY <1>1, <1>2, <1>3, <1>6, <1>7, <1>8

\* With the entry's margin it is not due today either.
LEMMA FarFromDue ==
    ASSUME holidays \subseteq Nat, Horizon, EntryMargin, NEW d \in Nat, NEW x \in FarEnough(d)
    PROVE  3 * d + 2 < ForceExitDeadline(x)
<1>1. /\ x \in Nat /\ MinBusinessDays \in Nat
      /\ Cardinality(Open(d + 1, x - 1)) \in Nat
      /\ MinBusinessDays <= Cardinality(Open(d + 1, x - 1)) + 1
      /\ ExitBusinessDays \in 1..10 /\ ExitBusinessDays + 2 <= MinBusinessDays
  BY FarEnoughMeans DEF Horizon, EntryMargin
<1> DEFINE D == LastOut(x)
<1>2. D \in -14..x - 1 /\ Cardinality(Open(D, x - 1)) = ExitBusinessDays
  BY <1>1, CountedBack DEF LastOut
<1>3. /\ ForceExitDeadline(x) \in Int
      /\ \A f \in D - 7 .. D - 1 : Weekday(f) < 5 => 3 * f + 4 <= ForceExitDeadline(x)
  BY <1>1, DueBefore
<1> HIDE DEF D
<1>4. PICK f \in Open(d + 1, x - 1) : f < D
  <2> SUFFICES ASSUME \A f \in Open(d + 1, x - 1) : ~(f < D)
               PROVE  FALSE
    OBVIOUS
  <2>1. Open(d + 1, x - 1) \in SUBSET Open(D, x - 1)
    <3>1. \A f \in d + 1..x - 1 : ~(f < D) => f \in D..x - 1
      BY <1>1, <1>2
    <3> QED BY <3>1 DEF Open
  <2>2. D \in Int /\ x - 1 \in Int
    BY <1>1, <1>2
  <2>3. Cardinality(Open(d + 1, x - 1)) <= Cardinality(Open(D, x - 1))
    BY <2>1, <2>2, OpenIsFinite, FS_Subset
  <2> QED BY <1>1, <1>2, <2>3
<1>5. f \in d + 1..x - 1 /\ f < D /\ Weekday(f) < 5
  BY <1>4 DEF Open, IsBusinessDay
<1>6. PICK g \in D - 7 .. D - 1 : Weekday(g) < 5 /\ f <= g
  <2>1. CASE f \in D - 7 .. D - 1
    BY <1>5, <2>1
  <2>2. CASE f \notin D - 7 .. D - 1
    <3>1. D \in Int /\ f <= D - 7
      BY <1>2, <1>5, <2>2
    <3> DEFINE g == Max({h \in D - 7 .. D - 1 : Weekday(h) < 5})
    <3>2. g \in D - 7 .. D - 1 /\ Weekday(g) < 5
      BY <3>1, LastWeekday
    <3> HIDE DEF g
    <3> QED BY <1>5, <3>1, <3>2
  <2> QED BY <2>1, <2>2
<1>7. 3 * g + 4 <= ForceExitDeadline(x)
  BY <1>3, <1>6
<1> QED BY <1>2, <1>3, <1>5, <1>6, <1>7

\* From every day some contract is far enough away.
LEMMA AlwaysOneFarEnough ==
    ASSUME holidays \subseteq Days, Horizon, NEW d \in Days
    PROVE  FarEnough(d) # {}
<1>1. /\ LastDay \in Nat /\ MinBusinessDays \in Nat /\ d \in Nat /\ d <= LastDay
      /\ Expiries \subseteq Nat
  BY CalendarAssumption DEF Days
<1>2. PICK x \in Expiries : x >= LastDay + 7 * MinBusinessDays
  BY DEF Horizon
<1> DEFINE W == LastDay \div 7
           M == [j \in 1..MinBusinessDays |-> 7 * (W + j)]
<1>3. W \in Nat /\ 7 * W <= LastDay /\ LastDay < 7 * W + 7
  BY <1>1
<1>4. \A j \in 1..MinBusinessDays : M[j] \in d + 1..x /\ M[j] % 7 = 0 /\ M[j] \notin Days
  <2> SUFFICES ASSUME NEW j \in 1..MinBusinessDays
               PROVE  M[j] \in d + 1..x /\ M[j] % 7 = 0 /\ M[j] \notin Days
    OBVIOUS
  <2> HIDE DEF W
  <2>1. M[j] = 7 * (W + j) /\ W + j \in Int
    BY <1>3
  <2>2. 7 * (W + j) \in d + 1..x /\ ~(7 * (W + j) <= LastDay)
    BY <1>1, <1>2, <1>3
  <2>3. (7 * (W + j)) % 7 = 0
    <3>1. \A k \in Int : (7 * k) % 7 = 0
      OBVIOUS
    <3> QED BY <2>1, <3>1
  <2> QED BY <1>1, <2>1, <2>2, <2>3 DEF Days
<1>5. M \in Injection(1..MinBusinessDays, Open(d + 1, x))
  <2>1. \A j \in 1..MinBusinessDays : M[j] \in Open(d + 1, x)
    BY <1>4 DEF Open, IsBusinessDay, Weekday
  <2>2. \A i, j \in 1..MinBusinessDays : M[i] = M[j] => i = j
    <3> HIDE DEF W
    <3> QED BY <1>3
  <2>3. M \in [1..MinBusinessDays -> Open(d + 1, x)]
    BY <2>1
  <2> HIDE DEF M
  <2> QED BY <2>2, <2>3 DEF Injection, IsInjective
<1> HIDE DEF M
<1>6. d + 1 \in Int /\ x \in Int
  BY <1>1, <1>2
<1>7. IsFiniteSet(Open(d + 1, x)) /\ Cardinality(Open(d + 1, x)) \in Nat
  BY <1>6, OpenIsFinite
<1>8. Cardinality(1..MinBusinessDays) <= Cardinality(Open(d + 1, x))
  BY <1>5, <1>7, FS_Injection
<1>9. Cardinality(1..MinBusinessDays) = MinBusinessDays
  <2>1. 1 \in Int /\ MinBusinessDays \in Int
    BY <1>1
  <2>2. Cardinality(1..MinBusinessDays) = IF 1 > MinBusinessDays THEN 0 ELSE MinBusinessDays - 1 + 1
    BY <2>1, FS_Interval
  <2> QED BY <1>1, <2>2
<1>10. x \in FarEnough(d)
  BY <1>1, <1>2, <1>7, <1>8, <1>9 DEF FarEnough, BusinessDaysBetween, Open
<1> QED BY <1>10

-----------------------------------------------------------------------------
(* The rollover calendar: its states *)

\* The type invariant, and what CalInit says of the holidays: all are weekdays.
CalendarInv == CalTypeOK /\ \A h \in holidays : Weekday(h) < 5

\* A contract that is selected is listed; its day is a natural number.
LEMMA SelectedIsListed ==
    ASSUME CalendarInv, NEW d
    PROVE  /\ SelectActive(d) \in Expiries /\ Expiries \subseteq Nat
           /\ FarEnough(d) # {} => SelectActive(d) \in FarEnough(d)
<1>1. FarEnough(d) \subseteq Expiries /\ Expiries \subseteq Nat /\ month \in Expiries
  BY CalendarAssumption DEF FarEnough, CalendarInv, CalTypeOK
<1>2. FarEnough(d) # {} => Min(FarEnough(d)) \in FarEnough(d)
  BY <1>1, MinIsLeast
<1> QED BY <1>1, <1>2 DEF SelectActive

LEMMA CalendarInitially ==
    ASSUME CalInit
    PROVE  CalendarInv
<1>1. Expiries \subseteq Nat /\ Expiries # {} /\ LastDay \in Nat
  BY CalendarAssumption
<1>2. month \in Expiries
  BY <1>1, MinIsLeast DEF CalInit
<1>3. holidays \subseteq {d \in Days \ Expiries : Weekday(d) < 5}
  BY DEF CalInit, kSubset
<1>4. now \in Evening .. 3 * LastDay + Evening
  BY <1>1 DEF CalInit, Evening
<1> QED BY <1>2, <1>3, <1>4 DEF CalendarInv, CalTypeOK, CalInit

LEMMA CalendarSteps ==
    ASSUME CalendarInv, [CalNext]_calVars
    PROVE  CalendarInv' /\ holidays' = holidays /\ weekend' = weekend
<1>1. /\ SelectActive(DayOf(now)) \in Expiries
      /\ LastDay \in Nat /\ now \in Evening .. 3 * LastDay + Evening
      /\ entered \in {NoPosition} \cup Evening .. now /\ Evening = 2 /\ NoPosition = -1
  BY SelectedIsListed, CalendarAssumption DEF CalendarInv, CalTypeOK, Evening, NoPosition
<1>2. CASE SwitchBar
  BY <1>1, <1>2 DEF SwitchBar, CalendarInv, CalTypeOK
<1>3. CASE ForcedExitBar
  BY <1>1, <1>3 DEF ForcedExitBar, CalendarInv, CalTypeOK
<1>4. CASE SignalBar
  BY <1>1, <1>4 DEF SignalBar, CalendarInv, CalTypeOK
<1>5. CASE NextPart
  <2>1. now' = now + 1 /\ now < 3 * LastDay + Evening /\ entered' = entered
    BY <1>5 DEF NextPart
  <2>2. now' \in Evening .. 3 * LastDay + Evening
    BY <1>1, <2>1
  <2>3. entered' \in {NoPosition} \cup Evening .. now'
    BY <1>1, <2>1
  <2> QED BY <1>5, <2>2, <2>3 DEF NextPart, CalendarInv, CalTypeOK
<1>6. CASE UNCHANGED calVars
  BY <1>6 DEF calVars, CalendarInv, CalTypeOK
<1> QED BY <1>2, <1>3, <1>4, <1>5, <1>6 DEF CalNext

\* Every state of the calendar's bar loop is well typed, for any listed months, any
\* margins and any number of closed days.
THEOREM CalendarTypes == CalSpec => []CalTypeOK
<1>1. CalInit => CalendarInv
  BY CalendarInitially
<1>2. CalendarInv /\ [CalNext]_calVars => CalendarInv'
  BY CalendarSteps
<1>3. CalendarInv => CalTypeOK
  BY DEF CalendarInv
<1> QED BY <1>1, <1>2, <1>3, PTL DEF CalSpec

-----------------------------------------------------------------------------
(* The rollover calendar: the last trading day *)

\* A position does not see the end of the last business day it may be open on, and
\* no bar of that evening either.
ExpiryInv ==
    /\ CalendarInv
    /\ Holding => now <= 3 * LastOut(month) + Evening /\ (now = 3 * LastOut(month) + Evening => ~barDone)

\* What a state of the loop says of its day, its contract and that one's deadline.
LEMMA ContractFacts ==
    ASSUME Horizon, CalendarInv
    PROVE  /\ holidays \subseteq Nat /\ holidays \subseteq Days
           /\ month \in Nat /\ now \in Nat /\ DayOf(now) \in Days
           /\ LastOut(month) \in -14..month - 1 /\ IsBusinessDay(LastOut(month))
           /\ ForceExitDeadline(month) \in Int
           /\ ForceExitDeadline(month) <= 3 * LastOut(month) + 1
<1>1. /\ holidays \subseteq Days /\ LastDay \in Nat /\ Expiries \subseteq Nat /\ month \in Expiries
      /\ now \in 2..3 * LastDay + 2
  BY CalendarAssumption DEF CalendarInv, CalTypeOK, Evening
<1>2. Days \subseteq Nat
  BY <1>1 DEF Days
<1>3. DayOf(now) \in Days
  BY <1>1 DEF Days, DayOf
<1>4. ExitBusinessDays \in 1..10
  BY DEF Horizon
<1> QED BY <1>1, <1>2, <1>3, <1>4, CountedBack, DueBefore DEF LastOut

\* The contract a bar may be entered in is far enough away.
LEMMA EnteredFarEnough ==
    ASSUME Horizon, CalendarInv, SelectActive(DayOf(now)) = month
    PROVE  /\ now < 3 * LastOut(month)
           /\ EntryMargin => now < ForceExitDeadline(month)
<1>1. holidays \subseteq Nat /\ DayOf(now) \in Days /\ holidays \subseteq Days
      /\ ForceExitDeadline(month) \in Int /\ now \in Nat
  BY ContractFacts
<1>2. month \in FarEnough(DayOf(now))
  BY <1>1, AlwaysOneFarEnough, SelectedIsListed
<1>3. DayOf(now) \in Nat
  BY <1>1 DEF DayOf
<1>4. DayOf(now) < LastOut(month) /\ LastOut(month) \in Int
  <2>1. LastOut(month) \in -14..month - 1 /\ month \in Nat
    BY ContractFacts
  <2> QED BY <1>1, <1>2, <1>3, <2>1, FarFromLastOut
<1>5. now <= 3 * DayOf(now) + 2
  BY <1>1 DEF DayOf
<1>6. now < 3 * LastOut(month)
  <2> HIDE DEF DayOf
  <2> QED BY <1>1, <1>3, <1>4, <1>5
<1>7. EntryMargin => now < ForceExitDeadline(month)
  <2>1. EntryMargin => 3 * DayOf(now) + 2 < ForceExitDeadline(month)
    BY <1>1, <1>2, <1>3, FarFromDue
  <2> QED BY <1>1, <1>3, <1>5, <2>1
<1> QED BY <1>6, <1>7

LEMMA ExpirySteps ==
    ASSUME Horizon, ExpiryInv, [CalNext]_calVars
    PROVE  ExpiryInv'
<1>1. CalendarInv /\ CalendarInv' /\ holidays' = holidays
  BY CalendarSteps DEF ExpiryInv
<1>2. LastOut(month)' = LastOut(month')
  BY <1>1 DEF LastOut, PreviousBusinessDay, IsBusinessDay
<1> DEFINE D == LastOut(month)
           due == ForceExitDeadline(month)
<1>3. D \in Int /\ IsBusinessDay(D) /\ due \in Int /\ due <= 3 * D + 1 /\ now \in Nat /\ Evening = 2
  <2>1. month \in Nat
    BY <1>1, ContractFacts
  <2> QED BY <1>1, <2>1, ContractFacts DEF Evening
<1> HIDE DEF D, due
<1>4. SUFFICES ASSUME Holding'
               PROVE  /\ now' <= 3 * LastOut(month') + Evening
                      /\ now' = 3 * LastOut(month') + Evening => ~barDone'
  BY <1>1, <1>2 DEF ExpiryInv
<1>5. CASE SwitchBar
  BY <1>4, <1>5 DEF SwitchBar, Holding
<1>6. CASE ForcedExitBar
  BY <1>4, <1>6 DEF ForcedExitBar, Holding, NoPosition
<1>7. CASE SignalBar
  <2>1. month' = month /\ now' = now
    BY <1>4, <1>7 DEF SignalBar, Holding
  <2>2. now < 3 * D + 2
    <3>1. CASE Holding
      <4>1. now < due
        BY <1>3, <1>7, <3>1 DEF SignalBar, MustExit, ShouldForceExit, due
      <4> QED BY <1>3, <4>1
    <3>2. CASE ~Holding
      <4>1. SelectActive(DayOf(now)) = month
        BY <1>7, <3>2 DEF SignalBar
      <4>2. now < 3 * D
        BY <1>1, <4>1, EnteredFarEnough DEF D
      <4> QED BY <1>3, <4>2
    <3> QED BY <3>1, <3>2
  <2> QED BY <1>3, <2>1, <2>2 DEF D
<1>8. CASE NextPart
  <2>1. /\ month' = month /\ now' = now + 1 /\ barDone' = FALSE /\ Holding
        /\ IsTrading(now) => barDone
    BY <1>4, <1>8 DEF NextPart, Holding
  <2>2. now <= 3 * D + 2 /\ (now = 3 * D + 2 => ~barDone)
    BY <1>3, <2>1 DEF ExpiryInv, D
  <2>3. now # 3 * D + 2
    <3> SUFFICES ASSUME now = 3 * D + 2
                 PROVE  FALSE
      OBVIOUS
    <3>1. DayOf(now) = D /\ PartOf(now) = 2
      BY <1>3 DEF DayOf, PartOf
    <3>2. SessionStart(now) = D
      BY <3>1 DEF SessionStart, Evening
    <3>3. IsTrading(now)
      BY <1>3, <3>1, <3>2 DEF IsTrading, IsBusinessDay
    <3> QED BY <2>1, <2>2, <3>3
  <2> QED BY <1>3, <2>1, <2>2, <2>3 DEF D
<1>9. CASE UNCHANGED calVars
  <2>1. month' = month /\ now' = now /\ barDone' = barDone /\ Holding
    BY <1>4, <1>9 DEF calVars, Holding
  <2> QED BY <2>1 DEF ExpiryInv
<1> QED BY <1>5, <1>6, <1>7, <1>8, <1>9 DEF CalNext

\* No position is carried into the evening of its contract's last trading day,
\* whatever the holidays are and however many, and whatever months are listed.
THEOREM NeverIntoExpiry ==
    ASSUME Horizon
    PROVE  CalSpec => []NeverHeldIntoExpiry
<1>1. CalInit => ExpiryInv
  BY CalendarInitially DEF CalInit, ExpiryInv, Holding
<1>2. ExpiryInv /\ [CalNext]_calVars => ExpiryInv'
  BY ExpirySteps
<1>3. ExpiryInv => NeverHeldIntoExpiry
  <2> SUFFICES ASSUME ExpiryInv, Holding
               PROVE  now < 3 * month + Evening
    BY DEF NeverHeldIntoExpiry
  <2>1. /\ month \in Nat /\ now \in Nat /\ LastOut(month) \in -14..month - 1
    BY ContractFacts DEF ExpiryInv
  <2>2. now <= 3 * LastOut(month) + 2
    BY DEF ExpiryInv, Evening
  <2> QED BY <2>1, <2>2 DEF Evening
<1> QED BY <1>1, <1>2, <1>3, PTL DEF CalSpec

\* No entry is made in a contract whose forced exit is due already.
THEOREM EntryNeverDue ==
    ASSUME Horizon, EntryMargin
    PROVE  CalSpec => EntersNothingDue
<1>1. CalInit => CalendarInv
  BY CalendarInitially
<1>2. CalendarInv /\ [CalNext]_calVars => CalendarInv'
  BY CalendarSteps
<1>3. CalendarInv /\ [CalNext]_calVars
        => [~Holding /\ Holding' => ~ShouldForceExit(now, month)]_calVars
  <2> SUFFICES ASSUME CalendarInv, CalNext, ~Holding, Holding'
               PROVE  ~ShouldForceExit(now, month)
    BY DEF Holding, calVars
  <2>1. SignalBar
    BY DEF CalNext, SwitchBar, ForcedExitBar, NextPart, Holding, NoPosition
  <2>2. SelectActive(DayOf(now)) = month
    BY <2>1 DEF SignalBar
  <2>3. now < ForceExitDeadline(month) /\ now \in Nat /\ ForceExitDeadline(month) \in Int
    BY <2>2, EnteredFarEnough, ContractFacts
  <2> QED BY <2>3 DEF ShouldForceExit
<1> QED BY <1>1, <1>2, <1>3, PTL DEF CalSpec, EntersNothingDue

-----------------------------------------------------------------------------
(* The rollover calendar: the weekend *)

\* The Friday of the week a part's session is in, the last minutes of that
\* Friday's session, and a Friday that was closed since the entry.
FridayOf(t) == 7 * Week(SessionStart(t)) + 4
LastCall == AtClose(FridayOf(entered) + 1)
ClosedSince == \E d \in DayOf(entered) .. DayOf(now) : FridayClosed(d)

\* Under "flat" a position was entered before the Friday of its week and does not
\* outlast the bar of the last minutes, or that Friday was closed.
WeekInv ==
    /\ CalendarInv
    /\ weekend = "flat" /\ Holding =>
         /\ EntryAllowed(entered)
         /\ ClosedSince \/ now < LastCall \/ (now = LastCall /\ ~barDone)

\* A part of a day: where it lies, and its session.
LEMMA PartsOfADay ==
    ASSUME NEW t \in Nat
    PROVE  /\ DayOf(t) \in Nat /\ PartOf(t) \in 0..2 /\ t = 3 * DayOf(t) + PartOf(t)
           /\ SessionStart(t) \in Int /\ Evening = 2 /\ LastMinutes = 1
           /\ PartOf(t) = Evening => SessionStart(t) = DayOf(t)
           /\ PartOf(t) # Evening => SessionStart(t) = DayOf(t) - 1
BY DEF DayOf, PartOf, SessionStart, Evening, LastMinutes

\* A day of a week, and the days around its Friday.
LEMMA DaysOfAWeek ==
    ASSUME NEW s \in Int
    PROVE  /\ Week(s) \in Int /\ Weekday(s) \in 0..6 /\ s = 7 * Week(s) + Weekday(s)
           /\ \A d \in 7 * Week(s) .. 7 * Week(s) + 6 :
                  Week(d) = Week(s) /\ Weekday(d) = d - 7 * Week(s)
           /\ Week(7 * Week(s) + 7) = Week(s) + 1 /\ Weekday(7 * Week(s) + 7) = 0
<1> DEFINE w == s \div 7
<1>1. w \in Int /\ s % 7 \in 0..6 /\ s = 7 * w + (s % 7)
  OBVIOUS
<1> HIDE DEF w
<1>2. \A r \in 0..6 : (7 * w + r) \div 7 = w /\ (7 * w + r) % 7 = r
  BY <1>1
<1>3. \A d \in 7 * w .. 7 * w + 6 : d \div 7 = w /\ d % 7 = d - 7 * w
  <2> SUFFICES ASSUME NEW d \in 7 * w .. 7 * w + 6
               PROVE  d \div 7 = w /\ d % 7 = d - 7 * w
    OBVIOUS
  <2>1. d - 7 * w \in 0..6 /\ d = 7 * w + (d - 7 * w)
    BY <1>1
  <2> QED BY <1>2, <2>1
<1>4. (7 * w + 7) \div 7 = w + 1 /\ (7 * w + 7) % 7 = 0
  BY <1>1
<1> QED BY <1>1, <1>3, <1>4 DEF Week, Weekday, w

\* An entry is made before the Friday of its week, on a day that is not closed.
LEMMA EnteredBeforeFriday ==
    ASSUME CalendarInv, weekend = "flat", NEW t \in Nat, EntryAllowed(t)
    PROVE  /\ FridayOf(t) \in Int /\ Week(SessionStart(t)) \in Int
           /\ FridayOf(t) = 7 * Week(SessionStart(t)) + 4
           /\ SessionStart(t) \in FridayOf(t) - 4 .. FridayOf(t) - 1
           /\ DayOf(t) \in FridayOf(t) - 4 .. FridayOf(t) /\ IsBusinessDay(DayOf(t))
<1> DEFINE s == SessionStart(t)
<1>1. /\ DayOf(t) \in Nat /\ s \in Int /\ (DayOf(t) = s \/ DayOf(t) = s + 1)
  BY PartsOfADay
<1>2. Weekday(s) < 5 /\ Weekday(s) # 4 /\ DayOf(t) \notin holidays
  BY DEF EntryAllowed, IsTrading, IsBusinessDay, CloseOnly
<1> HIDE DEF s
<1>3. /\ Week(s) \in Int /\ Weekday(s) \in 0..6 /\ s = 7 * Week(s) + Weekday(s)
      /\ \A d \in 7 * Week(s) .. 7 * Week(s) + 6 : Weekday(d) = d - 7 * Week(s)
  BY <1>1, DaysOfAWeek
<1>4. s \in 7 * Week(s) .. 7 * Week(s) + 3 /\ DayOf(t) \in 7 * Week(s) .. 7 * Week(s) + 4
  BY <1>1, <1>2, <1>3
<1>5. Weekday(DayOf(t)) < 5
  BY <1>3, <1>4
<1> QED BY <1>2, <1>3, <1>4, <1>5 DEF FridayOf, IsBusinessDay, s

\* The last minutes of the Friday's session: a bar of them ends the week, and there
\* is one unless the Friday is closed.
LEMMA AtLastCall ==
    ASSUME CalendarInv, weekend = "flat", Holding, EntryAllowed(entered), now = LastCall
    PROVE  /\ IsTrading(now) => IsWeekendForceExitBar(now)
           /\ IsTrading(now) \/ ClosedSince
<1>1. entered \in Nat /\ now \in Nat
  BY CalendarAssumption DEF CalendarInv, CalTypeOK, Holding, Evening
<1> DEFINE w == Week(SessionStart(entered))
           F == FridayOf(entered)
<1>2. F \in Int /\ w \in Int /\ F = 7 * w + 4 /\ DayOf(entered) \in F - 4 .. F
  BY <1>1, EnteredBeforeFriday
<1>3. /\ \A d \in 7 * w .. 7 * w + 6 : Week(d) = w /\ Weekday(d) = d - 7 * w
      /\ Week(7 * w + 7) = w + 1 /\ Weekday(7 * w + 7) = 0
  <2>1. SessionStart(entered) \in Int
    BY <1>1, PartsOfADay
  <2> QED BY <2>1, DaysOfAWeek
<1>4. now = 3 * (F + 1) + 1
  BY DEF LastCall, AtClose, LastMinutes
<1> HIDE DEF w, F
<1>5. DayOf(now) = F + 1 /\ PartOf(now) = 1 /\ SessionStart(now) = F
  <2>1. DayOf(now) \in Nat /\ PartOf(now) \in 0..2 /\ now = 3 * DayOf(now) + PartOf(now)
    BY <1>1, PartsOfADay
  <2>2. DayOf(now) = F + 1 /\ PartOf(now) = 1
    BY <1>2, <1>4, <2>1
  <2>3. SessionStart(now) = DayOf(now) - 1
    BY <1>1, <2>2, PartsOfADay
  <2> QED BY <1>2, <2>2, <2>3
<1>6. Weekday(F) = 4 /\ Week(F + 1) = w /\ Weekday(F + 1) = 5 /\ Weekday(F + 2) = 6
  <2>1. F \in 7 * w .. 7 * w + 6 /\ F + 1 \in 7 * w .. 7 * w + 6 /\ F + 2 \in 7 * w .. 7 * w + 6
    BY <1>2
  <2>2. /\ Weekday(F) = F - 7 * w /\ Weekday(F + 1) = (F + 1) - 7 * w
        /\ Weekday(F + 2) = (F + 2) - 7 * w /\ Week(F + 1) = w
    BY <1>3, <2>1
  <2> QED BY <1>2, <2>2
<1>7. Week(F + 3) = w + 1 /\ Weekday(F + 3) = 0
  <2>1. F + 3 = 7 * w + 7
    BY <1>2
  <2> QED BY <1>3, <2>1
<1>8. NextUmcSession(now) = F + 3
  <2> DEFINE T == {d \in F + 1 .. F + 1 + 7 : Weekday(d) < 5}
  <2>1. NextUmcSession(now) = Min(T)
    BY <1>5 DEF NextUmcSession
  <2>2. F + 3 \in T
    BY <1>2, <1>7
  <2>3. \A d \in T : F + 3 <= d
    <3>1. \A d \in F + 1 .. F + 1 + 7 : d = F + 1 \/ d = F + 2 \/ F + 3 <= d
      BY <1>2
    <3> QED BY <1>6, <3>1
  <2>4. \A d \in T : d \in Int
    BY <1>2
  <2> HIDE DEF T
  <2>5. Min(T) \in T /\ \A d \in T : Min(T) <= d
    BY <2>2, <2>3 DEF Min
  <2> QED BY <1>2, <2>1, <2>2, <2>3, <2>4, <2>5
<1>9. IsTrading(now) => IsWeekendForceExitBar(now)
  <2>1. w # w + 1
    BY <1>2
  <2> QED BY <1>5, <1>6, <1>7, <1>8, <2>1 DEF IsWeekendForceExitBar, LastMinutes
<1>10. IsTrading(now) \/ ClosedSince
  <2>1. CASE F \in holidays
    <3>1. F \in DayOf(entered) .. DayOf(now) /\ FridayClosed(F)
      BY <1>2, <1>5, <1>6, <2>1 DEF FridayClosed
    <3> QED BY <3>1 DEF ClosedSince
  <2>2. CASE F \notin holidays
    <3>1. F + 1 \notin holidays
      BY <1>6 DEF CalendarInv
    <3> QED BY <1>5, <1>6, <2>2, <3>1 DEF IsTrading, IsBusinessDay
  <2> QED BY <2>1, <2>2
<1> QED BY <1>9, <1>10

LEMMA WeekSteps ==
    ASSUME WeekInv, [CalNext]_calVars
    PROVE  WeekInv'
<1>1. /\ CalendarInv /\ CalendarInv' /\ holidays' = holidays /\ weekend' = weekend
  BY CalendarSteps DEF WeekInv
<1>2. SUFFICES ASSUME weekend = "flat", Holding'
               PROVE  /\ EntryAllowed(entered)'
                      /\ ClosedSince' \/ now' < LastCall' \/ (now' = LastCall' /\ ~barDone')
  BY <1>1 DEF WeekInv
<1>3. now \in Nat /\ now' \in Nat
  BY <1>1, CalendarAssumption DEF CalendarInv, CalTypeOK, Evening
<1>4. CASE Holding /\ entered' = entered
  <2>1. EntryAllowed(entered)' /\ LastCall' = LastCall /\ EntryAllowed(entered)
    BY <1>1, <1>2, <1>4 DEF WeekInv, EntryAllowed, IsTrading, IsBusinessDay, CloseOnly,
       LastCall, FridayOf
  <2>2. LastCall \in Int
    <3>1. entered \in Nat
      BY <1>1, <1>4 DEF CalendarInv, CalTypeOK, Holding, Evening
    <3>2. FridayOf(entered) \in Int
      BY <1>1, <1>2, <2>1, <3>1, EnteredBeforeFriday
    <3> QED BY <3>2 DEF LastCall, AtClose, LastMinutes
  <2>3. ClosedSince => ClosedSince'
    <3>1. now <= now'
      BY <1>3 DEF CalNext, SwitchBar, ForcedExitBar, SignalBar, NextPart, calVars
    <3>2. DayOf(now) \in Int /\ DayOf(now') \in Int /\ DayOf(now) <= DayOf(now')
      <4>1. \A t \in Nat : DayOf(t) \in Nat /\ PartOf(t) \in 0..2 /\ t = 3 * DayOf(t) + PartOf(t)
        BY PartsOfADay
      <4> QED BY <1>3, <3>1, <4>1
    <3>3. DayOf(entered) \in Int
      <4>1. entered \in Nat
        BY <1>1, <1>4 DEF CalendarInv, CalTypeOK, Holding, Evening
      <4> QED BY <4>1, PartsOfADay
    <3>4. \A d \in DayOf(entered) .. DayOf(now) : d \in DayOf(entered) .. DayOf(now')
      BY <3>2, <3>3
    <3> QED BY <1>1, <1>4, <3>4 DEF ClosedSince, FridayClosed
  <2>4. ClosedSince \/ now < LastCall \/ (now = LastCall /\ ~barDone)
    BY <1>2, <1>4 DEF WeekInv
  <2>5. CASE NextPart
    <3>1. now' = now + 1 /\ barDone' = FALSE /\ (IsTrading(now) => barDone)
      BY <2>5 DEF NextPart
    <3>2. ClosedSince \/ now # LastCall
      <4>1. now = LastCall => IsTrading(now) \/ ClosedSince
        BY <1>1, <1>2, <1>4, <2>1, AtLastCall
      <4>2. now = LastCall => ~(now < LastCall)
        BY <1>3
      <4> QED BY <2>4, <3>1, <4>1, <4>2
    <3> QED BY <1>3, <2>1, <2>2, <2>3, <2>4, <3>1, <3>2
  <2>6. CASE SignalBar
    <3>1. now' = now /\ IsTrading(now)
      BY <2>6 DEF SignalBar
    <3>2. ~IsWeekendForceExitBar(now)
      BY <1>4, <2>6 DEF SignalBar, MustExit
    <3>3. now # LastCall
      BY <1>1, <1>2, <1>4, <2>1, <3>1, <3>2, AtLastCall
    <3> QED BY <2>1, <2>3, <2>4, <3>1, <3>3
  <2>7. CASE UNCHANGED calVars
    BY <2>1, <2>3, <2>4, <2>7 DEF calVars
  <2> QED BY <1>2, <1>4, <2>5, <2>6, <2>7
        DEF CalNext, SwitchBar, ForcedExitBar, Holding, NoPosition
<1>5. CASE ~(Holding /\ entered' = entered)
  <2>1. SignalBar /\ ~Holding /\ EntryAllowed(now) /\ entered' = now /\ now' = now
    BY <1>2, <1>5 DEF CalNext, SwitchBar, ForcedExitBar, SignalBar, NextPart, calVars,
       Holding, NoPosition
  <2>2. EntryAllowed(entered)'
    BY <1>1, <2>1 DEF EntryAllowed, IsTrading, IsBusinessDay, CloseOnly
  <2>3. LastCall' = 3 * (FridayOf(now) + 1) + 1
    BY <2>1 DEF LastCall, AtClose, LastMinutes, FridayOf
  <2>4. FridayOf(now) \in Int /\ DayOf(now) \in FridayOf(now) - 4 .. FridayOf(now)
    BY <1>1, <1>2, <1>3, <2>1, EnteredBeforeFriday
  <2>5. DayOf(now) \in Nat /\ PartOf(now) \in 0..2 /\ now = 3 * DayOf(now) + PartOf(now)
    BY <1>3, PartsOfADay
  <2>6. now' < LastCall'
    BY <2>1, <2>3, <2>4, <2>5
  <2> QED BY <2>2, <2>6
<1> QED BY <1>4, <1>5

\* Under "flat" no position of one week is there in a session of the next, for any
\* holidays but those on a Friday: a theorem without a word on the margins.
THEOREM FlatOverWeekends == CalSpec => []FlatOverTheWeekend
<1>1. CalInit => WeekInv
  BY CalendarInitially DEF CalInit, WeekInv, Holding
<1>2. WeekInv /\ [CalNext]_calVars => WeekInv'
  BY WeekSteps
<1>3. WeekInv => FlatOverTheWeekend
  <2> SUFFICES ASSUME WeekInv, weekend = "flat", Holding, IsTrading(now), ~ClosedSince
               PROVE  Week(SessionStart(entered)) = Week(SessionStart(now))
    BY DEF FlatOverTheWeekend, ClosedSince
  <2> DEFINE F == FridayOf(entered)
             w == Week(SessionStart(entered))
             s == SessionStart(now)
  <2>1. entered \in Nat /\ now \in Nat /\ entered <= now /\ EntryAllowed(entered) /\ CalendarInv
    BY CalendarAssumption DEF WeekInv, CalendarInv, CalTypeOK, Holding, Evening
  <2>2. F \in Int /\ w \in Int /\ F = 7 * w + 4 /\ SessionStart(entered) \in F - 4 .. F - 1
    BY <2>1, EnteredBeforeFriday
  <2>3. now <= 3 * (F + 1) + 1
    BY <2>1, <2>2 DEF WeekInv, LastCall, AtClose, LastMinutes
  <2>4. s \in Int /\ SessionStart(entered) \in Int /\ SessionStart(entered) <= s /\ s <= F
    <3> HIDE DEF F
    <3> QED BY <2>1, <2>2, <2>3 DEF SessionStart, PartOf, DayOf, Evening
  <2>5. \A d \in 7 * w .. 7 * w + 6 : Week(d) = w
    BY <2>4, DaysOfAWeek
  <2> HIDE DEF F, w, s
  <2>6. s \in 7 * w .. 7 * w + 6
    BY <2>2, <2>4
  <2> QED BY <2>5, <2>6 DEF w, s
<1> QED BY <1>1, <1>2, <1>3, PTL DEF CalSpec

-----------------------------------------------------------------------------
(* The parts side by side *)

\* What every part keeps of its own variables.
ServicesInv ==
    /\ CalendarInv /\ CacheInv /\ NtfyTypes /\ HandInv /\ HandBounds
    /\ PairInv /\ row \in 0..LastRow + 1

LEMMA ServicesMeansTypeOK == ServicesInv => ServicesTypeOK
<1> SUFFICES ASSUME ServicesInv PROVE ServicesTypeOK
  OBVIOUS
<1>1. PairTypeOK
  <2> DEFINE l == [s |-> strategy, filled |-> filled, booked |-> booked]
  <2>1. l \in Ledgers
    BY DEF ServicesInv, PairInv, Balanced
  <2>2. strategy \in Strategies /\ filled \in Int /\ booked \in Int
    BY <2>1 DEF Ledgers
  <2> QED BY <2>2 DEF ServicesInv, PairInv, PairTypeOK, Strategies
<1>2. CalTypeOK /\ CacheTypeOK /\ NtfyTypeOK /\ HandTypeOK
  BY NtfyTypesMeanTypeOK, HandTypesMeanTypeOK DEF ServicesInv, CalendarInv, CacheInv
<1> QED BY <1>1, <1>2 DEF ServicesTypeOK

LEMMA ServicesStart == MCInit => ServicesInv
<1> SUFFICES ASSUME MCInit PROVE ServicesInv
  OBVIOUS
<1>1. row \in 0..LastRow + 1
  BY StrategyAssumption DEF MCInit, PairInit
<1> QED BY <1>1, CalendarInitially, CacheStarts, NtfyStartsTyped, HandStarts, HandStartsBounded,
        PairStarts DEF MCInit, ServicesInv

\* A part's step is a step of that part and a stutter of the others.
LEMMA ServicesSteps ==
    ASSUME ServicesInv, [MCNext]_partVars
    PROVE  ServicesInv'
<1>1. /\ [CalNext]_calVars /\ [CacheNext]_cacheVars /\ [NtfyNext]_ntfyVars
      /\ [HandNext]_handVars /\ [PairNext]_pairVars
  BY DEF MCNext, WorkerStep, CalendarStep, RateStep, NtfyStep, HandStep, StrategyStep, partVars
<1>2. row' \in 0..LastRow + 1
  <2>1. row \in 0..LastRow + 1 /\ LastRow \in Nat
    BY StrategyAssumption DEF ServicesInv
  <2>2. row' = row \/ (row < LastRow /\ row' = row + 1) \/ row' = LastRow + 1
    BY <1>1 DEF PairNext, ReplayBar, Finalize, DryRunBar, pairVars
  <2> QED BY <2>1, <2>2
<1> QED BY <1>1, <1>2, CalendarSteps, CacheSteps, NtfyStepsTyped, HandSteps, HandStepsBounded,
        PairSteps DEF ServicesInv

\* Every state of every part is well typed, for all of their bounds: no queue, topic,
\* position, ledger or clock leaves its range.
THEOREM ServicesTyped == MCSpec => []ServicesTypeOK
<1> QED BY ServicesStart, ServicesSteps, ServicesMeansTypeOK, PTL DEF MCSpec
=============================================================================
