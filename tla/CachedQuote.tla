---------------------------- MODULE CachedQuote ----------------------------
(***************************************************************************)
(* The cached exchange rate (market_data/cached_quote.py): a quote is kept *)
(* for a while, and for a while longer when its vendor fails, under the    *)
(* timestamp it came with.  Ages count the clock of the cache.             *)
(***************************************************************************)
EXTENDS Integers

CONSTANTS Symbols,
          Ttl,       \* ttl_seconds
          MaxServe,  \* max_serve_seconds
          Lag        \* oldest quote the vendor gives, external

ASSUME CacheAssumption ==
    Ttl \in Nat \ {0} /\ MaxServe \in Nat /\ Ttl <= MaxServe /\ Lag \in Nat

VARIABLES
    cached,  \* _cached, a set of at most one quote; its age is the timestamp's
    named,   \* _cached_symbol
    kept,    \* time since _fetched_at
    served   \* what the last call returned, and for which symbol, or nothing

cacheVars == <<cached, named, kept, served>>

Oldest == Lag + MaxServe + 1
Older(a, top) == IF a = top THEN a ELSE a + 1
RateQuotes == [of : Symbols, age : 0..Oldest]

CacheInit ==
    /\ cached = {} /\ kept = 0 /\ served = {}
    /\ named \in Symbols

TimePasses ==
    /\ kept' = Older(kept, MaxServe + 1)
    /\ cached' = {[q EXCEPT !.age = Older(@, Oldest)] : q \in cached}
    /\ served' = {}
    /\ UNCHANGED named

\* Another symbol empties the cache before anything is fetched.
Cache(s) == IF s # named THEN {} ELSE cached

IsFresh == kept < Ttl

\* A hit: nothing is asked and nothing restamped.
Hit ==
    \E s \in Symbols :
        /\ Cache(s) # {} /\ IsFresh
        /\ served' = {[asked |-> s, quote |-> q] : q \in cached}
        /\ UNCHANGED <<cached, named, kept>>

\* The vendor answers.
Refetch ==
    \E s \in Symbols, age \in 0..Lag :
        /\ ~(Cache(s) # {} /\ IsFresh)
        /\ cached' = {[of |-> s, age |-> age]}
        /\ named' = s /\ kept' = 0
        /\ served' = {[asked |-> s, quote |-> q] : q \in cached'}

\* Mutant: a stale answer starts the time anew.
ServeStaleRestamped(s) ==
    /\ kept <= MaxServe
    /\ served' = {[asked |-> s, quote |-> q] : q \in Cache(s)}
    /\ kept' = 0

\* The kept quote stands in, for as long as it may.
ServeStale(s) ==
    /\ kept <= MaxServe
    /\ served' = {[asked |-> s, quote |-> q] : q \in Cache(s)}
    /\ UNCHANGED kept

\* The vendor fails.
FetchFails ==
    \E s \in Symbols :
        /\ ~(Cache(s) # {} /\ IsFresh)
        /\ cached' = Cache(s)
        /\ \/ Cache(s) # {} /\ ServeStale(s)
           \/ (Cache(s) = {} \/ kept > MaxServe) /\ served' = {} /\ UNCHANGED kept
        /\ UNCHANGED named

CacheNext == TimePasses \/ Hit \/ Refetch \/ FetchFails

CacheSpec == CacheInit /\ [][CacheNext]_cacheVars

-----------------------------------------------------------------------------

CacheTypeOK ==
    /\ cached \in {{}} \cup {{q} : q \in RateQuotes}
    /\ named \in Symbols /\ kept \in 0..MaxServe + 1
    /\ served \in {{}} \cup {{r} : r \in [asked : Symbols, quote : RateQuotes]}

\* The rate a bar is priced with is the asked symbol's, and no older than the
\* outage the cache may bridge makes it, however the calls, the failures and
\* the symbols alternate (fetch_quote).
ServedRateIsBounded ==
    \A r \in served : r.quote.of = r.asked /\ r.quote.age <= Lag + MaxServe
=============================================================================
