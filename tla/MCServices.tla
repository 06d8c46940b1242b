----------------------------- MODULE MCServices -----------------------------
(***************************************************************************)
(* The parts around the two legs that keep to themselves, one of them to a *)
(* behaviour: a broker's worker process, the rollover calendar, the cached *)
(* exchange rate, the notifications, the commands that trade by hand, and  *)
(* the strategy's books where no order is sent.                            *)
(***************************************************************************)
EXTENDS BrokerWorker, ContractCalendar, CachedQuote, Ntfy, HandOrders, PairStrategy

MCIds == 1..4
MCSymbols == {"USD/TWD", "EUR/TWD"}

VARIABLE part

partVars == <<part, vars, calVars, cacheVars, ntfyVars, handVars, pairVars>>

\* Parts that do not run have one initial state.
MCInit ==
    /\ part \in {"worker", "calendar", "rate", "ntfy", "hand", "strategy"}
    /\ Init /\ CalInit /\ CacheInit /\ NtfyInit /\ HandInit /\ PairInit
    /\ part # "worker"   => facade = "guarded"
    /\ part # "calendar" => holidays = {} /\ weekend = "none"
    /\ part # "rate"     => named = CHOOSE s \in Symbols : TRUE
    /\ part # "ntfy"     => log = <<>>
    /\ part # "hand"     => pos = 0
    /\ part # "strategy" => mode = "dry"

WorkerStep ==
    /\ part = "worker" /\ Next
    /\ UNCHANGED <<part, calVars, cacheVars, ntfyVars, handVars, pairVars>>
CalendarStep ==
    /\ part = "calendar" /\ CalNext
    /\ UNCHANGED <<part, vars, cacheVars, ntfyVars, handVars, pairVars>>
RateStep ==
    /\ part = "rate" /\ CacheNext
    /\ UNCHANGED <<part, vars, calVars, ntfyVars, handVars, pairVars>>
NtfyStep ==
    /\ part = "ntfy" /\ NtfyNext
    /\ UNCHANGED <<part, vars, calVars, cacheVars, handVars, pairVars>>
HandStep ==
    /\ part = "hand" /\ HandNext
    /\ UNCHANGED <<part, vars, calVars, cacheVars, ntfyVars, pairVars>>
StrategyStep ==
    /\ part = "strategy" /\ PairNext
    /\ UNCHANGED <<part, vars, calVars, cacheVars, ntfyVars, handVars>>

MCNext == WorkerStep \/ CalendarStep \/ RateStep \/ NtfyStep \/ HandStep \/ StrategyStep

\* The fairness of FairSpec and NtfySpec.  In a part that does not run no fair
\* action is enabled but Call.
MCSpec ==
    /\ MCInit /\ [][MCNext]_partVars
    /\ WF_vars(Facade) /\ WF_vars(part = "worker" /\ Call) /\ WF_vars(Take \/ Answer)
    /\ NtfyFairness

ServicesTypeOK ==
    /\ CalTypeOK /\ CacheTypeOK /\ NtfyTypeOK /\ HandTypeOK /\ PairTypeOK
=============================================================================
