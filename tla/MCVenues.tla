------------------------------ MODULE MCVenues ------------------------------
(***************************************************************************)
(* One execution adapter at a time, each against its own kind of venue,    *)
(* and both against the promise the pair coordinator is built on.          *)
(***************************************************************************)
EXTENDS FubonOrder, TLC

CONSTANTS
    MaxSessions,                \* of IbkrOrder
    Brokers                     \* the adapters of the run

ASSUME VenuesAssumption ==
    MaxSessions \in Nat /\ Brokers \subseteq {"fubon", "ibkr"}

VARIABLES broker, link, session, ticker, verified, known, born, report

Ibkr == INSTANCE IbkrOrder

fubonOnly == <<sdk, wait>>
ibkrOnly  == <<link, session, ticker, verified, known, born, report>>

MCInit == broker \in Brokers /\ Init /\ Ibkr!Init

FubonStep == broker = "fubon" /\ Next /\ UNCHANGED <<broker, ibkrOnly>>
IbkrStep  == broker = "ibkr" /\ Ibkr!Next /\ UNCHANGED <<broker, fubonOnly>>

MCNext == FubonStep \/ IbkrStep

\* Every wait of an adapter has a timeout.
Proceeds ==
    /\ pc # "idle"
    /\ \/ broker = "fubon" /\ Adapter /\ UNCHANGED <<broker, ibkrOnly>>
       \/ broker = "ibkr" /\ Ibkr!Adapter /\ UNCHANGED <<broker, fubonOnly>>

MCSpec ==
    MCInit /\ [][MCNext]_<<vars, broker, ibkrOnly>> /\ WF_<<vars, broker, ibkrOnly>>(Proceeds)

-----------------------------------------------------------------------------

\* Every state of either adapter is well typed.
AdaptersTypeOK == IF broker = "fubon" THEN TypeOK ELSE Ibkr!TypeOK

\* What the IBKR client serves from its caches was asked for on the connection
\* it has (_on_disconnected, force_reconnect, _ensure_positions_authoritative).
ServesThisSession == Ibkr!ServesThisSession

\* Shares this order actually executed: _umc_execution_shares counts no other
\* order's executions.
ListsOwnExecutions == broker = "ibkr" => Ibkr!ListsOwnExecutions

\* A failed IBKR order is one the account shows nothing of, whatever its status
\* said: the coordinator reverses the other leg on it.
FailureIsEarned ==
    [][broker = "ibkr" /\ told' # told /\ told'.status = "failed" => view = base]_told

\* An IBKR order that is told the shares of an earlier order of the same id: the
\* one way a report breaks the promise, and no further than what is listed.
Overcounts ==
    /\ broker = "ibkr" /\ Contract!Open /\ ~Ibkr!NameIsOwn
    /\ told'.status \in {"filled", "unknown"}
    /\ told'.fills \in 1..Ibkr!Listed
    /\ UNCHANGED <<venue, cur, base>>

\* Both adapters keep what the pair coordinator relies on, but for an IBKR order
\* that overcounts, which takes a reconnect since an earlier fill of the same id.
KeepPromiseOrOvercount ==
    Contract!Init /\ [][Contract!Next \/ Overcounts]_(Contract!vars)

\* execute() returns, also when the history keeps asking for a re-query or the
\* connection goes down while it waits.
OrderIsAnswered == pc # "idle" ~> pc = "idle"
=============================================================================
