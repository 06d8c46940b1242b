----------------------------- MODULE IbkrSession -----------------------------
(***************************************************************************)
(* The connection of _IbkrWorkerClient (integrations/ibkr/                  *)
(* client_process.py) and what it caches on it: one streaming subscription *)
(* and one list of positions, both worth something only in the session     *)
(* that asked for them.                                                    *)
(***************************************************************************)
EXTENDS Integers

CONSTANT MaxSessions    \* bound: connections made

VARIABLES
    link,       \* "down", "up", or "dead": the peer is gone, isConnected() is true
    session,    \* the connections made so far
    ticker,     \* the session _umc_ticker was subscribed in, 0 for none
    verified,   \* _positions_verified
    known       \* the list of positions was filled in this session

ibkr == <<link, session, ticker, verified, known>>

SessionInit == link = "down" /\ session = 0 /\ ticker = 0 /\ verified = FALSE /\ known = FALSE

\* isConnected() is a local flag, not a probe.
IsConnected == link # "down"

OnDisconnected == ticker' = 0 /\ verified' = FALSE

\* The peer goes away without a word, as the nightly reset does.
Dies == link = "up" /\ link' = "dead" /\ UNCHANGED <<session, ticker, verified, known>>

\* The library notices, forgets its list and fires the event.
Drops ==
    /\ IsConnected /\ link' = "down" /\ known' = FALSE
    /\ OnDisconnected
    /\ UNCHANGED session

\* A killed worker takes the connection along; its successor starts with nothing.
Killed == link' = "down" /\ ticker' = 0 /\ verified' = FALSE /\ known' = FALSE /\ UNCHANGED session

\* connect() and _ensure_connected: a link that looks up is left alone.
EnsureConnected ==
    \/ IsConnected /\ UNCHANGED <<link, session>>
    \/ /\ ~IsConnected /\ session < MaxSessions
       /\ link' = "up" /\ session' = session + 1

Connect == EnsureConnected /\ UNCHANGED <<ticker, verified, known>>

\* Mutant: the caches are left to the event, which a failed close may not fire.
ClearedByEvent(fired) == IF fired THEN ticker' = 0 /\ verified' = FALSE
                         ELSE UNCHANGED <<ticker, verified>>

Cleared(fired) == ticker' = 0 /\ verified' = FALSE

\* force_reconnect: close first, then clear the caches, then dial.  A close that
\* raised may have closed the link without an event, or have left it as it was.
ForceReconnect ==
    /\ session < MaxSessions
    /\ \/ /\ link' = "up" /\ session' = session + 1 /\ known' = FALSE
          /\ \E fired \in BOOLEAN : Cleared(fired)
       \/ /\ IsConnected /\ Cleared(FALSE) /\ UNCHANGED <<link, session, known>>
       \/ /\ link' = "down" /\ known' = FALSE /\ Cleared(TRUE) /\ UNCHANGED session

\* _ensure_positions_authoritative: one request per session; on a dead link it
\* raises.
EnsurePositions ==
    /\ verified \/ link' = "up"
    /\ verified' = TRUE /\ known' = (known \/ ~verified)

\* fetch_umc_position, fetch_account_snapshot
ReadPositions == EnsureConnected /\ EnsurePositions /\ UNCHANGED ticker

\* fetch_umc_quote and _ensure_umc_subscription
Quote ==
    /\ EnsureConnected
    /\ ticker' = IF ticker = 0 THEN session' ELSE ticker
    /\ UNCHANGED <<verified, known>>

SessionTypeOK ==
    /\ link \in {"down", "up", "dead"}
    /\ session \in 0..MaxSessions /\ ticker \in 0..MaxSessions
    /\ verified \in BOOLEAN /\ known \in BOOLEAN

=============================================================================
