----------------------------- MODULE CcfFeed -----------------------------
(***************************************************************************)
(* The Fubon book feed (integrations/fubon/market_data.py).  The client    *)
(* keeps what it believes, `subscribed` and the cached books; the venue    *)
(* keeps what it really streams, `listening`.  The two part company when   *)
(* the peer closes the socket without an error event, or when an error     *)
(* event lands inside a subscription.  Ages count polls of the live loop   *)
(* and stop at MaxAge.                                                     *)
(***************************************************************************)
EXTENDS Integers, FiniteSets

CONSTANTS Contracts,   \* the contracts, numbered from 1 in expiry order
          BookStale,   \* book_stale_seconds, in polls
          RestAges     \* ages the venue's REST quotes can have

ASSUME FeedAssumption ==
  /\ Contracts \subseteq Nat \ {0} /\ 1 \in Contracts
  /\ BookStale \in Nat
  /\ RestAges \subseteq 0 .. BookStale + 1

VARIABLE feed

NoBook == -1
MaxAge == BookStale + 1

Ages == 0 .. MaxAge
Older(a) == IF a = MaxAge THEN a ELSE a + 1

\* connected: _websocket_connected; book: age of the cached book by arrival.
FeedStates == [connected  : BOOLEAN,
               subscribed : SUBSET Contracts,
               listening  : SUBSET Contracts,
               book       : [Contracts -> 0 .. BookStale \cup {NoBook}]]

FeedDown == [connected  |-> FALSE,
             subscribed |-> {},
             listening  |-> {},
             book       |-> [c \in Contracts |-> NoBook]]

\* A quote the loop is given: a book, or a REST price that has no book.
Quotes == [of : Contracts, book : BOOLEAN, age : Ages]

---------------------------------------------------------------------------

\* teardown_books_session; an error event clears the same fields, and so does
\* a new login (reconnect).
Teardown(f) == FeedDown

\* ensure_books_subscription.  It returns at once for a symbol it believes
\* subscribed; a refusal raises; an error event between the subscribe call and
\* the line that records it leaves a subscription on a socket that is gone;
\* and a call on a socket the peer has closed reaches nobody.
EnsureBooks(f, c) ==
  IF c \in f.subscribed THEN {f}
  ELSE {f, [f EXCEPT !.connected = TRUE]}
       \cup {[FeedDown EXCEPT !.subscribed = {c}]}
       \cup {[f EXCEPT !.connected = TRUE, !.subscribed = @ \cup {c}, !.listening = l] :
               l \in {f.listening \cup {c}} \cup
                     (IF f.connected THEN {f.listening} ELSE {})}

RestartBooks(f, c) == EnsureBooks(Teardown(f), c)

\* unsubscribe_books: forgotten here first, and the call to the venue may fail.
Unsubscribe(f, c) ==
  IF c \notin f.subscribed THEN {f}
  ELSE LET g == [f EXCEPT !.subscribed = @ \ {c}, !.book = [f.book EXCEPT ![c] = NoBook]]
       IN {g, [g EXCEPT !.listening = @ \ {c}]}

\* _handle_websocket_message: a streamed book arrives.
Arrive(f, c) == [f EXCEPT !.book[c] = 0]

\* _book_is_current: a book too old is one that is missing.
BookIsCurrent(f, c) == f.book[c] # NoBook
OlderBook(a) == IF a \in {NoBook, BookStale} THEN NoBook ELSE a + 1

\* Without a current book: one that arrives in time; else the REST quote; else
\* an exception, {}.
AwaitQuote(f, c) ==
  {<<f, {}>>}
  \cup {<<f, {[of |-> c, book |-> FALSE, age |-> a]}>> : a \in RestAges}
  \cup (IF c \in f.listening
          THEN {<<Arrive(f, c), {[of |-> c, book |-> TRUE, age |-> 0]}>>} ELSE {})

\* fetch_quote: pairs of the feed afterwards and the quote.
FetchQuote(f, c) ==
  UNION {IF BookIsCurrent(g, c)
           THEN {<<g, {[of |-> c, book |-> TRUE, age |-> g.book[c]]}>>}
           ELSE AwaitQuote(g, c)
         : g \in EnsureBooks(f, c)}

---------------------------------------------------------------------------

\* The socket between two polls: a book arrives (one of a forgotten symbol is
\* kept under a name nobody asks for), an error event is raised, or the peer
\* closes it silently.
Stream ==
  \/ \E c \in feed.listening \cap feed.subscribed : feed' = Arrive(feed, c)
  \/ feed.connected /\ feed' = Teardown(feed)
  \/ feed.connected /\ feed' = [feed EXCEPT !.listening = {}]

AgeBooks(f) == [f EXCEPT !.book = [c \in Contracts |-> OlderBook(f.book[c])]]

\* The client believes in a stream that the venue does not send.
Wedged(c) == c \in feed.subscribed /\ c \notin feed.listening
=============================================================================
