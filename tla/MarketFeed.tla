----------------------------- MODULE MarketFeed -----------------------------
(***************************************************************************)
(* The trading page's order book: WebSocketClient (src/lib/websocket.ts of *)
(* the web client), which reconnects, and the effects of Trading.tsx that  *)
(* subscribe to the selected card's channel and load its book.             *)
(*                                                                         *)
(* Of a book the model keeps its version.  The server is what WebSocketHub *)
(* makes of it for one client when no event is lost: it sends the book of  *)
(* a subscribed card when it changes, in order; it answers requests over   *)
(* HTTP whose answers may overtake one another and the events.             *)
(***************************************************************************)
EXTENDS Integers, Sequences

CONSTANTS
  Card,        \* the cards
  NoBook,      \* the page has no book yet
  MaxChanges,  \* bound: the changes of all books
  MaxLoads,    \* bound: the books asked for
  MaxErrors,   \* bound: the requests for a book that fail
  MaxDrops     \* bound: the connections lost

VARIABLES
  (* the page *)
  ws,         \* readyState of the client's socket, or "none"
  timer,      \* reconnectTimer is set
  selected,   \* selectedCard, or NoBook before one is selected
  shown,      \* orderBook: a card and a version of its book, or NoBook
  requests,   \* the requests for a book: those not answered have no version
  (* the server *)
  book,       \* the version of each card's book
  channels,   \* the cards whose channel the socket is subscribed to
  events,     \* the updates on their way to the page
  (* history *)
  changes, loads, errors, drops

page    == <<ws, timer, selected, shown, requests>>
server  == <<book, channels, events>>
history == <<changes, loads, errors, drops>>
vars    == <<page, server, history>>

Book == [card : Card, version : Nat]

Unanswered == -1

(* Every variable keeps its type.                                          *)
TypeOK ==
  /\ ws \in {"none", "connecting", "open"}
  /\ timer \in BOOLEAN
  /\ selected \in Card \cup {NoBook}
  /\ shown \in Book \cup {NoBook}
  /\ requests \subseteq [number : Nat, card : Card, version : Nat \cup {Unanswered}]
  /\ book \in [Card -> Nat]
  /\ channels \subseteq Card
  /\ events \in Seq(Book)

(* The provider has connected; the cards are still being loaded.           *)
Init ==
  /\ ws = "connecting"
  /\ timer = FALSE
  /\ selected = NoBook
  /\ shown = NoBook
  /\ requests = {}
  /\ book = [card \in Card |-> 0]
  /\ channels = {}
  /\ events = <<>>
  /\ changes = 0 /\ loads = 0 /\ errors = 0 /\ drops = 0

-----------------------------------------------------------------------------
(* connect() and its handlers.  onopen notifies "ws_connected", at which   *)
(* the page refreshes the player, not its subscriptions.                   *)
OnOpen ==
  /\ ws = "connecting"
  /\ ws' = "open"
  /\ timer' = FALSE
  /\ UNCHANGED <<selected, shown, requests, server, history>>

(* The server forgets the channels of the socket, and what was on its way  *)
(* is gone.                                                                *)
OnClose ==
  /\ ws # "none"
  /\ drops < MaxDrops
  /\ drops' = drops + 1
  /\ ws' = "none"
  /\ timer' = TRUE
  /\ channels' = {}
  /\ events' = <<>>
  /\ UNCHANGED <<selected, shown, requests, book, changes, loads, errors>>

Reconnect ==
  /\ timer
  /\ ws' = "connecting"
  /\ timer' = FALSE
  /\ UNCHANGED <<selected, shown, requests, server, history>>

(* loadOrderBook asks for a book                                           *)
Load(card) ==
  /\ loads < MaxLoads
  /\ loads' = loads + 1
  /\ requests' = requests \cup {[number |-> loads, card |-> card, version |-> Unanswered]}

(* Another card is selected: the effects load its book, leave the channel  *)
(* of the card before and enter that of the new one.  subscribe and        *)
(* unsubscribe do nothing unless the socket is open.                       *)
Select(card) ==
  /\ card # selected
  /\ selected' = card
  /\ Load(card)
  /\ channels' = IF ws = "open" THEN (channels \ {selected}) \cup {card} ELSE channels
  /\ UNCHANGED <<ws, timer, shown, book, events, changes, errors, drops>>

(* The player has placed an order: the book is loaded again.               *)
PlaceOrder ==
  /\ selected # NoBook
  /\ Load(selected)
  /\ UNCHANGED <<ws, timer, selected, shown, server, changes, errors, drops>>

(* loadOrderBook: the answer is shown, whichever card is selected by then. *)
Loaded(r) ==
  /\ r.version # Unanswered
  /\ shown' = [card |-> r.card, version |-> r.version]
  /\ requests' = requests \ {r}
  /\ UNCHANGED <<ws, timer, selected, server, history>>

(* loadOrderBook: an error is caught and dropped.                          *)
LoadFails(r) ==
  /\ errors < MaxErrors
  /\ errors' = errors + 1
  /\ requests' = requests \ {r}
  /\ UNCHANGED <<ws, timer, selected, shown, server, changes, loads, drops>>

(* The handler of orderbook_update                                         *)
OnMessage ==
  /\ events # <<>>
  /\ events' = Tail(events)
  /\ shown' = IF Head(events).card = selected THEN Head(events) ELSE shown
  /\ UNCHANGED <<ws, timer, selected, requests, book, channels, history>>

-----------------------------------------------------------------------------
(* The server                                                              *)
AnswerRequest(r) ==
  /\ r.version = Unanswered
  /\ requests' = (requests \ {r}) \cup {[r EXCEPT !.version = book[r.card]]}
  /\ UNCHANGED <<ws, timer, selected, shown, server, history>>

Change(card) ==
  /\ changes < MaxChanges
  /\ changes' = changes + 1
  /\ book' = [book EXCEPT ![card] = @ + 1]
  /\ events' = IF card \in channels
               THEN Append(events, [card |-> card, version |-> book'[card]]) ELSE events
  /\ UNCHANGED <<page, channels, loads, errors, drops>>

Next ==
  \/ OnOpen
  \/ OnClose
  \/ Reconnect
  \/ PlaceOrder
  \/ OnMessage
  \/ \E card \in Card : Select(card) \/ Change(card)
  \/ \E r \in requests : AnswerRequest(r) \/ Loaded(r) \/ LoadFails(r)

Spec == Init /\ [][Next]_vars

-----------------------------------------------------------------------------
(* "real-time order book" (README.md): once the page is connected and has  *)
(* been given all that was sent to it, a book of the selected card that it *)
(* shows is the book as it is.                                             *)
OrderBookIsRealTime ==
  ws = "open" /\ requests = {} /\ events = <<>> /\ shown # NoBook /\ shown.card = selected =>
    shown.version = book[selected]
=============================================================================
