---------------------------- MODULE WebSocketHub ----------------------------
(***************************************************************************)
(* WebSocketServer and WebSocketSession (src/api/websocket.cpp), with the  *)
(* events EventBroadcaster sends through them as main.cpp wires them.      *)
(*                                                                         *)
(* main.cpp runs every handler on one thread, so that a handler (a message *)
(* read, a request that trades and broadcasts) is one step; between two of *)
(* them come what clients send, lost connections, failed handshakes and    *)
(* the completion of writes.                                               *)
(*                                                                         *)
(* A session has at most one asynchronous write.  send() does not wait for *)
(* it: a second write is parked inside the stream, a third replaces it,    *)
(* and the string of a parked write has gone when it is resumed, if it     *)
(* ever is (the build defines NDEBUG, so that Beast's assertion against    *)
(* this is compiled out).  Its outcome is a choice.  The first write is    *)
(* handed to the kernel within send(), whose buffer is taken to have room. *)
(* Of a message the model keeps whether it answers its client or carries   *)
(* an event.                                                               *)
(***************************************************************************)
EXTENDS Integers, Sequences, FiniteSets

CONSTANTS
  Client,      \* the connections, each with its WebSocketSession
  Card,        \* the cards traded
  User,        \* the players
  Requests,    \* the requests each client may send
  MaxInbox,    \* bound: the requests of each client not yet read
  MaxBursts    \* bound: the requests that broadcast events

ASSUME BoundsAssumption == MaxInbox \in [Client -> Nat] /\ MaxBursts \in Nat

Channel == ({"trades", "orderbook"} \X Card) \cup ({"user"} \X User)
             \cup {<<"trades", "global">>}

Request ==
  [type : {"subscribe", "unsubscribe"}, channel : Channel]
    \cup [type : {"ping", "malformed"}]

ASSUME RequestsAssumption == Requests \in [Client -> SUBSET Request]

Closing == [type |-> "close"]   \* what read reports when the connection ends

Nothing == "nothing"   \* no write

Message == {"answer", "event", "garbled"}

VARIABLES
  (* the server *)
  sessions,    \* sessions_
  channels,    \* channels_: the sessions of each channel that has an entry
  subscribed,  \* subscribed_channels_ of each session
  phase,       \* how far the connection of each client has come
  writing,     \* the write in progress on each stream
  parked,      \* the write suspended behind it
  (* the clients *)
  inbox,       \* what each client sent and the server has not read
  (* history *)
  wants,       \* the channels each client last asked for
  lost,        \* the clients an event was sent to that can no longer reach them
  bursts       \* the requests that broadcast events

server == <<sessions, channels, subscribed, phase>>
stream == <<writing, parked, lost>>
vars   == <<server, stream, inbox, wants, bursts>>

Phase == {"absent", "handshake", "failed", "open", "removed"}

(* Every variable keeps its type, and a channel with no subscriber has no  *)
(* entry: unsubscribe_session and remove_session erase it.                 *)
TypeOK ==
  /\ sessions \subseteq Client
  /\ DOMAIN channels \subseteq Channel
  /\ \A ch \in DOMAIN channels : channels[ch] \subseteq Client /\ channels[ch] # {}
  /\ subscribed \in [Client -> SUBSET Channel]
  /\ phase \in [Client -> Phase]
  /\ writing \in [Client -> Message \cup {Nothing}]
  /\ parked \in [Client -> Message \cup {Nothing}]
  /\ inbox \in [Client -> Seq(Request \cup {Closing})]
  /\ wants \in [Client -> SUBSET Channel]
  /\ lost \subseteq Client
  /\ bursts \in 0 .. MaxBursts

Init ==
  /\ sessions = {}
  /\ channels = [ch \in {} |-> {}]
  /\ subscribed = [c \in Client |-> {}]
  /\ phase = [c \in Client |-> "absent"]
  /\ writing = [c \in Client |-> Nothing]
  /\ parked = [c \in Client |-> Nothing]
  /\ inbox = [c \in Client |-> <<>>]
  /\ wants = [c \in Client |-> {}]
  /\ lost = {}
  /\ bursts = 0

-----------------------------------------------------------------------------
(* channels_[channel], empty when there is no entry                        *)
Members(ch) == IF ch \in DOMAIN channels THEN channels[ch] ELSE {}

(* subscribe_session                                                       *)
Entered(c, ch) ==
  [x \in DOMAIN channels \cup {ch} |->
     IF x = ch THEN Members(ch) \cup {c} ELSE channels[x]]

(* The channels left with a subscriber once c is out of those of S; an     *)
(* entry that becomes empty is erased (unsubscribe_session, remove_session)*)
WithoutAnywhere(c, S) ==
  [x \in {y \in DOMAIN channels : ~(channels[y] \subseteq {c})} |-> channels[x] \ {c}]

Without(c, S) ==
  [x \in {y \in DOMAIN channels : ~(y \in S /\ channels[y] \subseteq {c})} |->
     IF x \in S THEN channels[x] \ {c} ELSE channels[x]]

(* The stream of c after n messages were sent on it, none of which waits   *)
(* for the write before it: the first is written if it can, the last is    *)
(* parked, and those between are gone, with what was parked before them    *)
WritingAfter(c, n, message) ==
  IF n > 0 /\ writing[c] = Nothing THEN message ELSE writing[c]

Behind(c, n) == IF writing[c] = Nothing THEN n - 1 ELSE n

ParkedAfter(c, n, message) == IF Behind(c, n) > 0 THEN message ELSE parked[c]

LosesEvent(c, n, message) ==
  \/ Behind(c, n) > 0 /\ parked[c] = "event"
  \/ Behind(c, n) > 1 /\ message = "event"

(* send() of the answer to a request                                       *)
SendAnswer(c) ==
  /\ writing' = [writing EXCEPT ![c] = WritingAfter(c, 1, "answer")]
  /\ parked' = [parked EXCEPT ![c] = ParkedAfter(c, 1, "answer")]
  /\ lost' = IF LosesEvent(c, 1, "answer") THEN lost \cup {c} ELSE lost

(* The connection is up as far as the client knows                         *)
Connected(c) ==
  phase[c] = "open" /\ \A i \in 1 .. Len(inbox[c]) : inbox[c][i] # Closing

-----------------------------------------------------------------------------
(* WebSocketServer::on_accept: the session is entered and its handshake    *)
(* awaited                                                                 *)
Accept(c) ==
  /\ phase[c] = "absent"
  /\ phase' = [phase EXCEPT ![c] = "handshake"]
  /\ sessions' = sessions \cup {c}
  /\ UNCHANGED <<channels, subscribed, stream, inbox, wants, bursts>>

(* WebSocketSession::on_accept: a failed handshake is logged, and that is  *)
(* all                                                                     *)
OnAccept(c) ==
  /\ phase[c] = "handshake"
  /\ \E p \in {"open", "failed"} : phase' = [phase EXCEPT ![c] = p]
  /\ UNCHANGED <<sessions, channels, subscribed, stream, inbox, wants, bursts>>

(* The client sends a request.                                             *)
Ask(c) ==
  /\ Connected(c)
  /\ Len(inbox[c]) < MaxInbox[c]
  /\ \E r \in Requests[c] :
       /\ inbox' = [inbox EXCEPT ![c] = Append(@, r)]
       /\ wants' = [wants EXCEPT ![c] =
                      CASE r.type = "subscribe"   -> @ \cup {r.channel}
                        [] r.type = "unsubscribe" -> @ \ {r.channel}
                        [] OTHER                  -> @]
  /\ UNCHANGED <<server, stream, bursts>>

(* The connection ends: closed in order, after what was sent, or reset,    *)
(* which loses what was not read                                           *)
Disconnect(c) ==
  /\ Connected(c)
  /\ \E rest \in {inbox[c], <<>>} :
       inbox' = [inbox EXCEPT ![c] = Append(rest, Closing)]
  /\ UNCHANGED <<server, stream, wants, bursts>>

(* What the stream of c still has to read, in the order it was sent        *)
UnreadNewestFirst(c) ==
  [i \in 1 .. Len(inbox[c]) |-> inbox[c][Len(inbox[c]) + 1 - i]]

Unread(c) == inbox[c]

(* on_read and handle_message, one disjunct for each kind of message; the  *)
(* next read is started whatever the message was                           *)
Reads(c, type) ==
  /\ phase[c] = "open"
  /\ inbox[c] # <<>>
  /\ Head(Unread(c)).type = type
  /\ inbox' = [inbox EXCEPT ![c] = Tail(Unread(c))]

OnSubscribe(c) ==
  /\ Reads(c, "subscribe")
  /\ LET ch == Head(Unread(c)).channel
     IN  /\ subscribed' = [subscribed EXCEPT ![c] = @ \cup {ch}]
         /\ channels' = Entered(c, ch)
         /\ SendAnswer(c)
  /\ UNCHANGED <<sessions, phase, wants, bursts>>

OnUnsubscribe(c) ==
  /\ Reads(c, "unsubscribe")
  /\ LET ch == Head(Unread(c)).channel
     IN  /\ subscribed' = [subscribed EXCEPT ![c] = @ \ {ch}]
         /\ channels' = Without(c, {ch})
         /\ SendAnswer(c)
  /\ UNCHANGED <<sessions, phase, wants, bursts>>

OnPing(c) ==
  /\ Reads(c, "ping")
  /\ SendAnswer(c)
  /\ UNCHANGED <<server, wants, bursts>>

(* A message that throws is logged; one of an unknown type does nothing.   *)
OnMalformedLeavingLoop(c) ==
  /\ Reads(c, "malformed")
  /\ phase' = [phase EXCEPT ![c] = "failed"]
  /\ UNCHANGED <<sessions, channels, subscribed, stream, wants, bursts>>

OnMalformed(c) ==
  /\ Reads(c, "malformed")
  /\ UNCHANGED <<server, stream, wants, bursts>>

(* Closed, or an error: remove_session                                     *)
OnCloseSessionOnly(c) ==
  /\ Reads(c, "close")
  /\ phase' = [phase EXCEPT ![c] = "removed"]
  /\ sessions' = sessions \ {c}
  /\ UNCHANGED <<channels, subscribed, stream, wants, bursts>>

OnClose(c) ==
  /\ Reads(c, "close")
  /\ phase' = [phase EXCEPT ![c] = "removed"]
  /\ channels' = Without(c, subscribed[c])
  /\ sessions' = sessions \ {c}
  /\ UNCHANGED <<subscribed, stream, wants, bursts>>

OnRead(c) ==
  OnSubscribe(c) \/ OnUnsubscribe(c) \/ OnPing(c) \/ OnMalformed(c) \/ OnClose(c)

(* The write in progress ends.  What was parked is resumed, as it was or   *)
(* with what its memory holds by now, or stays where it is.                *)
OnWritten(c) ==
  /\ writing[c] # Nothing
  /\ \/ /\ writing' = [writing EXCEPT ![c] = parked[c]]
        /\ parked' = [parked EXCEPT ![c] = Nothing]
        /\ UNCHANGED lost
     \/ /\ parked[c] # Nothing
        /\ writing' = [writing EXCEPT ![c] = "garbled"]
        /\ parked' = [parked EXCEPT ![c] = Nothing]
        /\ lost' = IF parked[c] = "event" THEN lost \cup {c} ELSE lost
     \/ /\ parked[c] # Nothing
        /\ writing' = [writing EXCEPT ![c] = Nothing]
        /\ UNCHANGED <<parked, lost>>
  /\ UNCHANGED <<server, inbox, wants, bursts>>

-----------------------------------------------------------------------------
(* broadcast_to_channel of each channel of s in turn                       *)
Due(c, s) == Cardinality({i \in 1 .. Len(s) : c \in Members(s[i])})

Broadcast(s) ==
  /\ writing' = [c \in Client |-> WritingAfter(c, Due(c, s), "event")]
  /\ parked' = [c \in Client |-> ParkedAfter(c, Due(c, s), "event")]
  /\ lost' = lost \cup {c \in Client : LosesEvent(c, Due(c, s), "event")}

(* The trade callback of main.cpp: broadcast_trade, then                   *)
(* broadcast_portfolio_update of either player                             *)
TradeEvents(card, buyer, seller) ==
  <<<<"trades", card>>, <<"trades", "global">>, <<"user", buyer>>, <<"user", seller>>>>

(* A cancellation, and an order placed by u that filled against v, or      *)
(* against nobody: the trades, the snapshot, the notification              *)
Handler ==
  /\ bursts < MaxBursts
  /\ bursts' = bursts + 1
  /\ \E card \in Card :
       \/ Broadcast(<<<<"orderbook", card>>>>)
       \/ \E u, v \in User : \E t \in {TradeEvents(card, u, v), TradeEvents(card, v, u)} :
            \/ Broadcast(t \o <<<<"orderbook", card>>, <<"user", u>>>>)
            \/ Broadcast(t)   \* the order's row could not be updated
  /\ UNCHANGED <<server, inbox, wants>>

(* What the io_context runs once its handler is ready                      *)
Ready(c) == OnRead(c) \/ OnWritten(c)

Next ==
  \/ \E c \in Client : Accept(c) \/ OnAccept(c) \/ Ask(c) \/ Disconnect(c) \/ Ready(c)
  \/ Handler

(* io_context runs every handler that is ready, in turn.                   *)
Fairness == \A c \in Client : WF_vars(OnRead(c)) /\ WF_vars(OnWritten(c))

Spec == Init /\ [][Next]_vars /\ Fairness
-----------------------------------------------------------------------------
(* channels_ and the sessions' own sets are kept apart, under two locks:   *)
(* remove_session finds the entries to erase by the session's set.  They   *)
(* agree, so that no entry keeps a session whose connection has ended, and *)
(* nothing is broadcast to it.                                             *)
IndexAgrees ==
  \A ch \in Channel, c \in Client :
    c \in Members(ch) <=> ch \in subscribed[c] /\ phase[c] = "open"

(* Whatever a client sent before, however its requests were queued and     *)
(* other clients' came between, once they are read the server sends it the *)
(* channels it last asked for, and no other.                               *)
SubscriptionsFollowRequests ==
  \A c \in Client :
    phase[c] = "open" /\ inbox[c] = <<>> => wants[c] = {ch \in Channel : c \in Members(ch)}

(* A connection that has ended is noticed, whatever was sent before it     *)
(* ended: the session is removed from every channel and from sessions_.    *)
DisconnectsAreNoticed ==
  \A c \in Client :
    phase[c] = "open" /\ ~Connected(c)
      ~> c \notin sessions /\ \A ch \in Channel : c \notin Members(ch)

(* "Broadcast message to all subscribers of a channel"                     *)
(* (include/api/websocket.hpp): no event sent to a client that is there is *)
(* lost on its way.                                                        *)
BroadcastsArrive == \A c \in lost : ~Connected(c)
=============================================================================
