------------------------- MODULE WebSocketHubProofs -------------------------
(***************************************************************************)
(* For any clients, cards, players and requests: the variables of the      *)
(* WebSocket server keep their types, channels_ and the sessions' own sets *)
(* agree, and both are what the clients last asked for.                    *)
(***************************************************************************)
EXTENDS WebSocketHub, TLAPS

-----------------------------------------------------------------------------
(* What subscriptions rest on: an entry of channels_ has a subscriber, and *)
(* the two records agree.  A session that is not open yet has subscribed   *)
(* to nothing, for its handshake may still succeed.                        *)
Fresh == \A c \in Client : phase[c] \in {"absent", "handshake"} => subscribed[c] = {}

Inv == TypeOK /\ IndexAgrees /\ Fresh

-----------------------------------------------------------------------------
(* channels_ and what it says of a channel, as functions of its value      *)
MembersOf(f, ch) == IF ch \in DOMAIN f THEN f[ch] ELSE {}

IsIndex(f) ==
  /\ DOMAIN f \subseteq Channel
  /\ \A ch \in DOMAIN f : f[ch] \subseteq Client /\ f[ch] # {}

LEMMA EnteredIsMember ==
  ASSUME NEW c \in Client, NEW ch \in Channel, IsIndex(channels)
  PROVE  /\ IsIndex(Entered(c, ch))
         /\ \A x \in Channel :
              MembersOf(Entered(c, ch), x) = IF x = ch THEN Members(x) \cup {c} ELSE Members(x)
  BY DEF Entered, Members, MembersOf, IsIndex

LEMMA WithoutIsNoMember ==
  ASSUME NEW c \in Client, NEW S \in SUBSET Channel, IsIndex(channels)
  PROVE  /\ IsIndex(Without(c, S))
         /\ \A x \in Channel :
              MembersOf(Without(c, S), x) = IF x \in S THEN Members(x) \ {c} ELSE Members(x)
  BY DEF Without, Members, MembersOf, IsIndex

LEMMA MembersPrimed == \A x : Members(x)' = MembersOf(channels', x)
  BY DEF Members, MembersOf

-----------------------------------------------------------------------------
(* The types of the streams: whatever is sent, and however writes end      *)
StreamOK ==
  /\ writing \in [Client -> Message \cup {Nothing}]
  /\ parked \in [Client -> Message \cup {Nothing}]
  /\ lost \subseteq Client

LEMMA SendAnswerType ==
  ASSUME NEW c \in Client, StreamOK, SendAnswer(c)
  PROVE  StreamOK'
<1>1. "answer" \in Message
  BY DEF Message
<1>2. WritingAfter(c, 1, "answer") \in Message \cup {Nothing}
  BY <1>1 DEF WritingAfter, StreamOK
<1>3. ParkedAfter(c, 1, "answer") \in Message \cup {Nothing}
  BY <1>1 DEF ParkedAfter, StreamOK
<1> QED
  BY <1>2, <1>3 DEF SendAnswer, StreamOK

LEMMA BroadcastType ==
  ASSUME NEW s, StreamOK, Broadcast(s)
  PROVE  StreamOK'
<1>1. "event" \in Message
  BY DEF Message
<1>2. \A c \in Client : WritingAfter(c, Due(c, s), "event") \in Message \cup {Nothing}
  BY <1>1 DEF WritingAfter, StreamOK
<1>3. \A c \in Client : ParkedAfter(c, Due(c, s), "event") \in Message \cup {Nothing}
  BY <1>1 DEF ParkedAfter, StreamOK
<1> QED
  BY <1>2, <1>3 DEF Broadcast, StreamOK

LEMMA OnWrittenType ==
  ASSUME NEW c \in Client, StreamOK, OnWritten(c)
  PROVE  StreamOK'
<1>1. "garbled" \in Message
  BY DEF Message
<1>2. parked[c] \in Message \cup {Nothing}
  BY DEF StreamOK
<1> QED
  BY <1>1, <1>2 DEF OnWritten, StreamOK

-----------------------------------------------------------------------------
(* What is read is a request, or the end of the connection.                *)
LEMMA ReadsType ==
  ASSUME NEW c \in Client, NEW type,
         inbox \in [Client -> Seq(Request \cup {Closing})], Reads(c, type)
  PROVE  /\ inbox' \in [Client -> Seq(Request \cup {Closing})]
         /\ type \in {"subscribe", "unsubscribe"} => Head(inbox[c]).channel \in Channel
<1>1. inbox[c] \in Seq(Request \cup {Closing}) /\ inbox[c] # <<>>
  BY DEF Reads, Unread
<1>2. Head(inbox[c]) \in Request \cup {Closing} /\ Tail(inbox[c]) \in Seq(Request \cup {Closing})
  BY <1>1
<1>3. inbox' \in [Client -> Seq(Request \cup {Closing})]
  BY <1>2 DEF Reads, Unread
<1>4. ASSUME type \in {"subscribe", "unsubscribe"}
      PROVE  Head(inbox[c]).channel \in Channel
  <2>1. Head(inbox[c]).type = type
    BY DEF Reads, Unread
  <2>2. Head(inbox[c]) \in [type : {"subscribe", "unsubscribe"}, channel : Channel]
    BY <1>2, <1>4, <2>1 DEF Request, Closing
  <2> QED
    BY <2>2
<1> QED
  BY <1>3, <1>4

-----------------------------------------------------------------------------
LEMMA InitInv == Init => Inv
<1> SUFFICES ASSUME Init PROVE Inv
  OBVIOUS
<1>1. inbox \in [Client -> Seq(Request \cup {Closing})]
  BY DEF Init
<1>2. bursts \in 0 .. MaxBursts
  BY BoundsAssumption DEF Init
<1>3. TypeOK
  BY <1>1, <1>2 DEF Init, TypeOK, Phase, Nothing
<1> QED
  BY <1>3 DEF Init, Inv, IndexAgrees, Fresh, Members

-----------------------------------------------------------------------------
(* One lemma for the actions that leave the subscriptions alone, one for   *)
(* each that changes them                                                  *)
LEMMA SubscriptionsUntouched ==
  ASSUME Inv, StreamOK',
         UNCHANGED <<channels, subscribed>>,
         sessions' \subseteq Client,
         phase' \in [Client -> Phase],
         \A c \in Client : \/ phase'[c] = phase[c]
                           \/ /\ phase[c] \in {"absent", "handshake"}
                              /\ phase'[c] # "absent",
         inbox' \in [Client -> Seq(Request \cup {Closing})],
         wants' \in [Client -> SUBSET Channel],
         bursts' \in 0 .. MaxBursts
  PROVE  Inv'
<1>1. TypeOK'
  BY DEF Inv, TypeOK, StreamOK
<1>2. IndexAgrees'
  <2> SUFFICES ASSUME NEW ch \in Channel, NEW c \in Client
               PROVE  Members(ch)' = Members(ch)
                      /\ (ch \in subscribed[c] /\ phase[c] = "open"
                            <=> ch \in subscribed'[c] /\ phase'[c] = "open")
    BY DEF IndexAgrees, Inv
  <2>1. Members(ch)' = Members(ch)
    BY DEF Members
  <2>2. CASE phase'[c] = phase[c]
    BY <2>1, <2>2
  <2>3. CASE phase[c] \in {"absent", "handshake"}
    BY <2>1, <2>3 DEF Inv, Fresh
  <2> QED
    BY <2>2, <2>3
<1>3. Fresh'
  BY DEF Inv, Fresh
<1> QED
  BY <1>1, <1>2, <1>3 DEF Inv

LEMMA SubscriptionsChange ==
  ASSUME Inv, StreamOK', NEW c \in Client,
         phase[c] = "open",
         phase' \in [Client -> Phase], sessions' \subseteq Client,
         \A d \in Client \ {c} : phase'[d] = phase[d] /\ subscribed'[d] = subscribed[d],
         subscribed' \in [Client -> SUBSET Channel],
         phase'[c] \notin {"absent", "handshake"},
         IsIndex(channels'),
         \A x \in Channel : MembersOf(channels', x) \ {c} = Members(x) \ {c},
         \A x \in Channel : c \in MembersOf(channels', x)
                              <=> x \in subscribed'[c] /\ phase'[c] = "open",
         inbox' \in [Client -> Seq(Request \cup {Closing})],
         UNCHANGED <<wants, bursts>>
  PROVE  Inv'
<1>1. TypeOK'
  BY DEF Inv, TypeOK, StreamOK, IsIndex
<1>2. IndexAgrees'
  <2> SUFFICES ASSUME NEW ch \in Channel, NEW d \in Client
               PROVE  d \in MembersOf(channels', ch)
                        <=> ch \in subscribed'[d] /\ phase'[d] = "open"
    BY MembersPrimed DEF IndexAgrees
  <2>1. CASE d = c
    BY <2>1
  <2>2. CASE d # c
    <3>1. d \in MembersOf(channels', ch) <=> d \in Members(ch)
      BY <2>2
    <3> QED
      BY <2>2, <3>1 DEF Inv, IndexAgrees
  <2> QED
    BY <2>1, <2>2
<1>3. Fresh'
  BY DEF Inv, Fresh
<1> QED
  BY <1>1, <1>2, <1>3 DEF Inv

-----------------------------------------------------------------------------
(* The steps of one client                                                 *)
LEMMA AcceptInv == ASSUME Inv, NEW c \in Client, Accept(c) PROVE Inv'
<1>1. StreamOK'
  BY DEF Inv, TypeOK, StreamOK, Accept, stream
<1>2. phase' \in [Client -> Phase] /\ sessions' \subseteq Client
  BY DEF Inv, TypeOK, Accept, Phase
<1>3. \A d \in Client : \/ phase'[d] = phase[d]
                        \/ /\ phase[d] \in {"absent", "handshake"}
                           /\ phase'[d] # "absent"
  BY DEF Inv, TypeOK, Accept
<1> QED
  BY <1>1, <1>2, <1>3, SubscriptionsUntouched DEF Inv, TypeOK, Accept

LEMMA OnAcceptInv == ASSUME Inv, NEW c \in Client, OnAccept(c) PROVE Inv'
<1>1. StreamOK'
  BY DEF Inv, TypeOK, StreamOK, OnAccept, stream
<1>2. phase' \in [Client -> Phase] /\ sessions' \subseteq Client
  BY DEF Inv, TypeOK, OnAccept, Phase
<1>3. \A d \in Client : \/ phase'[d] = phase[d]
                        \/ /\ phase[d] \in {"absent", "handshake"}
                           /\ phase'[d] # "absent"
  BY DEF Inv, TypeOK, OnAccept
<1> QED
  BY <1>1, <1>2, <1>3, SubscriptionsUntouched DEF Inv, TypeOK, OnAccept

LEMMA AskInv == ASSUME Inv, NEW c \in Client, Ask(c) PROVE Inv'
<1>1. StreamOK'
  BY DEF Inv, TypeOK, StreamOK, Ask, stream
<1>2. PICK r \in Requests[c] :
        /\ inbox' = [inbox EXCEPT ![c] = Append(@, r)]
        /\ wants' = [wants EXCEPT ![c] =
                       CASE r.type = "subscribe"   -> @ \cup {r.channel}
                         [] r.type = "unsubscribe" -> @ \ {r.channel}
                         [] OTHER                  -> @]
  BY DEF Ask
<1>3. r \in Request
  BY RequestsAssumption
<1>4. inbox[c] \in Seq(Request \cup {Closing})
  BY DEF Inv, TypeOK
<1>5. Append(inbox[c], r) \in Seq(Request \cup {Closing})
  BY <1>3, <1>4
<1>6. inbox' \in [Client -> Seq(Request \cup {Closing})]
  BY <1>2, <1>5 DEF Inv, TypeOK
<1>7. r.type = "subscribe" => r.channel \in Channel
  BY <1>3 DEF Request
<1>8. wants' \in [Client -> SUBSET Channel]
  BY <1>2, <1>7 DEF Inv, TypeOK
<1> QED
  BY <1>1, <1>6, <1>8, SubscriptionsUntouched DEF Inv, TypeOK, Ask, server

LEMMA DisconnectInv == ASSUME Inv, NEW c \in Client, Disconnect(c) PROVE Inv'
<1>1. StreamOK'
  BY DEF Inv, TypeOK, StreamOK, Disconnect, stream
<1>2. PICK rest \in {inbox[c], <<>>} : inbox' = [inbox EXCEPT ![c] = Append(rest, Closing)]
  BY DEF Disconnect
<1>3. inbox[c] \in Seq(Request \cup {Closing})
  BY DEF Inv, TypeOK
<1> DEFINE T == Request \cup {Closing}
<1>4. Append(rest, Closing) \in Seq(Request \cup {Closing})
  <2>1. Closing \in T /\ inbox[c] \in Seq(T)
    BY <1>3
  <2> HIDE DEF T
  <2>2. <<>> \in Seq(T)
    OBVIOUS
  <2>3. rest \in Seq(T)
    BY <2>1, <2>2
  <2>4. Append(rest, Closing) \in Seq(T)
    BY <2>1, <2>3
  <2> QED
    BY <2>4 DEF T
<1>5. inbox' \in [Client -> Seq(Request \cup {Closing})]
  BY <1>2, <1>4 DEF Inv, TypeOK
<1> QED
  BY <1>1, <1>5, SubscriptionsUntouched DEF Inv, TypeOK, Disconnect, server

LEMMA OnSubscribeInv == ASSUME Inv, NEW c \in Client, OnSubscribe(c) PROVE Inv'
<1> DEFINE ch == Head(inbox[c]).channel
<1>1. inbox' \in [Client -> Seq(Request \cup {Closing})] /\ ch \in Channel
  BY ReadsType DEF Inv, TypeOK, OnSubscribe
<1>2. StreamOK'
  BY SendAnswerType DEF Inv, TypeOK, StreamOK, OnSubscribe
<1>3. phase[c] = "open"
  BY DEF OnSubscribe, Reads, Unread
<1>4. /\ subscribed' = [subscribed EXCEPT ![c] = @ \cup {ch}]
      /\ channels' = Entered(c, ch)
      /\ UNCHANGED <<sessions, phase, wants, bursts>>
  BY DEF OnSubscribe, Unread
<1>5. IsIndex(channels)
  BY DEF Inv, TypeOK, IsIndex
<1> HIDE DEF ch
<1>6. /\ IsIndex(channels')
      /\ \A x \in Channel :
           MembersOf(channels', x) = IF x = ch THEN Members(x) \cup {c} ELSE Members(x)
  BY <1>1, <1>4, <1>5, EnteredIsMember
<1>7. \A x \in Channel : c \in MembersOf(channels', x)
                           <=> x \in subscribed'[c] /\ phase'[c] = "open"
  BY <1>1, <1>3, <1>4, <1>6 DEF Inv, TypeOK, IndexAgrees
<1>8. subscribed' \in [Client -> SUBSET Channel]
  BY <1>1, <1>4 DEF Inv, TypeOK
<1> QED
  BY <1>1, <1>2, <1>3, <1>4, <1>6, <1>7, <1>8, SubscriptionsChange DEF Inv, TypeOK

LEMMA OnUnsubscribeInv == ASSUME Inv, NEW c \in Client, OnUnsubscribe(c) PROVE Inv'
<1> DEFINE ch == Head(inbox[c]).channel
<1>1. inbox' \in [Client -> Seq(Request \cup {Closing})] /\ ch \in Channel
  BY ReadsType DEF Inv, TypeOK, OnUnsubscribe
<1>2. StreamOK'
  BY SendAnswerType DEF Inv, TypeOK, StreamOK, OnUnsubscribe
<1>3. phase[c] = "open"
  BY DEF OnUnsubscribe, Reads, Unread
<1>4. /\ subscribed' = [subscribed EXCEPT ![c] = @ \ {ch}]
      /\ channels' = Without(c, {ch})
      /\ UNCHANGED <<sessions, phase, wants, bursts>>
  BY DEF OnUnsubscribe, Unread
<1>5. IsIndex(channels)
  BY DEF Inv, TypeOK, IsIndex
<1> HIDE DEF ch
<1>6. {ch} \in SUBSET Channel
  BY <1>1
<1>7. /\ IsIndex(channels')
      /\ \A x \in Channel :
           MembersOf(channels', x) = IF x \in {ch} THEN Members(x) \ {c} ELSE Members(x)
  BY <1>4, <1>5, <1>6, WithoutIsNoMember
<1>8. subscribed' \in [Client -> SUBSET Channel]
  BY <1>4 DEF Inv, TypeOK
<1>9. \A x \in Channel : c \in MembersOf(channels', x)
                           <=> x \in subscribed'[c] /\ phase'[c] = "open"
  <2>1. \A x \in Channel : c \in Members(x) <=> x \in subscribed[c]
    BY <1>3 DEF Inv, IndexAgrees
  <2>2. subscribed'[c] = subscribed[c] \ {ch} /\ phase'[c] = "open"
    BY <1>3, <1>4 DEF Inv, TypeOK
  <2>3. \A x \in Channel : c \in MembersOf(channels', x) <=> c \in Members(x) /\ x # ch
    BY <1>7
  <2> QED
    BY <2>1, <2>2, <2>3
<1> QED
  BY <1>1, <1>2, <1>3, <1>4, <1>7, <1>8, <1>9, SubscriptionsChange, ZenonT(60) DEF Inv, TypeOK

LEMMA OnCloseInv == ASSUME Inv, NEW c \in Client, OnClose(c) PROVE Inv'
<1> DEFINE S == subscribed[c]
<1>1. inbox' \in [Client -> Seq(Request \cup {Closing})]
  BY ReadsType DEF Inv, TypeOK, OnClose
<1>2. StreamOK'
  BY DEF Inv, TypeOK, StreamOK, OnClose, stream
<1>3. phase[c] = "open"
  BY DEF OnClose, Reads, Unread
<1>4. /\ phase' = [phase EXCEPT ![c] = "removed"]
      /\ channels' = Without(c, S)
      /\ sessions' = sessions \ {c}
      /\ UNCHANGED <<subscribed, wants, bursts>>
  BY DEF OnClose
<1>5. IsIndex(channels) /\ S \in SUBSET Channel
  BY DEF Inv, TypeOK, IsIndex
<1>6. \A x \in Channel : c \in Members(x) <=> x \in S
  BY <1>3 DEF Inv, IndexAgrees
<1>7. phase' \in [Client -> Phase] /\ phase'[c] = "removed"
  BY <1>4 DEF Inv, TypeOK, Phase
<1> HIDE DEF S
<1>8. /\ IsIndex(channels')
      /\ \A x \in Channel :
           MembersOf(channels', x) = IF x \in S THEN Members(x) \ {c} ELSE Members(x)
  BY <1>4, <1>5, WithoutIsNoMember
<1>9. \A x \in Channel : c \notin MembersOf(channels', x)
  BY <1>6, <1>8
<1> QED
  BY <1>1, <1>2, <1>3, <1>4, <1>7, <1>8, <1>9, SubscriptionsChange DEF Inv, TypeOK

-----------------------------------------------------------------------------
(* Every step                                                              *)
LEMMA HandlerInv == ASSUME Inv, Handler PROVE Inv'
<1>1. PICK s : Broadcast(s)
  BY DEF Handler
<1>2. StreamOK'
  BY <1>1, BroadcastType DEF Inv, TypeOK, StreamOK
<1>3. bursts' \in 0 .. MaxBursts
  BY BoundsAssumption DEF Handler, Inv, TypeOK
<1> QED
  BY <1>2, <1>3, SubscriptionsUntouched DEF Inv, TypeOK, Handler, server

LEMMA NextInv == Inv /\ [Next]_vars => Inv'
<1> SUFFICES ASSUME Inv, [Next]_vars PROVE Inv'
  OBVIOUS
<1>1. CASE UNCHANGED vars
  <2>1. StreamOK'
    BY <1>1 DEF Inv, TypeOK, StreamOK, vars, stream
  <2> QED
    BY <1>1, <2>1, SubscriptionsUntouched DEF Inv, TypeOK, vars, server
<1>2. ASSUME NEW c \in Client, OnPing(c) \/ OnMalformed(c)
      PROVE  Inv'
  <2>1. inbox' \in [Client -> Seq(Request \cup {Closing})]
    BY <1>2, ReadsType DEF Inv, TypeOK, OnPing, OnMalformed
  <2>2. StreamOK'
    BY <1>2, SendAnswerType DEF Inv, TypeOK, StreamOK, OnPing, OnMalformed, stream
  <2> QED
    BY <1>2, <2>1, <2>2, SubscriptionsUntouched
    DEF Inv, TypeOK, OnPing, OnMalformed, server
<1>3. ASSUME NEW c \in Client, OnWritten(c)
      PROVE  Inv'
  <2>1. StreamOK'
    BY <1>3, OnWrittenType DEF Inv, TypeOK, StreamOK
  <2> QED
    BY <1>3, <2>1, SubscriptionsUntouched DEF Inv, TypeOK, OnWritten, server
<1>4. ASSUME NEW c \in Client,
             Accept(c) \/ OnAccept(c) \/ Ask(c) \/ Disconnect(c) \/ Ready(c)
      PROVE  Inv'
  BY <1>2, <1>3, <1>4, AcceptInv, OnAcceptInv, AskInv, DisconnectInv,
     OnSubscribeInv, OnUnsubscribeInv, OnCloseInv DEF Ready, OnRead
<1> QED
  BY <1>1, <1>4, HandlerInv DEF Next

LEMMA Invariant == Spec => []Inv
  BY InitInv, NextInv, PTL DEF Spec

(* Every variable of the server, its streams and its clients keeps its     *)
(* type, and no entry of channels_ is empty.                               *)
THEOREM TypeCorrect == Spec => []TypeOK
<1>1. Inv => TypeOK
  BY DEF Inv
<1> QED
  BY <1>1, Invariant, PTL

(* channels_ and subscribed_channels_ agree at every moment, for any       *)
(* number of clients: remove_session erases every entry of a session whose *)
(* connection has ended, and broadcasts go to open sessions only.          *)
THEOREM IndexesAgree == Spec => []IndexAgrees
<1>1. Inv => IndexAgrees
  BY DEF Inv
<1> QED
  BY <1>1, Invariant, PTL

-----------------------------------------------------------------------------
(* SubscriptionsFollowRequests says nothing of a client that has requests  *)
(* under way.  What it wants of a channel is then decided by the last of   *)
(* them about the channel or, when none is, by what it is subscribed to.   *)
Concerns(r, ch) == r.type \in {"subscribe", "unsubscribe"} /\ r.channel = ch

LastDecides(queue, ch, wanted, have) ==
  \/ /\ \A i \in DOMAIN queue : ~Concerns(queue[i], ch)
     /\ ch \in wanted <=> ch \in have
  \/ \E i \in DOMAIN queue :
       /\ Concerns(queue[i], ch)
       /\ \A j \in DOMAIN queue : j > i => ~Concerns(queue[j], ch)
       /\ ch \in wanted <=> queue[i].type = "subscribe"

Follows(c) == \A ch \in Channel : LastDecides(inbox[c], ch, wants[c], subscribed[c])

(* A client that is not connected yet has asked for nothing.               *)
Silent(c) == phase[c] \in {"absent", "handshake"} => inbox[c] = <<>> /\ wants[c] = {}

RequestsInv == \A c \in Client : Silent(c) /\ (Connected(c) => Follows(c))

(* A request that is sent becomes the last of its channel.                 *)
LEMMA SentDecides ==
  ASSUME NEW T, NEW queue \in Seq(T), NEW r \in T, NEW ch, NEW wanted, NEW more, NEW have,
         LastDecides(queue, ch, wanted, have),
         Concerns(r, ch) => (ch \in more <=> r.type = "subscribe"),
         ~Concerns(r, ch) => (ch \in more <=> ch \in wanted)
  PROVE  LastDecides(Append(queue, r), ch, more, have)
<1> DEFINE new == Append(queue, r)
           n == Len(queue)
<1>1. /\ n \in Nat /\ DOMAIN queue = 1 .. n /\ DOMAIN new = 1 .. n + 1
      /\ new[n + 1] = r /\ \A i \in 1 .. n : new[i] = queue[i]
  OBVIOUS
<1> HIDE DEF new, n
<1>2. CASE Concerns(r, ch)
  <2>1. n + 1 \in DOMAIN new /\ \A j \in DOMAIN new : ~(j > n + 1)
    BY <1>1
  <2> QED
    BY <1>1, <1>2, <2>1 DEF LastDecides, new
<1>3. CASE ~Concerns(r, ch) /\ \A i \in DOMAIN queue : ~Concerns(queue[i], ch)
  <2>1. \A i \in DOMAIN new : ~Concerns(new[i], ch)
    BY <1>1, <1>3
  <2>2. ch \in wanted <=> ch \in have
    BY <1>3 DEF LastDecides
  <2> QED
    BY <1>3, <2>1, <2>2 DEF LastDecides, new
<1>4. CASE ~Concerns(r, ch) /\ ~(\A i \in DOMAIN queue : ~Concerns(queue[i], ch))
  <2>1. PICK i \in DOMAIN queue : /\ Concerns(queue[i], ch)
                                  /\ \A j \in DOMAIN queue : j > i => ~Concerns(queue[j], ch)
                                  /\ ch \in wanted <=> queue[i].type = "subscribe"
    BY <1>4 DEF LastDecides
  <2>2. /\ i \in DOMAIN new /\ new[i] = queue[i]
        /\ \A j \in DOMAIN new : j > i => ~Concerns(new[j], ch)
    BY <1>1, <1>4, <2>1
  <2> QED
    BY <1>4, <2>1, <2>2 DEF LastDecides, new
<1> QED
  BY <1>2, <1>3, <1>4

(* A request that is read hands over to what it has the server record.     *)
LEMMA ReadDecides ==
  ASSUME NEW T, NEW queue \in Seq(T), queue # <<>>, NEW ch, NEW wanted, NEW have, NEW next,
         LastDecides(queue, ch, wanted, have),
         Concerns(Head(queue), ch) => (ch \in next <=> Head(queue).type = "subscribe"),
         ~Concerns(Head(queue), ch) => (ch \in next <=> ch \in have)
  PROVE  LastDecides(Tail(queue), ch, wanted, next)
<1> DEFINE rest == Tail(queue)
           n == Len(queue)
<1>1. /\ n \in Nat \ {0} /\ DOMAIN queue = 1 .. n /\ DOMAIN rest = 1 .. n - 1
      /\ Head(queue) = queue[1] /\ \A i \in 1 .. n - 1 : rest[i] = queue[i + 1]
  OBVIOUS
<1> HIDE DEF rest, n
<1>2. CASE \A i \in DOMAIN queue : ~Concerns(queue[i], ch)
  <2>1. /\ ~Concerns(Head(queue), ch)
        /\ \A i \in DOMAIN rest : ~Concerns(rest[i], ch)
    BY <1>1, <1>2
  <2>2. ch \in wanted <=> ch \in have
    BY <1>2 DEF LastDecides
  <2> QED
    BY <2>1, <2>2 DEF LastDecides, rest
<1>3. ASSUME NEW i \in DOMAIN queue, Concerns(queue[i], ch),
             \A j \in DOMAIN queue : j > i => ~Concerns(queue[j], ch),
             ch \in wanted <=> queue[i].type = "subscribe"
      PROVE  LastDecides(rest, ch, wanted, next)
  <2>1. CASE i = 1
    <3>1. \A j \in DOMAIN rest : ~Concerns(rest[j], ch)
      BY <1>1, <1>3, <2>1
    <3>2. ch \in wanted <=> ch \in next
      BY <1>1, <1>3, <2>1
    <3> QED
      BY <3>1, <3>2 DEF LastDecides
  <2>2. CASE i # 1
    <3>1. i - 1 \in DOMAIN rest /\ rest[i - 1] = queue[i]
      BY <1>1, <2>2
    <3>2. ASSUME NEW j \in DOMAIN rest, j > i - 1 PROVE ~Concerns(rest[j], ch)
      <4>1. j + 1 \in DOMAIN queue /\ j + 1 > i /\ rest[j] = queue[j + 1]
        BY <1>1, <3>2
      <4> QED
        BY <1>3, <4>1
    <3> QED
      BY <1>3, <3>1, <3>2 DEF LastDecides
  <2> QED
    BY <2>1, <2>2
<1> QED
  BY <1>2, <1>3 DEF LastDecides, rest

LEMMA InitRequests == Init => RequestsInv
BY DEF Init, RequestsInv, Silent, Connected

(* The steps that leave what a client asked for and was recorded alone.    *)
Unmoved(c) ==
  /\ inbox'[c] = inbox[c] /\ wants'[c] = wants[c] /\ subscribed'[c] = subscribed[c]
  /\ phase'[c] = phase[c]

LEMMA UnmovedKeeps ==
  ASSUME RequestsInv, NEW c \in Client, Unmoved(c)
  PROVE  Silent(c)' /\ (Connected(c) => Follows(c))'
BY DEF RequestsInv, Unmoved, Silent, Connected, Follows

(* A connection cannot be taken up again: what its client cannot send for, *)
(* or has already ended, stays ended as the server reads.                  *)
LEMMA ReadingKeepsConnection ==
  ASSUME Inv, NEW c \in Client, NEW type, type # "close", Reads(c, type), Connected(c)'
  PROVE  Connected(c) /\ inbox'[c] = Tail(inbox[c]) /\ inbox[c] \in Seq(Request \cup {Closing})
<1> DEFINE queue == inbox[c]
           n == Len(queue)
<1>1. /\ queue \in Seq(Request \cup {Closing}) /\ inbox'[c] = Tail(queue)
      /\ phase[c] = "open" /\ queue # <<>> /\ Head(queue).type = type
  BY DEF Inv, TypeOK, Reads, Unread
<1>2. \A i \in 1 .. Len(Tail(queue)) : Tail(queue)[i] # Closing
  BY <1>1 DEF Connected
<1>3. Head(queue) # Closing
  BY <1>1 DEF Closing
<1> HIDE DEF queue
<1>4. \A i \in 1 .. n : queue[i] # Closing
  <2>1. /\ n \in Nat \ {0} /\ Len(Tail(queue)) = n - 1 /\ Head(queue) = queue[1]
        /\ \A i \in 1 .. n - 1 : Tail(queue)[i] = queue[i + 1]
    BY <1>1
  <2> HIDE DEF n
  <2> SUFFICES ASSUME NEW i \in 1 .. n, i # 1 PROVE queue[i] # Closing
    BY <1>3, <2>1
  <2>2. i - 1 \in 1 .. n - 1 /\ i - 1 + 1 = i
    BY <2>1
  <2> QED
    BY <1>2, <2>1, <2>2
<1> QED
  BY <1>1, <1>4 DEF Connected, queue

(* Reading a request, whatever its kind.                                   *)
LEMMA ReadKeepsRequests ==
  ASSUME Inv, RequestsInv, NEW c \in Client, NEW type, type # "close", Reads(c, type),
         phase' = phase, wants' = wants,
         \A ch \in Channel :
           /\ Concerns(Head(inbox[c]), ch) => (ch \in subscribed'[c] <=> type = "subscribe")
           /\ ~Concerns(Head(inbox[c]), ch) => (ch \in subscribed'[c] <=> ch \in subscribed[c])
  PROVE  Silent(c)' /\ (Connected(c) => Follows(c))'
<1>1. phase[c] = "open" /\ inbox[c] # <<>> /\ Head(inbox[c]).type = type
  BY DEF Reads, Unread
<1>2. Silent(c)'
  BY <1>1 DEF Silent
<1>3. ASSUME Connected(c)' PROVE Follows(c)'
  <2>1. Connected(c) /\ inbox'[c] = Tail(inbox[c]) /\ inbox[c] \in Seq(Request \cup {Closing})
    BY <1>3, ReadingKeepsConnection
  <2> SUFFICES ASSUME NEW ch \in Channel
               PROVE  LastDecides(Tail(inbox[c]), ch, wants[c], subscribed'[c])
    BY <2>1 DEF Follows
  <2>2. LastDecides(inbox[c], ch, wants[c], subscribed[c])
    BY <2>1 DEF RequestsInv, Follows
  <2> QED
    BY <1>1, <2>1, <2>2, ReadDecides
<1> QED
  BY <1>2, <1>3

LEMMA AskKeepsRequests ==
  ASSUME Inv, RequestsInv, NEW c \in Client, Ask(c)
  PROVE  Silent(c)' /\ (Connected(c) => Follows(c))'
<1>1. Connected(c) /\ phase[c] = "open" /\ UNCHANGED <<phase, subscribed>>
  BY DEF Ask, Connected, server
<1>2. PICK r \in Requests[c] :
        /\ inbox' = [inbox EXCEPT ![c] = Append(@, r)]
        /\ wants' = [wants EXCEPT ![c] =
                       CASE r.type = "subscribe"   -> @ \cup {r.channel}
                         [] r.type = "unsubscribe" -> @ \ {r.channel}
                         [] OTHER                  -> @]
  BY DEF Ask
<1>3. r \in Request \cup {Closing} /\ inbox[c] \in Seq(Request \cup {Closing})
  BY RequestsAssumption DEF Inv, TypeOK
<1>4. /\ inbox'[c] = Append(inbox[c], r)
      /\ r.type = "subscribe" => wants'[c] = wants[c] \cup {r.channel}
      /\ r.type = "unsubscribe" => wants'[c] = wants[c] \ {r.channel}
      /\ r.type \notin {"subscribe", "unsubscribe"} => wants'[c] = wants[c]
  BY <1>2 DEF Inv, TypeOK
<1>5. Follows(c)'
  <2> SUFFICES ASSUME NEW ch \in Channel
               PROVE  LastDecides(Append(inbox[c], r), ch, wants'[c], subscribed[c])
    BY <1>1, <1>4 DEF Follows
  <2>1. LastDecides(inbox[c], ch, wants[c], subscribed[c])
    BY <1>1 DEF RequestsInv, Follows
  <2>2. Concerns(r, ch) => (ch \in wants'[c] <=> r.type = "subscribe")
    BY <1>4 DEF Concerns
  <2>3. ~Concerns(r, ch) => (ch \in wants'[c] <=> ch \in wants[c])
    BY <1>4 DEF Concerns
  <2> QED
    BY <1>3, <2>1, <2>2, <2>3, SentDecides
<1> QED
  BY <1>1, <1>5 DEF Silent

(* The steps of one client, as they appear to it                           *)
LEMMA OwnStepKeepsRequests ==
  ASSUME Inv, RequestsInv, NEW c \in Client,
         Accept(c) \/ OnAccept(c) \/ Ask(c) \/ Disconnect(c) \/ Ready(c)
  PROVE  Silent(c)' /\ (Connected(c) => Follows(c))'
<1> DEFINE Kept == Silent(c)' /\ (Connected(c) => Follows(c))'
<1>1. CASE Accept(c)
  <2>1. phase'[c] = "handshake" /\ UNCHANGED <<inbox, wants>> /\ phase[c] = "absent"
    BY <1>1 DEF Accept, Inv, TypeOK
  <2> QED
    BY <2>1 DEF RequestsInv, Silent, Connected
<1>2. CASE OnAccept(c)
  <2>1. /\ phase'[c] \in {"open", "failed"} /\ UNCHANGED <<inbox, wants, subscribed>>
        /\ phase[c] = "handshake"
    BY <1>2 DEF OnAccept, Inv, TypeOK
  <2>2. inbox[c] = <<>> /\ wants[c] = {} /\ subscribed[c] = {}
    BY <2>1 DEF RequestsInv, Silent, Inv, Fresh
  <2>3. \A ch \in Channel : LastDecides(<<>>, ch, {}, {})
    BY DEF LastDecides
  <2> QED
    BY <2>1, <2>2, <2>3 DEF Silent, Follows
<1>3. CASE Ask(c)
  BY <1>3, AskKeepsRequests
<1>4. CASE Disconnect(c)
  <2>1. PICK rest \in {inbox[c], <<>>} : inbox' = [inbox EXCEPT ![c] = Append(rest, Closing)]
    BY <1>4 DEF Disconnect
  <2>2. phase[c] = "open" /\ phase' = phase
    BY <1>4 DEF Disconnect, Connected, server
  <2>3. inbox[c] \in Seq(Request \cup {Closing})
    BY DEF Inv, TypeOK
  <2>4. inbox'[c] = Append(rest, Closing) /\ Len(rest) \in Nat
    BY <2>1, <2>3 DEF Inv, TypeOK
  <2>5. Len(rest) + 1 \in 1 .. Len(inbox'[c]) /\ inbox'[c][Len(rest) + 1] = Closing
    BY <2>1, <2>3, <2>4
  <2>6. ~Connected(c)'
    BY <2>5 DEF Connected
  <2> QED
    BY <2>2, <2>6 DEF Silent
<1>5. CASE OnSubscribe(c)
  <2>1. /\ Reads(c, "subscribe") /\ phase' = phase /\ wants' = wants
        /\ subscribed'[c] = subscribed[c] \cup {Head(inbox[c]).channel}
        /\ Head(inbox[c]).type = "subscribe"
    BY <1>5 DEF OnSubscribe, Reads, Inv, TypeOK, Unread
  <2>2. \A ch \in Channel :
           /\ Concerns(Head(inbox[c]), ch) => (ch \in subscribed'[c] <=> "subscribe" = "subscribe")
           /\ ~Concerns(Head(inbox[c]), ch) => (ch \in subscribed'[c] <=> ch \in subscribed[c])
    BY <2>1 DEF Concerns
  <2> QED
    BY <2>1, <2>2, ReadKeepsRequests
<1>6. CASE OnUnsubscribe(c)
  <2>1. /\ Reads(c, "unsubscribe") /\ phase' = phase /\ wants' = wants
        /\ subscribed'[c] = subscribed[c] \ {Head(inbox[c]).channel}
        /\ Head(inbox[c]).type = "unsubscribe"
    BY <1>6 DEF OnUnsubscribe, Reads, Inv, TypeOK, Unread
  <2>2. \A ch \in Channel :
           /\ Concerns(Head(inbox[c]), ch) => (ch \in subscribed'[c] <=> "unsubscribe" = "subscribe")
           /\ ~Concerns(Head(inbox[c]), ch) => (ch \in subscribed'[c] <=> ch \in subscribed[c])
    BY <2>1 DEF Concerns
  <2> QED
    BY <2>1, <2>2, ReadKeepsRequests
<1>7. ASSUME NEW type \in {"ping", "malformed"}, Reads(c, type), UNCHANGED <<phase, wants, subscribed>>
      PROVE  Kept
  <2>1. Head(inbox[c]).type = type
    BY <1>7 DEF Reads, Unread
  <2>2. \A ch \in Channel :
           /\ Concerns(Head(inbox[c]), ch) => (ch \in subscribed'[c] <=> type = "subscribe")
           /\ ~Concerns(Head(inbox[c]), ch) => (ch \in subscribed'[c] <=> ch \in subscribed[c])
    BY <1>7, <2>1 DEF Concerns
  <2>3. type # "close"
    OBVIOUS
  <2> QED
    BY <1>7, <2>2, <2>3, ReadKeepsRequests
<1>8. CASE OnClose(c)
  <2>1. phase'[c] = "removed"
    BY <1>8 DEF OnClose, Inv, TypeOK
  <2> QED
    BY <2>1 DEF Silent, Connected
<1>9. CASE OnWritten(c)
  <2>1. Unmoved(c)
    BY <1>9 DEF OnWritten, Unmoved, server
  <2> QED
    BY <2>1, UnmovedKeeps
<1>10. CASE OnPing(c) \/ OnMalformed(c)
  <2>1. \E type \in {"ping", "malformed"} : Reads(c, type) /\ UNCHANGED <<phase, wants, subscribed>>
    BY <1>10 DEF OnPing, OnMalformed, server
  <2> QED
    BY <1>7, <2>1
<1> QED
  BY <1>1, <1>2, <1>3, <1>4, <1>5, <1>6, <1>8, <1>9, <1>10 DEF Ready, OnRead

(* The steps of one client, as they appear to the others                   *)
LEMMA OthersUnmoved ==
  ASSUME Inv, NEW c \in Client, NEW d \in Client \ {c},
         Accept(c) \/ OnAccept(c) \/ Ask(c) \/ Disconnect(c) \/ Ready(c)
  PROVE  Unmoved(d)
<1> USE DEF Inv, TypeOK, Unmoved, server
<1>1. CASE Accept(c) \/ OnAccept(c)
  BY <1>1 DEF Accept, OnAccept
<1>2. CASE Ask(c) \/ Disconnect(c)
  BY <1>2 DEF Ask, Disconnect
<1>3. CASE OnSubscribe(c) \/ OnUnsubscribe(c)
  BY <1>3 DEF OnSubscribe, OnUnsubscribe, Reads, Unread
<1>4. CASE OnPing(c) \/ OnMalformed(c) \/ OnClose(c)
  BY <1>4 DEF OnPing, OnMalformed, OnClose, Reads, Unread
<1>5. CASE OnWritten(c)
  BY <1>5 DEF OnWritten
<1> QED
  BY <1>1, <1>2, <1>3, <1>4, <1>5 DEF Ready, OnRead

LEMMA NextRequests == Inv /\ RequestsInv /\ [Next]_vars => RequestsInv'
<1> SUFFICES ASSUME Inv, RequestsInv, [Next]_vars, NEW d \in Client
             PROVE  Silent(d)' /\ (Connected(d) => Follows(d))'
  BY DEF RequestsInv
<1>1. CASE Handler \/ UNCHANGED vars
  <2>1. Unmoved(d)
    BY <1>1 DEF Handler, vars, server, Unmoved
  <2> QED
    BY <2>1, UnmovedKeeps
<1>2. ASSUME NEW c \in Client, Accept(c) \/ OnAccept(c) \/ Ask(c) \/ Disconnect(c) \/ Ready(c)
      PROVE  Silent(d)' /\ (Connected(d) => Follows(d))'
  <2>1. CASE d = c
    BY <1>2, <2>1, OwnStepKeepsRequests
  <2>2. CASE d # c
    BY <1>2, <2>2, OthersUnmoved, UnmovedKeeps
  <2> QED
    BY <2>1, <2>2
<1> QED
  BY <1>1, <1>2 DEF Next

(* Once its requests are read, a client is sent the channels it last asked *)
(* for and no other, for any clients, channels and requests, however many  *)
(* of them are under way and however those of other clients come between.  *)
THEOREM RequestsAreFollowed == Spec => []SubscriptionsFollowRequests
<1>1. Inv /\ RequestsInv => SubscriptionsFollowRequests
  <2> SUFFICES ASSUME Inv, RequestsInv, NEW c \in Client, phase[c] = "open", inbox[c] = <<>>
               PROVE  wants[c] = {ch \in Channel : c \in Members(ch)}
    BY DEF SubscriptionsFollowRequests
  <2>1. Connected(c)
    BY DEF Connected
  <2>2. \A ch \in Channel : ch \in wants[c] <=> ch \in subscribed[c]
    BY <2>1 DEF RequestsInv, Follows, LastDecides
  <2>3. wants[c] \subseteq Channel
    BY DEF Inv, TypeOK
  <2> QED
    BY <2>2, <2>3 DEF Inv, IndexAgrees
<1> QED
  BY <1>1, InitInv, NextInv, InitRequests, NextRequests, PTL DEF Spec
=============================================================================
