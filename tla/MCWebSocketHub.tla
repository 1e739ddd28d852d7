--------------------------- MODULE MCWebSocketHub ---------------------------
(***************************************************************************)
(* Two clients and one card, whose players are one: every channel that a   *)
(* trade of the card reaches.  One comes and goes on the card's book and   *)
(* sends what is no request, with two requests unread at a time; the other *)
(* is on the book and its player's channel and pings.                      *)
(***************************************************************************)
EXTENDS WebSocketHub

CONSTANTS c1, c2, card, player

MCClient == {c1, c2}

Book == <<"orderbook", card>>

MCRequests ==
  [c \in MCClient |->
     IF c = c1
     THEN [type : {"subscribe", "unsubscribe"}, channel : {Book}] \cup [type : {"malformed"}]
     ELSE [type : {"subscribe"}, channel : {Book, <<"user", player>>}] \cup [type : {"ping"}]]

MCMaxInbox == [c \in MCClient |-> IF c = c1 THEN 2 ELSE 1]
=============================================================================
