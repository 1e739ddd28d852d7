--------------------------- MODULE MatchingEngine ---------------------------
(***************************************************************************)
(* The abstract specification of one card's order book: every call is one  *)
(* atomic step.  A submitted order trades at once with the resting orders  *)
(* it reaches, best price and then earliest first; a cancelled order is    *)
(* gone; a snapshot shows the book of one instant.  OrderBook implements   *)
(* it with a lock, a loop and two maps.                                    *)
(***************************************************************************)
EXTENDS Matching

CONSTANT Requests  \* the requests callers make

VARIABLES
  queue,      \* the resting orders: side -> price -> queue
  tape,       \* the trades made so far
  submitted,  \* the identifiers of the orders submitted so far
  cancelled,  \* the identifiers for which a cancel returned true
  shown       \* the last snapshot handed out: side -> price -> quantity

vars == <<queue, tape, submitted, cancelled, shown>>

DepthOf(book) == [side \in Side |-> Depth(Occupied(book[side]))]

Init ==
  /\ queue = EmptyQueues
  /\ tape = {}
  /\ submitted = {}
  /\ cancelled = {}
  /\ shown = DepthOf(EmptyQueues)

(* OrderBook::match_order *)
Submit(o) ==
  /\ o.id \notin submitted
  /\ queue' = AfterMatch(queue, o)
  /\ tape' = tape \cup Range(Executions(queue[Opposite(o.type)], o))
  /\ submitted' = submitted \cup {o.id}
  /\ UNCHANGED <<cancelled, shown>>

(* OrderBook::cancel_order that finds the order, and so returns true       *)
Cancel(id) ==
  /\ \E side \in Side, p \in Price : \E k \in DOMAIN queue[side][p] :
       queue[side][p][k].id = id
  /\ queue' = Without(queue, id)
  /\ cancelled' = cancelled \cup {id}
  /\ UNCHANGED <<tape, submitted, shown>>

(* OrderBook::get_snapshot *)
Show ==
  /\ shown' = DepthOf(queue)
  /\ UNCHANGED <<queue, tape, submitted, cancelled>>

Next ==
  \/ \E id \in OrderId, r \in Requests : Submit(NewOrder(id, r))
  \/ \E id \in OrderId : Cancel(id)
  \/ Show

Spec == Init /\ [][Next]_vars
=============================================================================
