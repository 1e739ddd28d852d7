------------------------------ MODULE Matching ------------------------------
(***************************************************************************)
(* What price-time priority matching promises, without a loop: how much of *)
(* an incoming order each resting order is given, stated position by       *)
(* position.                                                               *)
(*                                                                         *)
(* A side is here a total function from Price to the (possibly empty)      *)
(* queue of the orders resting at that price.  OrderBook, which matches    *)
(* one resting order per step, implements MatchingEngine, which is built   *)
(* on these operators; OrderService uses them for the one call it makes to *)
(* OrderBook::match_order.                                                 *)
(***************************************************************************)
EXTENDS Orders, Rows

Queues == [Price -> Seq(Order)]

EmptyQueues == [side \in Side |-> [p \in Price |-> <<>>]]

(* The occupied levels of a side, as the map of the code would list them.  *)
Occupied(queues) == [p \in {q \in Price : queues[q] # <<>>} |-> queues[p]]

(* The positions of a side that o may trade with, a better price or an     *)
(* earlier place at the same price first.                                  *)
Eligible(queues, o) == {pos \in RestingAt(queues) : Crosses(o, pos[1])}

Precedes(side, a, b) ==
  \/ Better(side, a[1], b[1])
  \/ a[1] = b[1] /\ a[2] < b[2]

At(queues, pos) == queues[pos[1]][pos[2]]

(* The quantity that stands before position pos.                           *)
Ahead(queues, o, pos) ==
  SumFunction([a \in {a \in Eligible(queues, o) : Precedes(Opposite(o.type), a, pos)} |->
                 Remaining(At(queues, a))])

(* What position pos is given: whatever of o is left by those before it,   *)
(* up to its own remaining quantity.                                       *)
Fill(queues, o, pos) ==
  IF pos \notin Eligible(queues, o) THEN 0
  ELSE LET left == Remaining(o) - Ahead(queues, o, pos)
           own  == Remaining(At(queues, pos))
       IN  IF left <= 0 THEN 0 ELSE IF left < own THEN left ELSE own

Matched(queues, o) ==
  {pos \in Eligible(queues, o) : Fill(queues, o, pos) > 0}

TotalFill(queues, o) ==
  SumFunction([pos \in Matched(queues, o) |-> Fill(queues, o, pos)])

(* The positions o is matched with, in the order the match loop comes to   *)
(* them.                                                                   *)
Turns(queues, o) ==
  LET matched == Matched(queues, o)
  IN  CHOOSE turn \in [1 .. Cardinality(matched) -> matched] :
        \A a, b \in 1 .. Cardinality(matched) :
          a < b => Precedes(Opposite(o.type), turn[a], turn[b])

(* The trades, in the order the match loop makes them.                     *)
Executions(queues, o) ==
  LET turn == Turns(queues, o)
  IN  [k \in DOMAIN turn |->
         CreateTrade(o, At(queues, turn[k]), Fill(queues, o, turn[k]), turn[k][1])]

(* The opposite side once the fills are made and the filled orders gone.   *)
AfterFillsUncounted(queues, o) ==
  [p \in Price |->
     Where(queues[p],
           LAMBDA r : \A k \in DOMAIN queues[p] :
             queues[p][k] = r => Fill(queues, o, <<p, k>>) < Remaining(r))]

AfterFills(queues, o) ==
  [p \in Price |->
     Where([k \in DOMAIN queues[p] |-> FilledBy(queues[p][k], Fill(queues, o, <<p, k>>))],
           LAMBDA r : ~IsFilled(r))]

(* The incoming order as match_order leaves it.                            *)
Incoming(queues, o) == FilledBy(o, TotalFill(queues, o))

Enqueue(queues, o) == [queues EXCEPT ![o.price] = Append(@, o)]

(* The book after match_order(o): the remainder of a LIMIT order rests.    *)
AfterMatch(book, o) ==
  LET opposite == Opposite(o.type)
      left     == Incoming(book[opposite], o)
      matched  == [book EXCEPT ![opposite] = AfterFills(@, o)]
  IN  IF o.mode = "LIMIT" /\ Remaining(left) > 0
      THEN [matched EXCEPT ![o.type] = Enqueue(@, left)]
      ELSE matched

(* The book without order id.                                              *)
Without(book, id) ==
  [side \in Side |-> [p \in Price |-> Where(book[side][p], LAMBDA r : r.id # id)]]
=============================================================================
