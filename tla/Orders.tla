------------------------------- MODULE Orders -------------------------------
(***************************************************************************)
(* Orders, trades and the two sides of a limit order book.                 *)
(*                                                                         *)
(* The data of include/core/order.hpp and include/core/order_book.hpp and  *)
(* the pure steps src/core/order_book.cpp performs on them.  No state of   *)
(* its own: OrderBook runs these operators under its lock.                 *)
(*                                                                         *)
(* A side of the book is a std::map<double, std::deque<Order>>: a function *)
(* from the occupied prices to the queue of orders at that price.  The two *)
(* maps are indexed by the side they hold, so that the BUY and the SELL    *)
(* branch of match_order, which mirror one another, are one definition.    *)
(*                                                                         *)
(* Prices are natural numbers: the book only compares them.                *)
(***************************************************************************)
EXTENDS Integers, Sequences, FiniteSetsExt, Functions

CONSTANTS
  Price,   \* the prices a LIMIT order may carry
  OrderId  \* the order identifiers (the code's UUIDs)

ASSUME PriceAssumption == Price \subseteq Nat \ {0}

-----------------------------------------------------------------------------
(* Types *)

Side == {"BUY", "SELL"}
Mode == {"MARKET", "LIMIT"}

Opposite(side) == IF side = "BUY" THEN "SELL" ELSE "BUY"

(* A MARKET order's price field is 0 and is never compared.                *)
Order == {o \in [id : OrderId, type : Side, mode : Mode, price : Price \cup {0},
                 quantity : Nat \ {0}, filled : Nat] :
            o.mode = "LIMIT" => o.price \in Price}

(* What a caller asks for, and the Order built from it: nothing filled.    *)
Request == {r \in [type : Side, mode : Mode, price : Price \cup {0}, quantity : Nat \ {0}] :
              r.mode = "LIMIT" => r.price \in Price}

NewOrder(id, r) ==
  [id |-> id, type |-> r.type, mode |-> r.mode, price |-> r.price,
   quantity |-> r.quantity, filled |-> 0]

Trade == [buy : OrderId, sell : OrderId, price : Price, quantity : Nat]

(* A function from some of the prices to S; one side of a book; a book.    *)
IsKeyedByPrice(f, S) == DOMAIN f \subseteq Price /\ f \in [DOMAIN f -> S]

IsLevels(levels) == IsKeyedByPrice(levels, Seq(Order))

IsBook(book) ==
  /\ book = [side \in Side |-> book[side]]
  /\ \A side \in Side : IsLevels(book[side])

EmptyBook == [side \in Side |-> [p \in {} |-> <<>>]]

-----------------------------------------------------------------------------
(* struct Order *)

Remaining(o) == o.quantity - o.filled

IsFilled(o) == o.quantity > 0 /\ o.filled >= o.quantity

Better(side, p, q) == IF side = "BUY" THEN p > q ELSE p < q

(* The match loops stop at the first level a LIMIT order does not reach.   *)
CrossesAnyLevel(o, p) == TRUE
CrossesStrictly(o, p) ==
  \/ o.mode = "MARKET"
  \/ IF o.type = "BUY" THEN o.price > p ELSE o.price < p

Crosses(o, p) ==
  \/ o.mode = "MARKET"
  \/ IF o.type = "BUY" THEN o.price >= p ELSE o.price <= p

-----------------------------------------------------------------------------
(* Levels *)

(* p is the key of map::begin(): the best occupied price of the side.      *)
IsSomeLevel(levels, side, p) == p \in DOMAIN levels

IsBest(levels, side, p) ==
  /\ p \in DOMAIN levels
  /\ \A q \in DOMAIN levels : q = p \/ Better(side, p, q)

Erase(levels, p) == Restrict(levels, DOMAIN levels \ {p})

(* levels[p] = queue, the level being erased when its deque has run empty. *)
PutLevelKeepsEmpty(levels, p, queue) == [levels EXCEPT ![p] = queue]

PutLevel(levels, p, queue) ==
  IF queue = <<>> THEN Erase(levels, p) ELSE [levels EXCEPT ![p] = queue]

PushFront(levels, o) ==
  [p \in DOMAIN levels \cup {o.price} |->
     IF p # o.price THEN levels[p]
     ELSE IF p \in DOMAIN levels THEN <<o>> \o levels[p] ELSE <<o>>]

(* bids_[order.price].push_back(order)                                     *)
PushBack(levels, o) ==
  [p \in DOMAIN levels \cup {o.price} |->
     IF p # o.price THEN levels[p]
     ELSE IF p \in DOMAIN levels THEN Append(levels[p], o) ELSE <<o>>]

AddOrder(book, o) == [book EXCEPT ![o.type] = PushBack(@, o)]

-----------------------------------------------------------------------------
(* One iteration of the match loop, on the front order of the best level   *)

MatchQuantity(o, resting) ==
  IF Remaining(o) <= Remaining(resting) THEN Remaining(o) ELSE Remaining(resting)

FilledBy(o, n) == [o EXCEPT !.filled = @ + n]

CreateTrade(incoming, resting, n, p) ==
  IF incoming.type = "BUY"
  THEN [buy |-> incoming.id, sell |-> resting.id, price |-> p, quantity |-> n]
  ELSE [buy |-> resting.id, sell |-> incoming.id, price |-> p, quantity |-> n]

(* The level after its front order has been filled by n.                   *)
AfterFillNoPop(queue, n) == [queue EXCEPT ![1] = FilledBy(@, n)]

AfterFill(queue, n) ==
  LET front == FilledBy(Head(queue), n)
  IN  IF IsFilled(front) THEN Tail(queue) ELSE [queue EXCEPT ![1] = front]

-----------------------------------------------------------------------------
(* What a book shows *)

RestingAt(levels) == UNION {{<<p, i>> : i \in DOMAIN levels[p]} : p \in DOMAIN levels}

(* The orders resting on either side.                                      *)
Resting(book) ==
  UNION {{book[side][pos[1]][pos[2]] : pos \in RestingAt(book[side])} : side \in Side}

LevelQuantity(queue) == MapThenSumSet(LAMBDA i : Remaining(queue[i]), DOMAIN queue)

(* One side of an OrderBookSnapshot: the total quantity at each price.     *)
Depth(levels) == [p \in DOMAIN levels |-> LevelQuantity(levels[p])]
=============================================================================
