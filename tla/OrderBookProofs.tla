-------------------------- MODULE OrderBookProofs ---------------------------
(***************************************************************************)
(* Theorems about OrderBook, for any number of threads, prices and orders: *)
(* the book is never crossed, only open orders rest in it, and a confirmed *)
(* cancellation is final, which rests on identifiers being unique in the   *)
(* book and on trades being made under the lock only.  Every fill of an    *)
(* order is a trade, and no trade is made twice.  And the whole of it does *)
(* what MatchingEngine does, which takes each call in one step.            *)
(***************************************************************************)
EXTENDS OrderBook, Matching, RowsProofs

(* What OnlyOpenOrdersRest says of one level and of one side.              *)
OpenQueue(queue, side, p) ==
  \A k \in DOMAIN queue :
    /\ queue[k].mode = "LIMIT" /\ queue[k].type = side
    /\ queue[k].price = p /\ Remaining(queue[k]) > 0

OpenLevels(levels, side) ==
  \A p \in DOMAIN levels : levels[p] # <<>> /\ OpenQueue(levels[p], side, p)

LEMMA OrderFields ==
  ASSUME NEW o \in Order
  PROVE  /\ o.id \in OrderId /\ o.type \in Side /\ o.mode \in Mode
         /\ o.price \in Price \cup {0} /\ o.quantity \in Nat \ {0} /\ o.filled \in Nat
         /\ o.mode = "LIMIT" => o.price \in Price
BY DEF Order

LEMMA FilledByType ==
  ASSUME NEW o \in Order, NEW n \in Nat
  PROVE  /\ FilledBy(o, n) \in Order
         /\ FilledBy(o, n).quantity = o.quantity
         /\ FilledBy(o, n).filled = o.filled + n
         /\ FilledBy(o, n).type = o.type
         /\ FilledBy(o, n).mode = o.mode
         /\ FilledBy(o, n).price = o.price
BY DEF Order, FilledBy

(* Appending an open LIMIT order to its level keeps the side well formed.  *)
LEMMA PushBackLevels ==
  ASSUME NEW levels, NEW o \in Order, IsLevels(levels),
         o.mode = "LIMIT", Remaining(o) > 0,
         OpenLevels(levels, o.type)
  PROVE  /\ IsLevels(PushBack(levels, o))
         /\ DOMAIN PushBack(levels, o) = DOMAIN levels \cup {o.price}
         /\ OpenLevels(PushBack(levels, o), o.type)
<1> DEFINE new == PushBack(levels, o)
<1>1. o.price \in Price
  BY OrderFields
<1>2. DOMAIN new = DOMAIN levels \cup {o.price}
  BY DEF PushBack
<1>3. ASSUME NEW p \in DOMAIN new
      PROVE  /\ new[p] \in Seq(Order)
             /\ new[p] # <<>>
             /\ \A k \in DOMAIN new[p] :
                  \/ new[p][k] = o /\ p = o.price
                  \/ p \in DOMAIN levels /\ k \in DOMAIN levels[p] /\ new[p][k] = levels[p][k]
  <2>1. CASE p # o.price
    <3>1. p \in DOMAIN levels /\ new[p] = levels[p]
      BY <1>2, <1>3, <2>1 DEF PushBack
    <3> QED BY <3>1 DEF IsLevels, IsKeyedByPrice, OpenLevels
  <2>2. CASE p = o.price /\ p \in DOMAIN levels
    <3>1. new[p] = Append(levels[p], o)
      BY <1>2, <1>3, <2>2 DEF PushBack
    <3>2. levels[p] \in Seq(Order)
      BY <2>2 DEF IsLevels, IsKeyedByPrice
    <3> QED BY <3>1, <3>2, <2>2
  <2>3. CASE p = o.price /\ p \notin DOMAIN levels
    <3>1. new[p] = <<o>>
      BY <1>2, <1>3, <2>3 DEF PushBack
    <3> QED BY <3>1, <2>3
  <2> QED BY <2>1, <2>2, <2>3
<1>4. IsLevels(new)
  <2>1. DOMAIN new \subseteq Price
    BY <1>1, <1>2 DEF IsLevels, IsKeyedByPrice
  <2>2. new = [p \in DOMAIN new |-> new[p]]
    BY DEF PushBack
  <2> QED BY <1>3, <2>1, <2>2 DEF IsLevels, IsKeyedByPrice
<1>5. OpenLevels(new, o.type)
  BY <1>3, OrderFields DEF OpenLevels, OpenQueue
<1> QED BY <1>2, <1>4, <1>5

(* Putting back an open queue at an occupied level, or erasing the level   *)
(* when the queue is empty, keeps the side well formed.                    *)
LEMMA PutLevelLevels ==
  ASSUME NEW levels, NEW side, IsLevels(levels), OpenLevels(levels, side),
         NEW p \in DOMAIN levels, NEW queue \in Seq(Order),
         OpenQueue(queue, side, p)
  PROVE  /\ IsLevels(PutLevel(levels, p, queue))
         /\ DOMAIN PutLevel(levels, p, queue) \subseteq DOMAIN levels
         /\ OpenLevels(PutLevel(levels, p, queue), side)
<1>1. CASE queue = <<>>
  <2>1. PutLevel(levels, p, queue) = [q \in DOMAIN levels \ {p} |-> levels[q]]
    BY <1>1 DEF PutLevel, Erase, Restrict
  <2> QED BY <2>1 DEF IsLevels, IsKeyedByPrice, OpenLevels
<1>2. CASE queue # <<>>
  <2>1. PutLevel(levels, p, queue) = [levels EXCEPT ![p] = queue]
    BY <1>2 DEF PutLevel
  <2> QED BY <1>2, <2>1 DEF IsLevels, IsKeyedByPrice, OpenLevels
<1> QED BY <1>1, <1>2

(* Filling the front of an open queue by no more than it has left.         *)
LEMMA AfterFillQueue ==
  ASSUME NEW queue \in Seq(Order), queue # <<>>, NEW n \in Nat, n <= Remaining(Head(queue)),
         NEW p, NEW side,
         OpenQueue(queue, side, p)
  PROVE  AfterFill(queue, n) \in Seq(Order) /\ OpenQueue(AfterFill(queue, n), side, p)
<1> DEFINE front == FilledBy(Head(queue), n)
<1> USE DEF OpenQueue
<1>1. Head(queue) \in Order /\ 1 \in DOMAIN queue /\ Head(queue) = queue[1]
  OBVIOUS
<1>2. /\ front \in Order /\ front.mode = "LIMIT" /\ front.type = side /\ front.price = p
      /\ ~IsFilled(front) => Remaining(front) > 0
  <2>1. Head(queue) \in Order
    BY <1>1
  <2>2. /\ front \in Order /\ front.mode = Head(queue).mode /\ front.type = Head(queue).type
        /\ front.price = Head(queue).price
    BY <2>1, FilledByType
  <2>3. ~IsFilled(front) => Remaining(front) > 0
    <3>1. front.quantity \in Nat \ {0} /\ front.filled \in Nat
      BY <2>2, OrderFields
    <3> HIDE DEF front
    <3> QED BY <3>1 DEF IsFilled, Remaining
  <2> HIDE DEF front
  <2> QED BY <1>1, <2>2, <2>3
<1>3. CASE IsFilled(front)
  <2>1. AfterFill(queue, n) = Tail(queue)
    BY <1>3 DEF AfterFill
  <2>2. /\ Tail(queue) \in Seq(Order)
        /\ \A k \in DOMAIN Tail(queue) : k + 1 \in DOMAIN queue /\ Tail(queue)[k] = queue[k + 1]
    OBVIOUS
  <2> QED BY <2>1, <2>2
<1>4. CASE ~IsFilled(front)
  <2>1. AfterFill(queue, n) = [queue EXCEPT ![1] = front]
    BY <1>4 DEF AfterFill
  <2> QED BY <1>1, <1>2, <1>4, <2>1
<1> QED BY <1>3, <1>4

(* Removing one order from an open queue.                                  *)
LEMMA EraseAtQueue ==
  ASSUME NEW queue \in Seq(Order), NEW k \in DOMAIN queue
  PROVE  /\ EraseAt(queue, k) \in Seq(Order)
         /\ \A i \in DOMAIN EraseAt(queue, k) :
              \E j \in DOMAIN queue : EraseAt(queue, k)[i] = queue[j]
<1>1. Len(queue) \in Nat /\ DOMAIN queue = 1 .. Len(queue) /\ Len(queue) - 1 \in Nat
  OBVIOUS
<1>2. ASSUME NEW i \in 1 .. Len(queue) - 1
      PROVE  \E j \in DOMAIN queue : (IF i < k THEN queue[i] ELSE queue[i + 1]) = queue[j]
  BY <1>1
<1>3. DOMAIN EraseAt(queue, k) = 1 .. Len(queue) - 1
  BY DEF EraseAt
<1>4. \A i \in 1 .. Len(queue) - 1 : \E j \in DOMAIN queue : EraseAt(queue, k)[i] = queue[j]
  BY <1>2 DEF EraseAt
<1>5. EraseAt(queue, k) \in [1 .. Len(queue) - 1 -> Order]
  BY <1>1, <1>2 DEF EraseAt
<1> QED BY <1>1, <1>3, <1>4, <1>5, SMTT(30)

-----------------------------------------------------------------------------
(* The lock keeps its promise: a thread inside a writing section holds     *)
(* mutex_ exclusively, a thread inside get_snapshot holds it shared, and   *)
(* the two do not overlap.                                                 *)
Exclusion ==
  /\ \A t \in Thread : pc[t] \in {"match", "rest", "cancel"} => writer = t
  /\ \A t \in Thread : pc[t] \in {"snapshot_bids", "snapshot_asks"} => t \in readers
  /\ writer # None => readers = {}

ShapeInv == TypeOK /\ OnlyOpenOrdersRest /\ Exclusion

LEMMA OpenBook ==
  OnlyOpenOrdersRest <=> \A side \in Side : OpenLevels(book[side], side)
BY DEF OnlyOpenOrdersRest, OpenLevels, OpenQueue

LEMMA ShapeInit == Init => ShapeInv
<1> SUFFICES ASSUME Init PROVE ShapeInv
  OBVIOUS
<1>1. IsBook(book) /\ IsBook(settled)
  BY DEF Init, EmptyBook, IsBook, IsLevels, IsKeyedByPrice
<1>2. TypeOK
  BY <1>1 DEF Init, TypeOK, Submitting, Location, NoDepth
<1>3. OnlyOpenOrdersRest
  BY DEF Init, EmptyBook, OnlyOpenOrdersRest
<1>4. Exclusion
  BY DEF Init, Exclusion
<1> QED BY <1>2, <1>3, <1>4 DEF ShapeInv

LEMMA ExclusionStep ==
  ASSUME ShapeInv, NEW t \in Thread, Call(t) \/ Step(t)
  PROVE  Exclusion'
<1> USE ThreadAssumption DEF ShapeInv, TypeOK, Exclusion, Goto, lockVars, localVars, historyVars
<1>1. CASE \E id \in OrderId, r \in Requests : CallMatch(t, id, r)
  BY <1>1 DEF CallMatch
<1>2. CASE EnterMatch(t)
  BY <1>2 DEF EnterMatch, LockExclusive
<1>3. CASE MatchStep(t)
  BY <1>3 DEF MatchStep
<1>4. CASE ExitLoop(t)
  BY <1>4 DEF ExitLoop
<1>5. CASE Rest(t)
  BY <1>5 DEF Rest
<1>6. CASE \E id \in OrderId : CallCancel(t, id)
  BY <1>6 DEF CallCancel
<1>7. CASE EnterCancel(t)
  BY <1>7 DEF EnterCancel, LockExclusive
<1>8. CASE CancelFound(t) \/ CancelNotFound(t)
  BY <1>8 DEF CancelFound, CancelNotFound, LeaveCancel
<1>9. CASE CallSnapshot(t)
  BY <1>9 DEF CallSnapshot
<1>10. CASE EnterSnapshot(t)
  BY <1>10 DEF EnterSnapshot, LockShared
<1>11. CASE ReadBids(t)
  BY <1>11 DEF ReadBids
<1>12. CASE ReadAsks(t)
  BY <1>12 DEF ReadAsks
<1> QED
  BY <1>1, <1>2, <1>3, <1>4, <1>5, <1>6, <1>7, <1>8, <1>9, <1>10, <1>11, <1>12 DEF Call, Step

LEMMA BookSide ==
  ASSUME NEW b, IsBook(b), NEW side \in Side
  PROVE  IsLevels(b[side])
BY DEF IsBook

(* What a step of match_order, cancel_order does to the book.              *)
LEMMA MatchStepShape ==
  ASSUME ShapeInv, NEW t \in Thread, MatchStep(t)
  PROVE  /\ IsBook(book')
         /\ OnlyOpenOrdersRest'
         /\ incoming'[t] \in Order
         /\ \E tr \in Trade : made' = [made EXCEPT ![t] = @ \cup {tr}]
         /\ \A side \in Side : DOMAIN book'[side] \subseteq DOMAIN book[side]
<1> DEFINE o == incoming[t]
           side == Opposite(o.type)
<1>1. o \in Order /\ pc[t] = "match" /\ IsBook(book)
  BY DEF MatchStep, ShapeInv, TypeOK, Submitting
<1>2. side \in Side /\ IsLevels(book[side]) /\ OpenLevels(book[side], side)
  <2>1. side \in Side
    BY <1>1, OrderFields DEF Opposite, Side
  <2> QED BY <1>1, <2>1, BookSide, OpenBook DEF ShapeInv
<1>3. PICK p \in DOMAIN book[side] :
        LET resting == Head(book[side][p])
            n       == MatchQuantity(o, resting)
        IN  /\ Remaining(o) > 0
            /\ made' = [made EXCEPT ![t] = @ \cup {CreateTrade(o, resting, n, p)}]
            /\ incoming' = [incoming EXCEPT ![t] = FilledBy(o, n)]
            /\ book' = [book EXCEPT ![side] = PutLevel(@, p, AfterFill(@[p], n))]
  BY DEF MatchStep
<1> DEFINE queue == book[side][p]
           resting == Head(queue)
           n == MatchQuantity(o, resting)
           new == PutLevel(book[side], p, AfterFill(queue, n))
<1>4. /\ queue \in Seq(Order) /\ queue # <<>> /\ p \in Price
      /\ OpenQueue(queue, side, p)
  BY <1>2 DEF IsLevels, IsKeyedByPrice, OpenLevels
<1>5. resting \in Order /\ Remaining(resting) > 0
  <2>1. resting = queue[1] /\ 1 \in DOMAIN queue /\ resting \in Order
    BY <1>4
  <2> QED BY <1>4, <2>1 DEF OpenQueue
<1>6. n \in Nat /\ n <= Remaining(resting)
  <2>1. /\ o.quantity \in Nat /\ o.filled \in Nat
        /\ resting.quantity \in Nat /\ resting.filled \in Nat
    BY <1>1, <1>5, OrderFields
  <2> HIDE DEF o, resting
  <2> QED BY <1>3, <1>5, <2>1 DEF MatchQuantity, Remaining, resting, queue
<1>7. /\ IsLevels(new) /\ OpenLevels(new, side)
      /\ DOMAIN new \subseteq DOMAIN book[side]
  <2>1. AfterFill(queue, n) \in Seq(Order) /\ OpenQueue(AfterFill(queue, n), side, p)
    <3> HIDE DEF queue, n, side
    <3> QED BY <1>4, <1>6, AfterFillQueue DEF resting
  <2> HIDE DEF queue, n, side
  <2> QED BY <1>2, <2>1, PutLevelLevels
<1>8. book' = [book EXCEPT ![side] = new]
  BY <1>3
<1>9. IsBook(book') /\ book'[side] = new /\ \A other \in Side \ {side} : book'[other] = book[other]
  <2> HIDE DEF new, side
  <2> QED BY <1>1, <1>2, <1>7, <1>8 DEF IsBook
<1>10. OnlyOpenOrdersRest'
  <2>1. \A s \in Side : OpenLevels(book'[s], s)
    <3> HIDE DEF new, side
    <3> QED BY <1>7, <1>9, OpenBook DEF ShapeInv
  <2> QED BY <2>1 DEF OnlyOpenOrdersRest, OpenLevels, OpenQueue
<1>11. incoming'[t] \in Order
  <2>1. FilledBy(o, n) \in Order
    <3> HIDE DEF o, n
    <3> QED BY <1>1, <1>6, FilledByType
  <2>2. incoming' = [incoming EXCEPT ![t] = FilledBy(o, n)]
    BY <1>3
  <2> QED BY <2>1, <2>2 DEF ShapeInv, TypeOK
<1>12. CreateTrade(o, resting, n, p) \in Trade
  <2>1. o.id \in OrderId /\ resting.id \in OrderId
    BY <1>1, <1>5, OrderFields
  <2> HIDE DEF o, resting, n
  <2> QED BY <1>4, <1>6, <2>1 DEF CreateTrade, Trade
<1>13. \E tr \in Trade : made' = [made EXCEPT ![t] = @ \cup {tr}]
  BY <1>3, <1>12
<1>14. \A s \in Side : DOMAIN book'[s] \subseteq DOMAIN book[s]
  <2> HIDE DEF new, side
  <2> QED BY <1>7, <1>9
<1> QED BY <1>9, <1>10, <1>11, <1>13, <1>14

LEMMA RestShape ==
  ASSUME ShapeInv, NEW t \in Thread, Rest(t)
  PROVE  IsBook(book') /\ OnlyOpenOrdersRest'
<1> DEFINE o == incoming[t]
<1>1. o \in Order /\ IsBook(book)
  BY DEF Rest, Goto, ShapeInv, TypeOK, Submitting
<1>2. CASE o.mode = "LIMIT" /\ Remaining(o) > 0
  <2>1. book' = [book EXCEPT ![o.type] = PushBack(book[o.type], o)]
    BY <1>2 DEF Rest, AfterRest, AddOrder
  <2>2. o.type \in Side /\ IsLevels(book[o.type]) /\ OpenLevels(book[o.type], o.type)
    BY <1>1, OrderFields, BookSide, OpenBook DEF ShapeInv
  <2>3. IsLevels(PushBack(book[o.type], o)) /\ OpenLevels(PushBack(book[o.type], o), o.type)
    <3> HIDE DEF o
    <3> QED BY <1>1, <1>2, <2>2, PushBackLevels
  <2>4. /\ IsBook(book') /\ book'[o.type] = PushBack(book[o.type], o)
        /\ \A other \in Side \ {o.type} : book'[other] = book[other]
    <3> HIDE DEF o
    <3> QED BY <1>1, <2>1, <2>2, <2>3 DEF IsBook
  <2>5. \A s \in Side : OpenLevels(book'[s], s)
    <3> HIDE DEF o
    <3> QED BY <2>3, <2>4, OpenBook DEF ShapeInv
  <2> QED BY <2>4, <2>5 DEF OnlyOpenOrdersRest, OpenLevels, OpenQueue
<1>3. CASE ~(o.mode = "LIMIT" /\ Remaining(o) > 0)
  <2>1. book' = book
    BY <1>3 DEF Rest, AfterRest
  <2> QED BY <1>1, <2>1 DEF ShapeInv, OnlyOpenOrdersRest
<1> QED BY <1>2, <1>3

LEMMA CancelShape ==
  ASSUME ShapeInv, NEW t \in Thread, CancelFound(t)
  PROVE  /\ IsBook(book')
         /\ OnlyOpenOrdersRest'
         /\ \A side \in Side : DOMAIN book'[side] \subseteq DOMAIN book[side]
<1>a. PICK side \in Side : \E p \in DOMAIN book[side] : \E k \in DOMAIN book[side][p] :
        book' = [book EXCEPT ![side] = PutLevel(@, p, EraseAt(@[p], k))]
  BY DEF CancelFound, LeaveCancel
<1>b. PICK p \in DOMAIN book[side] : \E k \in DOMAIN book[side][p] :
        book' = [book EXCEPT ![side] = PutLevel(@, p, EraseAt(@[p], k))]
  BY <1>a
<1>1. PICK k \in DOMAIN book[side][p] :
        book' = [book EXCEPT ![side] = PutLevel(@, p, EraseAt(@[p], k))]
  BY <1>b
<1> DEFINE queue == book[side][p]
           new == PutLevel(book[side], p, EraseAt(queue, k))
<1>2. IsBook(book) /\ IsLevels(book[side]) /\ OpenLevels(book[side], side)
  BY BookSide, OpenBook DEF ShapeInv, TypeOK
<1>3. /\ queue \in Seq(Order)
      /\ OpenQueue(queue, side, p)
  BY <1>2 DEF IsLevels, IsKeyedByPrice, OpenLevels
<1>4. IsLevels(new) /\ OpenLevels(new, side) /\ DOMAIN new \subseteq DOMAIN book[side]
  <2>1. /\ EraseAt(queue, k) \in Seq(Order)
        /\ \A i \in DOMAIN EraseAt(queue, k) :
             \E j \in DOMAIN queue : EraseAt(queue, k)[i] = queue[j]
    <3> HIDE DEF queue
    <3> QED BY <1>1, <1>3, EraseAtQueue DEF queue
  <2>2. OpenQueue(EraseAt(queue, k), side, p)
    <3> HIDE DEF queue
    <3> QED BY <1>3, <2>1 DEF OpenQueue
  <2> HIDE DEF queue
  <2> QED BY <1>2, <2>1, <2>2, PutLevelLevels
<1>5. IsBook(book') /\ book'[side] = new /\ \A other \in Side \ {side} : book'[other] = book[other]
  <2>1. book' = [book EXCEPT ![side] = new]
    BY <1>1
  <2> HIDE DEF new
  <2> QED BY <1>2, <1>4, <2>1 DEF IsBook
<1>6. \A s \in Side : OpenLevels(book'[s], s)
  <2> HIDE DEF new
  <2> QED BY <1>4, <1>5, OpenBook DEF ShapeInv
<1>7. OnlyOpenOrdersRest'
  BY <1>6 DEF OnlyOpenOrdersRest, OpenLevels, OpenQueue
<1>8. \A s \in Side : DOMAIN book'[s] \subseteq DOMAIN book[s]
  <2> HIDE DEF new
  <2> QED BY <1>4, <1>5
<1> QED BY <1>5, <1>7, <1>8

LEMMA NewOrderType ==
  ASSUME NEW id \in OrderId, NEW r \in Requests
  PROVE  NewOrder(id, r) \in Order
BY RequestsAssumption DEF NewOrder, Order, Request

LEMMA TypeStep ==
  ASSUME ShapeInv, NEW t \in Thread, Call(t) \/ Step(t)
  PROVE  TypeOK'
<1> USE ThreadAssumption, NoOrderAssumption
    DEF ShapeInv, TypeOK, Submitting, Location, Goto, lockVars, localVars, historyVars
<1>1. ASSUME NEW id \in OrderId, NEW r \in Requests, CallMatch(t, id, r)
      PROVE  TypeOK'
  BY <1>1, NewOrderType DEF CallMatch
<1>2. CASE EnterMatch(t)
  BY <1>2 DEF EnterMatch, LockExclusive
<1>3. CASE MatchStep(t)
  <2>1. /\ IsBook(book') /\ incoming'[t] \in Order
        /\ \E tr \in Trade : made' = [made EXCEPT ![t] = @ \cup {tr}]
    BY <1>3, MatchStepShape
  <2>2. /\ \E o : incoming' = [incoming EXCEPT ![t] = o]
        /\ UNCHANGED <<writer, readers, pc, target, seen, placed, tape, cancelled, settled>>
    BY <1>3 DEF MatchStep
  <2> QED BY <2>1, <2>2
<1>4. CASE ExitLoop(t)
  BY <1>4 DEF ExitLoop
<1>5. CASE Rest(t)
  <2>1. IsBook(book')
    BY <1>5, RestShape
  <2> QED BY <1>5, <2>1 DEF Rest
<1>6. ASSUME NEW id \in OrderId, CallCancel(t, id)
      PROVE  TypeOK'
  BY <1>6 DEF CallCancel
<1>7. CASE EnterCancel(t)
  BY <1>7 DEF EnterCancel, LockExclusive
<1>8. CASE CancelFound(t)
  <2>1. IsBook(book')
    BY <1>8, CancelShape
  <2>2. PICK final : LeaveCancel(t, final, {target[t]})
    BY <1>8 DEF CancelFound
  <2> QED BY <2>1, <2>2 DEF LeaveCancel
<1>9. CASE CancelNotFound(t)
  BY <1>9 DEF CancelNotFound, LeaveCancel
<1>10. CASE CallSnapshot(t)
  BY <1>10 DEF CallSnapshot
<1>11. CASE EnterSnapshot(t)
  BY <1>11 DEF EnterSnapshot, LockShared
<1>12. CASE ReadBids(t)
  BY <1>12, BookSide DEF ReadBids, Depth, Side, IsLevels, IsKeyedByPrice
<1>13. CASE ReadAsks(t)
  BY <1>13 DEF ReadAsks, NoDepth
<1> QED
  BY <1>1, <1>2, <1>3, <1>4, <1>5, <1>6, <1>7, <1>8, <1>9, <1>10, <1>11, <1>12, <1>13
     DEF Call, Step

(* The steps that move the book; every other step leaves it alone.         *)
LEMMA BookSteps ==
  ASSUME NEW t \in Thread, Call(t) \/ Step(t)
  PROVE  MatchStep(t) \/ Rest(t) \/ CancelFound(t) \/ book' = book
BY DEF Call, Step, CallMatch, EnterMatch, ExitLoop, CallCancel, EnterCancel, CancelNotFound,
       LeaveCancel, CallSnapshot, EnterSnapshot, ReadBids, ReadAsks

LEMMA OpenStep ==
  ASSUME ShapeInv, NEW t \in Thread, Call(t) \/ Step(t)
  PROVE  OnlyOpenOrdersRest'
<1>1. CASE book' = book
  BY <1>1 DEF ShapeInv, OnlyOpenOrdersRest
<1> QED BY <1>1, BookSteps, MatchStepShape, RestShape, CancelShape

LEMMA ShapeStep == ShapeInv /\ [Next]_vars => ShapeInv'
<1> SUFFICES ASSUME ShapeInv, [Next]_vars PROVE ShapeInv'
  OBVIOUS
<1>1. ASSUME NEW t \in Thread, Call(t) \/ Step(t)
      PROVE  ShapeInv'
  BY <1>1, TypeStep, OpenStep, ExclusionStep DEF ShapeInv
<1>2. CASE UNCHANGED vars
  BY <1>2 DEF vars, ShapeInv, TypeOK, Submitting, OnlyOpenOrdersRest, Exclusion
<1> QED BY <1>1, <1>2 DEF Next

(* The types hold, for any number of threads, prices and orders.           *)
THEOREM TypeCorrect == Spec => []TypeOK
<1>1. Init => ShapeInv
  BY ShapeInit
<1>2. ShapeInv /\ [Next]_vars => ShapeInv'
  BY ShapeStep
<1>3. ShapeInv => TypeOK
  BY DEF ShapeInv
<1> QED BY <1>1, <1>2, <1>3, PTL DEF Spec

(* No level of the book is ever left empty, and only LIMIT orders with a   *)
(* quantity left to trade rest, on their own side at their own price.      *)
THEOREM OpenOrdersOnly == Spec => []OnlyOpenOrdersRest
<1>1. Init => ShapeInv
  BY ShapeInit
<1>2. ShapeInv /\ [Next]_vars => ShapeInv'
  BY ShapeStep
<1>3. ShapeInv => OnlyOpenOrdersRest
  BY DEF ShapeInv
<1> QED BY <1>1, <1>2, <1>3, PTL DEF Spec

-----------------------------------------------------------------------------
(* NotCrossed is not inductive: between the end of the match loop and      *)
(* add_order, nothing but the exclusive lock keeps the order that is about *)
(* to rest from crossing a level some other thread has just added.         *)
RestCannotCross ==
  \A t \in Thread :
    pc[t] = "rest" /\ Remaining(incoming[t]) > 0 =>
      \A p \in DOMAIN book[Opposite(incoming[t].type)] : ~Crosses(incoming[t], p)

(* Only the thread that holds mutex_ exclusively moves the book.           *)
LEMMA WriterMovesBook ==
  ASSUME ShapeInv, NEW t \in Thread, Call(t) \/ Step(t), book' # book
  PROVE  writer = t /\ readers = {} /\ pc[t] \in {"match", "rest", "cancel"}
<1>1. MatchStep(t) \/ Rest(t) \/ CancelFound(t)
  BY BookSteps
<1>2. pc[t] \in {"match", "rest", "cancel"}
  BY <1>1 DEF MatchStep, Rest, CancelFound, LeaveCancel, Goto
<1> QED BY <1>2, ThreadAssumption DEF ShapeInv, Exclusion

LEMMA OthersKeepOrder ==
  ASSUME ShapeInv, NEW t \in Thread, Call(t) \/ Step(t), NEW u \in Thread \ {t}
  PROVE  /\ pc'[u] = pc[u] /\ incoming'[u] = incoming[u] /\ seen'[u] = seen[u]
<1> USE DEF ShapeInv, TypeOK, Goto, lockVars, localVars, historyVars
<1>1. CASE Call(t)
  BY <1>1 DEF Call, CallMatch, CallCancel, CallSnapshot
<1>2. CASE EnterMatch(t) \/ EnterCancel(t) \/ EnterSnapshot(t)
  BY <1>2 DEF EnterMatch, EnterCancel, EnterSnapshot
<1>3. CASE MatchStep(t)
  BY <1>3 DEF MatchStep
<1>4. CASE ExitLoop(t) \/ Rest(t)
  BY <1>4 DEF ExitLoop, Rest
<1>5. CASE CancelFound(t) \/ CancelNotFound(t)
  BY <1>5 DEF CancelFound, CancelNotFound, LeaveCancel
<1>6. CASE ReadBids(t) \/ ReadAsks(t)
  BY <1>6 DEF ReadBids, ReadAsks
<1> QED BY <1>1, <1>2, <1>3, <1>4, <1>5, <1>6 DEF Step

(* A LIMIT order that crosses no opposite level may be added to its side.  *)
LEMMA RestNotCrossed ==
  ASSUME ShapeInv, NotCrossed, RestCannotCross, NEW t \in Thread, Rest(t)
  PROVE  NotCrossed'
<1> DEFINE o == incoming[t]
<1>1. o \in Order /\ IsBook(book) /\ pc[t] = "rest"
  BY DEF Rest, Goto, ShapeInv, TypeOK, Submitting
<1>2. CASE o.mode = "LIMIT" /\ Remaining(o) > 0
  <2>1. book' = [book EXCEPT ![o.type] = PushBack(book[o.type], o)]
    BY <1>2 DEF Rest, AfterRest, AddOrder
  <2>2. o.type \in Side /\ o.price \in Price
    BY <1>1, <1>2, OrderFields
  <2>3. DOMAIN PushBack(book[o.type], o) = DOMAIN book[o.type] \cup {o.price}
    BY DEF PushBack
  <2>4. \A p \in DOMAIN book[Opposite(o.type)] : ~Crosses(o, p)
    BY <1>1, <1>2 DEF RestCannotCross
  <2>5. \A side \in Side : DOMAIN book[side] \subseteq Nat
    BY <1>1, BookSide, PriceAssumption DEF IsLevels, IsKeyedByPrice
  <2>6. CASE o.type = "BUY"
    <3>1. /\ DOMAIN book'["BUY"] = DOMAIN book["BUY"] \cup {o.price}
          /\ DOMAIN book'["SELL"] = DOMAIN book["SELL"]
      BY <1>1, <2>1, <2>3, <2>6 DEF IsBook, Side
    <3>2. \A p \in DOMAIN book["SELL"] : o.price < p
      <4> HIDE DEF o
      <4>1. \A p \in DOMAIN book["SELL"] : ~(o.price >= p)
        BY <2>4, <2>6 DEF Opposite, Crosses
      <4>2. DOMAIN book["SELL"] \subseteq Nat /\ o.price \in Nat
        BY <2>2, <2>5, PriceAssumption DEF Side
      <4> QED BY <4>1, <4>2
    <3> QED BY <3>1, <3>2 DEF NotCrossed
  <2>7. CASE o.type = "SELL"
    <3>1. /\ DOMAIN book'["SELL"] = DOMAIN book["SELL"] \cup {o.price}
          /\ DOMAIN book'["BUY"] = DOMAIN book["BUY"]
      BY <1>1, <2>1, <2>3, <2>7 DEF IsBook, Side
    <3>2. \A p \in DOMAIN book["BUY"] : p < o.price
      <4> HIDE DEF o
      <4>1. \A p \in DOMAIN book["BUY"] : ~(o.price <= p)
        BY <2>4, <2>7 DEF Opposite, Crosses
      <4>2. DOMAIN book["BUY"] \subseteq Nat /\ o.price \in Nat
        BY <2>2, <2>5, PriceAssumption DEF Side
      <4> QED BY <4>1, <4>2
    <3> QED BY <3>1, <3>2 DEF NotCrossed
  <2> QED BY <2>2, <2>6, <2>7 DEF Side
<1>3. CASE ~(o.mode = "LIMIT" /\ Remaining(o) > 0)
  <2>1. book' = book
    BY <1>3 DEF Rest, AfterRest
  <2> QED BY <2>1 DEF NotCrossed
<1> QED BY <1>2, <1>3

LEMMA NotCrossedStep ==
  ASSUME ShapeInv, NotCrossed, RestCannotCross, NEW t \in Thread, Call(t) \/ Step(t)
  PROVE  NotCrossed'
<1>1. CASE book' = book
  BY <1>1 DEF NotCrossed
<1>2. CASE MatchStep(t) \/ CancelFound(t)
  <2>1. \A side \in Side : DOMAIN book'[side] \subseteq DOMAIN book[side]
    BY <1>2, MatchStepShape, CancelShape
  <2> QED BY <2>1 DEF NotCrossed, Side
<1> QED BY <1>1, <1>2, BookSteps, RestNotCrossed

(* The loop is left when nothing remains, or because the best opposite     *)
(* level does not cross, in which case no level does.                      *)
LEMMA ExitCannotCross ==
  ASSUME ShapeInv, NEW t \in Thread, ExitLoop(t), Remaining(incoming[t]) > 0,
         NEW p \in DOMAIN book[Opposite(incoming[t].type)]
  PROVE  ~Crosses(incoming[t], p)
<1> DEFINE o == incoming[t]
           side == Opposite(o.type)
<1>1. o \in Order /\ IsBook(book)
  BY DEF ExitLoop, Goto, ShapeInv, TypeOK, Submitting
<1>2. o.type \in Side /\ side \in Side /\ o.price \in Nat /\ o.quantity \in Nat /\ o.filled \in Nat
  <2>1. /\ o.type \in Side /\ o.price \in Price \cup {0}
        /\ o.quantity \in Nat /\ o.filled \in Nat
    <3> HIDE DEF o
    <3> QED BY <1>1, OrderFields
  <2>2. side \in Side
    BY <2>1 DEF Opposite, Side
  <2>3. Price \cup {0} \subseteq Nat
    BY PriceAssumption
  <2> HIDE DEF o, side
  <2> QED BY <2>1, <2>2, <2>3
<1>3. DOMAIN book[side] \subseteq Nat
  BY <1>1, <1>2, BookSide, PriceAssumption DEF IsLevels, IsKeyedByPrice
<1>4. PICK best \in DOMAIN book[side] : IsBest(book[side], side, best) /\ ~Crosses(o, best)
  <2>1. ~(Remaining(o) <= 0)
    BY <1>2 DEF Remaining
  <2> QED BY <2>1 DEF ExitLoop
<1>5. p = best \/ Better(side, best, p)
  BY <1>4 DEF IsBest
<1> HIDE DEF o
<1> QED BY <1>2, <1>3, <1>4, <1>5 DEF Better, Crosses, Opposite, Side, o

LEMMA RestCannotCrossStep ==
  ASSUME ShapeInv, RestCannotCross, NEW t \in Thread, Call(t) \/ Step(t)
  PROVE  RestCannotCross'
<1> SUFFICES ASSUME NEW u \in Thread, pc'[u] = "rest", Remaining(incoming'[u]) > 0,
                    NEW p \in DOMAIN book'[Opposite(incoming'[u].type)]
             PROVE  ~Crosses(incoming'[u], p)
  BY DEF RestCannotCross
<1>1. CASE u # t
  <2>1. pc[u] = "rest" /\ incoming'[u] = incoming[u]
    BY <1>1, OthersKeepOrder
  <2>2. book' = book
    BY <1>1, <2>1, WriterMovesBook DEF ShapeInv, Exclusion
  <2> QED BY <2>1, <2>2 DEF RestCannotCross
<1>2. CASE u = t
  <2>1. ExitLoop(t)
    BY <1>2 DEF ShapeInv, TypeOK, Call, Step, CallMatch, EnterMatch, MatchStep, Rest, CallCancel,
                EnterCancel, CancelFound, CancelNotFound, LeaveCancel, CallSnapshot,
                EnterSnapshot, ReadBids, ReadAsks, Goto
  <2>2. book' = book /\ incoming' = incoming
    BY <2>1 DEF ExitLoop
  <2> QED BY <1>2, <2>1, <2>2, ExitCannotCross
<1> QED BY <1>1, <1>2

BookInv == ShapeInv /\ NotCrossed /\ RestCannotCross

LEMMA BookInvInit == Init => BookInv
BY ShapeInit DEF BookInv, Init, NotCrossed, RestCannotCross, EmptyBook, Side

LEMMA BookInvStep == BookInv /\ [Next]_vars => BookInv'
<1> SUFFICES ASSUME BookInv, [Next]_vars PROVE BookInv'
  OBVIOUS
<1>1. ShapeInv'
  BY ShapeStep DEF BookInv
<1>2. ASSUME NEW t \in Thread, Call(t) \/ Step(t)
      PROVE  NotCrossed' /\ RestCannotCross'
  BY <1>2, NotCrossedStep, RestCannotCrossStep DEF BookInv
<1>3. ASSUME UNCHANGED vars
      PROVE  NotCrossed' /\ RestCannotCross'
  BY <1>3 DEF vars, BookInv, NotCrossed, RestCannotCross
<1> QED BY <1>1, <1>2, <1>3 DEF Next, BookInv

(* The book is never crossed, however many threads trade on it.            *)
THEOREM NeverCrossed == Spec => []NotCrossed
<1>1. BookInv => NotCrossed
  BY DEF BookInv
<1> QED BY <1>1, BookInvInit, BookInvStep, PTL DEF Spec

-----------------------------------------------------------------------------
(* SnapshotNotCrossed: between the two reads of get_snapshot the shared    *)
(* lock keeps the bids as they were read.                                  *)
SeenIsCurrent ==
  \A t \in Thread : pc[t] = "snapshot_asks" => DOMAIN seen[t] = DOMAIN book["BUY"]

LEMMA SeenIsCurrentStep ==
  ASSUME ShapeInv, SeenIsCurrent, NEW t \in Thread, Call(t) \/ Step(t)
  PROVE  SeenIsCurrent'
<1> SUFFICES ASSUME NEW u \in Thread, pc'[u] = "snapshot_asks"
             PROVE  DOMAIN seen'[u] = DOMAIN book'["BUY"]
  BY DEF SeenIsCurrent
<1>1. CASE u # t
  <2>1. pc[u] = "snapshot_asks" /\ seen'[u] = seen[u]
    BY <1>1, OthersKeepOrder
  <2>2. book' = book
    BY <2>1, WriterMovesBook DEF ShapeInv, Exclusion
  <2> QED BY <2>1, <2>2 DEF SeenIsCurrent
<1>2. CASE u = t
  <2>1. ReadBids(t)
    BY <1>2 DEF ShapeInv, TypeOK, Call, Step, CallMatch, EnterMatch, MatchStep, ExitLoop, Rest,
                CallCancel, EnterCancel, CancelFound, CancelNotFound, LeaveCancel, CallSnapshot,
                EnterSnapshot, ReadAsks, Goto
  <2> QED BY <1>2, <2>1 DEF ReadBids, Depth, ShapeInv, TypeOK
<1> QED BY <1>1, <1>2

LEMMA SnapshotNotCrossedStep ==
  ASSUME ShapeInv, NotCrossed, SeenIsCurrent, SnapshotNotCrossed,
         NEW t \in Thread, Call(t) \/ Step(t)
  PROVE  SnapshotNotCrossed'
<1>1. CASE ReadAsks(t)
  <2>1. /\ shown' = [BUY |-> seen[t], SELL |-> Depth(book["SELL"])]
        /\ DOMAIN seen[t] = DOMAIN book["BUY"]
    BY <1>1 DEF ReadAsks, Goto, SeenIsCurrent
  <2>2. DOMAIN Depth(book["SELL"]) = DOMAIN book["SELL"]
    BY DEF Depth
  <2> QED BY <2>1, <2>2 DEF NotCrossed, SnapshotNotCrossed
<1>2. CASE shown' = shown
  BY <1>2 DEF SnapshotNotCrossed
<1>3. ReadAsks(t) \/ shown' = shown
  BY DEF Call, Step, CallMatch, EnterMatch, MatchStep, ExitLoop, Rest, CallCancel, EnterCancel,
         CancelFound, CancelNotFound, LeaveCancel, CallSnapshot, EnterSnapshot, ReadBids,
         historyVars
<1> QED BY <1>1, <1>2, <1>3

SnapshotInv == BookInv /\ SeenIsCurrent /\ SnapshotNotCrossed

LEMMA SnapshotInvStep == SnapshotInv /\ [Next]_vars => SnapshotInv'
<1> SUFFICES ASSUME SnapshotInv, [Next]_vars PROVE SnapshotInv'
  OBVIOUS
<1>1. BookInv'
  BY BookInvStep DEF SnapshotInv
<1>2. ASSUME NEW t \in Thread, Call(t) \/ Step(t)
      PROVE  SeenIsCurrent' /\ SnapshotNotCrossed'
  BY <1>2, SeenIsCurrentStep, SnapshotNotCrossedStep DEF SnapshotInv, BookInv
<1>3. ASSUME UNCHANGED vars
      PROVE  SeenIsCurrent' /\ SnapshotNotCrossed'
  BY <1>3 DEF vars, SnapshotInv, SeenIsCurrent, SnapshotNotCrossed
<1> QED BY <1>1, <1>2, <1>3 DEF Next, SnapshotInv

(* No reader is ever shown a crossed book, however many threads read and   *)
(* trade at once, although get_snapshot reads its two sides one by one.    *)
THEOREM SnapshotNeverCrossed == Spec => []SnapshotNotCrossed
<1>1. Init => SnapshotInv
  <2>1. Init => SeenIsCurrent /\ SnapshotNotCrossed
    BY DEF Init, SeenIsCurrent, SnapshotNotCrossed, NoDepth, Side
  <2> QED BY <2>1, BookInvInit DEF SnapshotInv
<1>2. SnapshotInv => SnapshotNotCrossed
  BY DEF SnapshotInv
<1> QED BY <1>1, <1>2, SnapshotInvStep, PTL DEF Spec

-----------------------------------------------------------------------------
(* Identifiers in a queue                                                  *)

IdsOf(queue) == {queue[i].id : i \in DOMAIN queue}

Distinct(queue) == \A i, j \in DOMAIN queue : queue[i].id = queue[j].id => i = j

LEMMA AfterFillIds ==
  ASSUME NEW queue \in Seq(Order), queue # <<>>, NEW n \in Nat, Distinct(queue)
  PROVE  Distinct(AfterFill(queue, n)) /\ IdsOf(AfterFill(queue, n)) \subseteq IdsOf(queue)
<1> DEFINE front == FilledBy(Head(queue), n)
<1>1. Head(queue) = queue[1] /\ 1 \in DOMAIN queue /\ queue[1] \in Order
  OBVIOUS
<1>2. front.id = queue[1].id
  BY <1>1 DEF FilledBy, Order
<1>3. CASE IsFilled(front)
  <2>1. AfterFill(queue, n) = Tail(queue)
    BY <1>3 DEF AfterFill
  <2>2. \A i \in DOMAIN Tail(queue) :
          i \in Nat /\ i + 1 \in DOMAIN queue /\ Tail(queue)[i] = queue[i + 1]
    OBVIOUS
  <2> QED
    BY <2>1, <2>2 DEF Distinct, IdsOf
<1>4. CASE ~IsFilled(front)
  <2>1. AfterFill(queue, n) = [queue EXCEPT ![1] = front]
    BY <1>4 DEF AfterFill
  <2> HIDE DEF front
  <2>2. /\ DOMAIN AfterFill(queue, n) = DOMAIN queue
        /\ \A i \in DOMAIN queue : AfterFill(queue, n)[i].id = queue[i].id
    BY <1>1, <1>2, <2>1
  <2> QED
    BY <2>2 DEF Distinct, IdsOf
<1> QED
  BY <1>3, <1>4

LEMMA EraseAtIds ==
  ASSUME NEW queue \in Seq(Order), NEW k \in DOMAIN queue, Distinct(queue)
  PROVE  /\ Distinct(EraseAt(queue, k))
         /\ IdsOf(EraseAt(queue, k)) \subseteq IdsOf(queue) \ {queue[k].id}
<1> DEFINE new == EraseAt(queue, k)
<1>1. Len(queue) \in Nat /\ DOMAIN queue = 1 .. Len(queue) /\ k \in 1 .. Len(queue)
  OBVIOUS
<1>2. DOMAIN new = 1 .. Len(queue) - 1
  BY DEF EraseAt
<1>3. \A i \in DOMAIN new :
        /\ i < k => i \in DOMAIN queue /\ new[i] = queue[i]
        /\ i >= k => i + 1 \in DOMAIN queue /\ new[i] = queue[i + 1]
  BY <1>1, <1>2 DEF EraseAt
<1> HIDE DEF new
<1>4. Distinct(new)
  BY <1>1, <1>2, <1>3 DEF Distinct
<1>5. \A i \in DOMAIN new : \E j \in DOMAIN queue : j # k /\ new[i].id = queue[j].id
  <2> SUFFICES ASSUME NEW i \in DOMAIN new
               PROVE  \E j \in DOMAIN queue : j # k /\ new[i].id = queue[j].id
    OBVIOUS
  <2>1. CASE i < k
    BY <1>1, <1>2, <1>3, <2>1
  <2>2. CASE i >= k
    BY <1>1, <1>2, <1>3, <2>2
  <2> QED
    BY <1>1, <1>2, <2>1, <2>2
<1>6. IdsOf(new) \subseteq IdsOf(queue) \ {queue[k].id}
  BY <1>5 DEF IdsOf, Distinct
<1> QED
  BY <1>4, <1>6 DEF new

LEMMA PutLevelAt ==
  ASSUME NEW levels, NEW p \in DOMAIN levels, NEW queue, NEW q \in DOMAIN PutLevel(levels, p, queue)
  PROVE  /\ q \in DOMAIN levels
         /\ PutLevel(levels, p, queue)[q] = IF q = p THEN queue ELSE levels[q]
<1>1. CASE queue = <<>>
  <2>1. PutLevel(levels, p, queue) = [r \in DOMAIN levels \ {p} |-> levels[r]]
    BY <1>1 DEF PutLevel, Erase, Restrict
  <2> QED
    BY <2>1
<1>2. CASE queue # <<>>
  <2>1. PutLevel(levels, p, queue) = [levels EXCEPT ![p] = queue]
    BY <1>2 DEF PutLevel
  <2> QED
    BY <2>1
<1> QED
  BY <1>1, <1>2

-----------------------------------------------------------------------------
(* The order that rests, or is being matched, under an identifier is the   *)
(* one placed under it, on the side and at the price it was placed; so an  *)
(* identifier that is distinct within its queue is distinct in the book.   *)
Lives(id, side, p) ==
  /\ placed[id] # NoOrder /\ placed[id].type = side /\ placed[id].price = p
  /\ id \notin cancelled
  /\ \A t \in Thread : Submitting(t) => incoming[t].id # id

RestingInv ==
  \A side \in Side : \A p \in DOMAIN book[side] :
    Distinct(book[side][p]) /\ \A id \in IdsOf(book[side][p]) : Lives(id, side, p)

SubmittedInv ==
  \A t \in Thread : Submitting(t) =>
    LET o == incoming[t]
    IN  /\ placed[o.id] # NoOrder /\ placed[o.id].type = o.type /\ placed[o.id].price = o.price
        /\ o.id \notin cancelled
        /\ \A u \in Thread \ {t} : Submitting(u) => incoming[u].id # o.id

(* Trades are in the making under the lock only, and none with an order    *)
(* that was cancelled.                                                     *)
MadeInv ==
  \A t \in Thread :
    /\ pc[t] \notin {"match", "rest"} => made[t] = {}
    /\ \A tr \in made[t] : tr.buy \notin cancelled /\ tr.sell \notin cancelled

CancelledInv == \A id \in cancelled : placed[id] # NoOrder

CancelInv == ShapeInv /\ RestingInv /\ SubmittedInv /\ MadeInv /\ CancelledInv

LEMMA CancelInit == Init => CancelInv
<1> SUFFICES ASSUME Init PROVE CancelInv
  OBVIOUS
<1>1. RestingInv
  BY DEF Init, EmptyBook, RestingInv
<1>2. SubmittedInv /\ MadeInv /\ CancelledInv
  BY DEF Init, SubmittedInv, Submitting, MadeInv, CancelledInv
<1> QED
  BY <1>1, <1>2, ShapeInit DEF CancelInv

(* The steps that move none of what CancelInv speaks of but a thread's     *)
(* place within its call                                                   *)
Quiet ==
  /\ UNCHANGED <<book, placed, cancelled, incoming, made, tape>>
  /\ \A t \in Thread :
       /\ Submitting(t)' <=> Submitting(t)
       /\ pc'[t] \notin {"match", "rest"} => pc[t] \notin {"match", "rest"}

LEMMA QuietSteps ==
  ASSUME ShapeInv, NEW t \in Thread, Call(t) \/ Step(t)
  PROVE  \/ \E id \in OrderId, r \in Requests : CallMatch(t, id, r)
         \/ MatchStep(t)
         \/ Rest(t)
         \/ CancelFound(t)
         \/ Quiet
<1> USE DEF Quiet, Submitting, Goto, ShapeInv, TypeOK, lockVars, localVars, historyVars
<1>1. CASE EnterMatch(t)
  BY <1>1 DEF EnterMatch
<1>2. CASE ExitLoop(t)
  BY <1>2 DEF ExitLoop
<1>3. CASE \E id \in OrderId : CallCancel(t, id)
  BY <1>3 DEF CallCancel
<1>4. CASE EnterCancel(t)
  BY <1>4 DEF EnterCancel
<1>5. CASE CancelNotFound(t)
  BY <1>5 DEF CancelNotFound, LeaveCancel
<1>6. CASE CallSnapshot(t)
  BY <1>6 DEF CallSnapshot
<1>7. CASE EnterSnapshot(t)
  BY <1>7 DEF EnterSnapshot
<1>8. CASE ReadBids(t)
  BY <1>8 DEF ReadBids
<1>9. CASE ReadAsks(t)
  BY <1>9 DEF ReadAsks
<1> QED
  BY <1>1, <1>2, <1>3, <1>4, <1>5, <1>6, <1>7, <1>8, <1>9 DEF Call, Step

LEMMA QuietCancelInv ==
  ASSUME CancelInv, Quiet
  PROVE  RestingInv' /\ SubmittedInv' /\ MadeInv' /\ CancelledInv'
<1>1. \A id, side, p : Lives(id, side, p)' <=> Lives(id, side, p)
  BY DEF Quiet, Lives
<1>2. RestingInv'
  BY <1>1 DEF CancelInv, RestingInv, Quiet
<1>3. SubmittedInv'
  BY DEF CancelInv, SubmittedInv, Quiet
<1> QED
  BY <1>2, <1>3 DEF CancelInv, MadeInv, CancelledInv, Quiet

(* A new order has an identifier of its own.                               *)
LEMMA CallMatchCancelInv ==
  ASSUME CancelInv, NEW t \in Thread, NEW id \in OrderId, NEW r \in Requests, CallMatch(t, id, r)
  PROVE  RestingInv' /\ SubmittedInv' /\ MadeInv' /\ CancelledInv'
<1> DEFINE o == NewOrder(id, r)
<1>1. /\ pc[t] = "idle" /\ pc' = [pc EXCEPT ![t] = "match_wait"]
      /\ placed[id] = NoOrder
      /\ placed' = [placed EXCEPT ![id] = o]
      /\ incoming' = [incoming EXCEPT ![t] = o]
      /\ UNCHANGED <<book, made, cancelled>>
  BY DEF CallMatch, Goto, historyVars
<1>2. o \in Order /\ o # NoOrder /\ o.id = id
  BY NewOrderType, NoOrderAssumption DEF NewOrder
<1> HIDE DEF o
<1>3. /\ \A u \in Thread \ {t} : Submitting(u)' = Submitting(u) /\ incoming'[u] = incoming[u]
      /\ ~Submitting(t) /\ Submitting(t)' /\ incoming'[t] = o
  BY <1>1 DEF CancelInv, ShapeInv, TypeOK, Submitting
<1>4. \A x : placed[x] # NoOrder => x # id
  BY <1>1
<1>5. \A x \in OrderId : x # id => placed'[x] = placed[x]
  BY <1>1 DEF CancelInv, ShapeInv, TypeOK
<1>6. placed'[id] = o
  BY <1>1 DEF CancelInv, ShapeInv, TypeOK
<1>7. RestingInv'
  <2> SUFFICES ASSUME NEW side \in Side, NEW p \in DOMAIN book[side],
                      NEW x \in IdsOf(book[side][p])
               PROVE  Distinct(book[side][p]) /\ Lives(x, side, p)'
    <3>1. \A side \in Side : \A p \in DOMAIN book[side] : Distinct(book[side][p])
      BY DEF CancelInv, RestingInv
    <3> QED
      BY <1>1, <3>1 DEF RestingInv
  <2>1. Distinct(book[side][p]) /\ Lives(x, side, p)
    BY DEF CancelInv, RestingInv
  <2>2. x \in OrderId
    <3>1. book[side][p] \in Seq(Order)
      BY BookSide DEF CancelInv, ShapeInv, TypeOK, IsLevels, IsKeyedByPrice
    <3>2. PICK i \in DOMAIN book[side][p] : x = book[side][p][i].id
      BY DEF IdsOf
    <3>3. book[side][p][i] \in Order
      BY <3>1, <3>2
    <3> QED
      BY <3>2, <3>3, OrderFields
  <2> QED
    BY <1>1, <1>2, <1>3, <1>4, <1>5, <2>1, <2>2 DEF Lives
<1>8. SubmittedInv'
  <2> SUFFICES ASSUME NEW u \in Thread, Submitting(u)'
               PROVE  LET q == incoming'[u]
                      IN  /\ placed'[q.id] # NoOrder /\ placed'[q.id].type = q.type
                          /\ placed'[q.id].price = q.price
                          /\ q.id \notin cancelled'
                          /\ \A v \in Thread \ {u} : Submitting(v)' => incoming'[v].id # q.id
    BY DEF SubmittedInv
  <2>1. \A v \in Thread \ {t} : Submitting(v) =>
          /\ incoming[v].id \in OrderId /\ incoming[v].id # id
          /\ placed[incoming[v].id] # NoOrder
    BY <1>4, OrderFields DEF CancelInv, SubmittedInv, ShapeInv, TypeOK
  <2>2. CASE u = t
    <3>1. id \notin cancelled
      BY <1>1 DEF CancelInv, CancelledInv
    <3> QED
      BY <1>1, <1>2, <1>3, <1>6, <2>1, <2>2, <3>1
  <2>3. CASE u # t
    BY <1>1, <1>2, <1>3, <1>5, <2>1, <2>3 DEF CancelInv, SubmittedInv
  <2> QED
    BY <2>2, <2>3
<1>9. MadeInv'
  BY <1>1 DEF CancelInv, MadeInv, ShapeInv, TypeOK
<1>10. CancelledInv'
  BY <1>1, <1>2, <1>4, <1>5 DEF CancelInv, CancelledInv, ShapeInv, TypeOK
<1> QED
  BY <1>7, <1>8, <1>9, <1>10

-----------------------------------------------------------------------------
(* What the steps that move the book leave of a level: queues with the     *)
(* identifiers that were there before.                                     *)
LEMMA RestingType ==
  ASSUME ShapeInv, NEW side \in Side, NEW p \in DOMAIN book[side]
  PROVE  book[side][p] \in Seq(Order) /\ book[side][p] # <<>>
BY BookSide DEF ShapeInv, TypeOK, OnlyOpenOrdersRest, IsLevels, IsKeyedByPrice

LEMMA FewerIds ==
  ASSUME RestingInv, NEW side \in Side, NEW p \in DOMAIN book[side], NEW queue, IsBook(book),
         Distinct(queue), IdsOf(queue) \subseteq IdsOf(book[side][p]),
         book' = [book EXCEPT ![side] = PutLevel(@, p, queue)],
         NEW s \in Side, NEW q \in DOMAIN book'[s]
  PROVE  /\ q \in DOMAIN book[s]
         /\ Distinct(book'[s][q])
         /\ IdsOf(book'[s][q]) \subseteq IdsOf(book[s][q])
         /\ s = side /\ q = p => IdsOf(book'[s][q]) \subseteq IdsOf(queue)
<1>1. CASE s # side
  <2>1. book'[s] = book[s]
    BY <1>1 DEF IsBook
  <2> QED
    BY <1>1, <2>1 DEF RestingInv
<1>2. CASE s = side
  <2>1. book'[s] = PutLevel(book[s], p, queue)
    BY <1>2 DEF IsBook
  <2>2. q \in DOMAIN book[s] /\ book'[s][q] = IF q = p THEN queue ELSE book[s][q]
    <3> HIDE DEF PutLevel
    <3> QED
      BY <1>2, <2>1, PutLevelAt
  <2> QED
    BY <1>2, <2>2 DEF RestingInv
<1> QED
  BY <1>1, <1>2

(* An iteration of the loop makes a trade of an order that rests and one   *)
(* that is being matched, neither of which was cancelled.                  *)
LEMMA MatchStepCancelInv ==
  ASSUME CancelInv, NEW t \in Thread, MatchStep(t)
  PROVE  RestingInv' /\ SubmittedInv' /\ MadeInv' /\ CancelledInv'
<1> DEFINE o == incoming[t]
           side == Opposite(o.type)
<1>1. o \in Order /\ pc[t] = "match" /\ Submitting(t) /\ side \in Side
  <2>1. o \in Order /\ pc[t] = "match" /\ Submitting(t)
    BY DEF MatchStep, CancelInv, ShapeInv, TypeOK, Submitting
  <2> HIDE DEF o
  <2> QED
    BY <2>1, OrderFields DEF Opposite, Side
<1>2. PICK p \in DOMAIN book[side] :
        LET resting == Head(book[side][p])
            n       == MatchQuantity(o, resting)
        IN  /\ Remaining(o) > 0
            /\ made' = [made EXCEPT ![t] = @ \cup {CreateTrade(o, resting, n, p)}]
            /\ incoming' = [incoming EXCEPT ![t] = FilledBy(o, n)]
            /\ book' = [book EXCEPT ![side] = PutLevel(@, p, AfterFill(@[p], n))]
  BY DEF MatchStep
<1> DEFINE queue == book[side][p]
           resting == Head(queue)
           n == MatchQuantity(o, resting)
           tr == CreateTrade(o, resting, n, p)
<1>3. UNCHANGED <<pc, placed, cancelled>>
  BY DEF MatchStep, historyVars
<1>4. queue \in Seq(Order) /\ queue # <<>> /\ Distinct(queue)
  BY <1>1, RestingType DEF CancelInv, RestingInv
<1>5. resting \in Order /\ resting.id \in IdsOf(queue)
  BY <1>4 DEF IdsOf
<1>6. n \in Nat
  <2>1. o.quantity \in Nat /\ o.filled \in Nat /\ resting.quantity \in Nat /\ resting.filled \in Nat
    <3> HIDE DEF o, resting
    <3> QED
      BY <1>1, <1>5, OrderFields
  <2>2. resting.quantity - resting.filled > 0
    <3>1. resting = queue[1] /\ 1 \in DOMAIN queue
      BY <1>4
    <3> QED
      BY <1>1, <3>1 DEF CancelInv, ShapeInv, OnlyOpenOrdersRest, Remaining
  <2>3. o.quantity - o.filled > 0
    BY <1>2 DEF Remaining
  <2> HIDE DEF o, resting
  <2> QED
    BY <2>1, <2>2, <2>3 DEF MatchQuantity, Remaining
<1>7. Lives(resting.id, side, p)
  BY <1>1, <1>5 DEF CancelInv, RestingInv
<1>8. /\ incoming'[t] = FilledBy(o, n)
      /\ incoming'[t].id = o.id /\ incoming'[t].type = o.type /\ incoming'[t].price = o.price
      /\ \A u \in Thread \ {t} : incoming'[u] = incoming[u]
  <2>1. incoming' = [incoming EXCEPT ![t] = FilledBy(o, n)]
    BY <1>2
  <2>2. incoming'[t] = FilledBy(o, n) /\ \A u \in Thread \ {t} : incoming'[u] = incoming[u]
    BY <2>1 DEF CancelInv, ShapeInv, TypeOK
  <2>3. FilledBy(o, n).id = o.id /\ FilledBy(o, n).type = o.type /\ FilledBy(o, n).price = o.price
    <3> HIDE DEF o, n
    <3> QED
      BY <1>1 DEF FilledBy, Order
  <2> QED
    BY <2>2, <2>3
<1>9. \A u \in Thread : (Submitting(u)' <=> Submitting(u)) /\ incoming'[u].id = incoming[u].id
  BY <1>3, <1>8 DEF Submitting
<1>10. RestingInv'
  <2> SUFFICES ASSUME NEW s \in Side, NEW q \in DOMAIN book'[s]
               PROVE  Distinct(book'[s][q]) /\ \A id \in IdsOf(book'[s][q]) : Lives(id, s, q)'
    BY DEF RestingInv
  <2>1. Distinct(AfterFill(queue, n)) /\ IdsOf(AfterFill(queue, n)) \subseteq IdsOf(queue)
    <3> HIDE DEF queue, n
    <3> QED
      BY <1>4, <1>6, AfterFillIds
  <2>2. book' = [book EXCEPT ![side] = PutLevel(@, p, AfterFill(queue, n))]
    BY <1>2
  <2>3. q \in DOMAIN book[s] /\ Distinct(book'[s][q]) /\ IdsOf(book'[s][q]) \subseteq IdsOf(book[s][q])
    <3> DEFINE after == AfterFill(queue, n)
    <3>1. book' = [book EXCEPT ![side] = PutLevel(@, p, after)]
      BY <2>2
    <3> HIDE DEF after, side
    <3> QED
      BY <1>1, <2>1, <3>1, FewerIds DEF CancelInv, ShapeInv, TypeOK, after
  <2>4. \A id \in IdsOf(book[s][q]) : Lives(id, s, q)
    BY <2>3 DEF CancelInv, RestingInv
  <2> QED
    BY <1>3, <1>9, <2>3, <2>4 DEF Lives
<1>11. SubmittedInv'
  <2> SUFFICES ASSUME NEW u \in Thread, Submitting(u)'
               PROVE  LET q == incoming'[u]
                      IN  /\ placed'[q.id] # NoOrder /\ placed'[q.id].type = q.type
                          /\ placed'[q.id].price = q.price
                          /\ q.id \notin cancelled'
                          /\ \A v \in Thread \ {u} : Submitting(v)' => incoming'[v].id # q.id
    BY DEF SubmittedInv
  <2>1. /\ incoming'[u].id = incoming[u].id /\ incoming'[u].type = incoming[u].type
        /\ incoming'[u].price = incoming[u].price
    <3> HIDE DEF n
    <3> QED
      BY <1>8
  <2> QED
    BY <1>3, <1>9, <2>1 DEF CancelInv, SubmittedInv
<1>12. MadeInv'
  <2>1. tr.buy \in {o.id, resting.id} /\ tr.sell \in {o.id, resting.id}
    BY DEF CreateTrade
  <2>2. o.id \notin cancelled /\ resting.id \notin cancelled
    BY <1>1, <1>7 DEF CancelInv, SubmittedInv, Lives
  <2>3. made' = [made EXCEPT ![t] = @ \cup {tr}]
    BY <1>2
  <2>4. /\ made'[t] = made[t] \cup {tr}
        /\ \A u \in Thread \ {t} : made'[u] = made[u]
    <3> HIDE DEF tr
    <3> QED
      BY <2>3 DEF CancelInv, ShapeInv, TypeOK
  <2> HIDE DEF tr, o, resting
  <2> QED
    BY <1>1, <1>3, <2>1, <2>2, <2>4 DEF CancelInv, MadeInv
<1>13. CancelledInv'
  BY <1>3 DEF CancelInv, CancelledInv
<1> QED
  BY <1>10, <1>11, <1>12, <1>13

(* An order comes to rest under an identifier that nothing in the book     *)
(* has, for it was its own while it was matched.                           *)
LEMMA RestCancelInv ==
  ASSUME CancelInv, NEW t \in Thread, Rest(t)
  PROVE  RestingInv' /\ SubmittedInv' /\ MadeInv' /\ CancelledInv'
<1> DEFINE o == incoming[t]
<1>1. /\ pc[t] = "rest" /\ pc' = [pc EXCEPT ![t] = "idle"]
      /\ incoming' = [incoming EXCEPT ![t] = NoOrder]
      /\ made' = [made EXCEPT ![t] = {}]
      /\ book' = AfterRest(o)
      /\ UNCHANGED <<placed, cancelled>>
  BY DEF Rest, Goto
<1>2. o \in Order /\ Submitting(t) /\ ~Submitting(t)'
  BY <1>1 DEF CancelInv, ShapeInv, TypeOK, Submitting
<1>3. \A u \in Thread \ {t} : (Submitting(u)' <=> Submitting(u)) /\ incoming'[u] = incoming[u]
  BY <1>1 DEF CancelInv, ShapeInv, TypeOK, Submitting
<1>4. /\ placed[o.id] # NoOrder /\ placed[o.id].type = o.type /\ placed[o.id].price = o.price
      /\ o.id \notin cancelled
      /\ \A u \in Thread \ {t} : Submitting(u) => incoming[u].id # o.id
  BY <1>2 DEF CancelInv, SubmittedInv
<1>5. ASSUME NEW id, NEW s, NEW q, id = o.id, s = o.type, q = o.price
      PROVE  Lives(id, s, q)'
  BY <1>1, <1>2, <1>3, <1>4, <1>5 DEF Lives
<1>6. ASSUME NEW id, NEW s, NEW q, Lives(id, s, q)
      PROVE  Lives(id, s, q)' /\ id # o.id
  BY <1>1, <1>2, <1>3, <1>6 DEF Lives
<1>7. RestingInv'
  <2> SUFFICES ASSUME NEW s \in Side, NEW q \in DOMAIN book'[s]
               PROVE  Distinct(book'[s][q]) /\ \A id \in IdsOf(book'[s][q]) : Lives(id, s, q)'
    BY DEF RestingInv
  <2>1. CASE q \in DOMAIN book[s] /\ book'[s][q] = book[s][q]
    BY <1>6, <2>1 DEF CancelInv, RestingInv
  <2>2. CASE ~(q \in DOMAIN book[s] /\ book'[s][q] = book[s][q])
    <3>1. book' # book
      BY <2>2
    <3>2. book' = [book EXCEPT ![o.type] = PushBack(book[o.type], o)] /\ o.type \in Side
      BY <1>1, <1>2, <3>1, OrderFields DEF AfterRest, AddOrder
    <3>3. s = o.type /\ book'[s] = PushBack(book[s], o)
      <4> HIDE DEF o
      <4> QED
        BY <2>2, <3>2 DEF CancelInv, ShapeInv, TypeOK, IsBook
    <3>4. q = o.price
      <4> HIDE DEF o
      <4> QED
        BY <2>2, <3>3 DEF PushBack
    <3>5. CASE q \notin DOMAIN book[s]
      <4>1. book'[s][q] = <<o>>
        <5> HIDE DEF o
        <5> QED
          BY <3>3, <3>4, <3>5 DEF PushBack
      <4>2. Distinct(<<o>>) /\ IdsOf(<<o>>) = {o.id}
        <5> HIDE DEF o
        <5> QED
          BY DEF Distinct, IdsOf
      <4> QED
        BY <1>5, <3>3, <3>4, <4>1, <4>2
    <3>6. CASE q \in DOMAIN book[s]
      <4> DEFINE queue == book[s][q]
      <4>1. book'[s][q] = Append(queue, o)
        <5> HIDE DEF o
        <5> QED
          BY <3>3, <3>4, <3>6 DEF PushBack
      <4>2. queue \in Seq(Order) /\ Distinct(queue) /\ \A id \in IdsOf(queue) : Lives(id, s, q)
        BY <3>6, RestingType DEF CancelInv, RestingInv
      <4>3. o.id \notin IdsOf(queue)
        BY <1>6, <4>2
      <4>4. Distinct(Append(queue, o)) /\ IdsOf(Append(queue, o)) \subseteq IdsOf(queue) \cup {o.id}
        <5> HIDE DEF queue, o
        <5>1. \A i \in DOMAIN Append(queue, o) :
                \/ i \in DOMAIN queue /\ Append(queue, o)[i] = queue[i]
                \/ i = Len(queue) + 1 /\ Append(queue, o)[i] = o
          BY <1>2, <4>2 DEF o
        <5>2. \A i \in DOMAIN queue : queue[i].id # o.id
          BY <4>3 DEF IdsOf
        <5>3. Distinct(Append(queue, o))
          BY <4>2, <5>1, <5>2 DEF Distinct
        <5> QED
          BY <5>1, <5>3 DEF IdsOf
      <4> QED
        BY <1>5, <1>6, <3>3, <3>4, <4>1, <4>2, <4>4
    <3> QED
      BY <3>5, <3>6
  <2> QED
    BY <2>1, <2>2
<1>8. SubmittedInv'
  BY <1>1, <1>2, <1>3 DEF CancelInv, SubmittedInv
<1>9. MadeInv'
  BY <1>1 DEF CancelInv, MadeInv, ShapeInv, TypeOK
<1>10. CancelledInv'
  BY <1>1 DEF CancelInv, CancelledInv
<1> QED
  BY <1>7, <1>8, <1>9, <1>10

(* cancel_order finds the only order with the identifier, and while it     *)
(* holds the lock no trade is in the making.                               *)
LEMMA CancelFoundCancelInv ==
  ASSUME CancelInv, NEW t \in Thread, CancelFound(t)
  PROVE  RestingInv' /\ SubmittedInv' /\ MadeInv' /\ CancelledInv'
<1>1. PICK side \in Side : \E p \in DOMAIN book[side] : \E k \in DOMAIN book[side][p] :
        /\ Holds(book[side], p, k, target[t])
        /\ LeaveCancel(t, [book EXCEPT ![side] = PutLevel(@, p, EraseAt(@[p], k))], {target[t]})
  BY DEF CancelFound
<1>2. PICK p \in DOMAIN book[side] : \E k \in DOMAIN book[side][p] :
        /\ Holds(book[side], p, k, target[t])
        /\ LeaveCancel(t, [book EXCEPT ![side] = PutLevel(@, p, EraseAt(@[p], k))], {target[t]})
  BY <1>1
<1>3. PICK k \in DOMAIN book[side][p] :
        /\ Holds(book[side], p, k, target[t])
        /\ LeaveCancel(t, [book EXCEPT ![side] = PutLevel(@, p, EraseAt(@[p], k))], {target[t]})
  BY <1>2
<1> DEFINE gone == target[t]
           queue == book[side][p]
           after == EraseAt(queue, k)
<1>4. /\ pc[t] = "cancel" /\ pc' = [pc EXCEPT ![t] = "idle"]
      /\ book' = [book EXCEPT ![side] = PutLevel(@, p, after)]
      /\ cancelled' = cancelled \cup {gone}
      /\ UNCHANGED <<placed, incoming, made>>
  BY <1>3 DEF LeaveCancel, Goto
<1>5. \A u \in Thread : Submitting(u)' <=> Submitting(u)
  BY <1>4 DEF CancelInv, ShapeInv, TypeOK, Submitting
<1>6. queue \in Seq(Order) /\ Distinct(queue) /\ queue[k].id = gone /\ gone \in IdsOf(queue)
  BY <1>3, RestingType DEF CancelInv, RestingInv, Holds, IdsOf
<1>7. Lives(gone, side, p)
  BY <1>6 DEF CancelInv, RestingInv
<1>8. Distinct(after) /\ IdsOf(after) \subseteq IdsOf(queue) \ {gone}
  <2> HIDE DEF queue, gone
  <2> QED
    BY <1>3, <1>6, EraseAtIds DEF queue
<1>9. RestingInv'
  <2> SUFFICES ASSUME NEW s \in Side, NEW q \in DOMAIN book'[s]
               PROVE  Distinct(book'[s][q]) /\ \A id \in IdsOf(book'[s][q]) : Lives(id, s, q)'
    BY DEF RestingInv
  <2>1. /\ q \in DOMAIN book[s] /\ Distinct(book'[s][q])
        /\ IdsOf(book'[s][q]) \subseteq IdsOf(book[s][q])
        /\ s = side /\ q = p => IdsOf(book'[s][q]) \subseteq IdsOf(after)
    <3> HIDE DEF after
    <3> QED
      BY <1>4, <1>8, FewerIds, ZenonT(60) DEF CancelInv, ShapeInv, TypeOK
  <2> SUFFICES ASSUME NEW id \in IdsOf(book'[s][q])
               PROVE  Lives(id, s, q)'
    BY <2>1
  <2>2. Lives(id, s, q)
    BY <2>1 DEF CancelInv, RestingInv
  <2>3. id # gone
    <3> SUFFICES ASSUME id = gone PROVE FALSE
      OBVIOUS
    <3>1. s = side /\ q = p
      BY <1>7, <2>2 DEF Lives
    <3> QED
      BY <1>8, <2>1, <3>1
  <2> HIDE DEF gone
  <2> QED
    BY <1>4, <1>5, <2>2, <2>3 DEF Lives
<1>10. SubmittedInv'
  <2>1. \A u \in Thread : Submitting(u) => incoming[u].id # gone
    BY <1>7 DEF Lives
  <2> HIDE DEF gone
  <2> QED
    BY <1>4, <1>5, <2>1 DEF CancelInv, SubmittedInv
<1>11. MadeInv'
  <2>1. \A u \in Thread : made[u] = {}
    <3>1. writer = t
      BY <1>4 DEF CancelInv, ShapeInv, Exclusion
    <3>2. \A u \in Thread : pc[u] \notin {"match", "rest"}
      BY <1>4, <3>1 DEF CancelInv, ShapeInv, Exclusion
    <3> QED
      BY <3>2 DEF CancelInv, MadeInv
  <2> QED
    BY <1>4, <2>1 DEF MadeInv
<1>12. CancelledInv'
  <2>1. placed[gone] # NoOrder
    BY <1>7 DEF Lives
  <2> HIDE DEF gone
  <2> QED
    BY <1>4, <2>1 DEF CancelInv, CancelledInv
<1> QED
  BY <1>9, <1>10, <1>11, <1>12

-----------------------------------------------------------------------------
LEMMA CancelNext == CancelInv /\ [Next]_vars => CancelInv'
<1> SUFFICES ASSUME CancelInv, [Next]_vars PROVE CancelInv'
  OBVIOUS
<1>1. ShapeInv'
  BY ShapeStep DEF CancelInv
<1>2. ASSUME NEW t \in Thread, Call(t) \/ Step(t)
      PROVE  RestingInv' /\ SubmittedInv' /\ MadeInv' /\ CancelledInv'
  <2>1. ShapeInv
    BY DEF CancelInv
  <2> QED
    BY <1>2, <2>1, QuietSteps, QuietCancelInv, CallMatchCancelInv, MatchStepCancelInv,
       RestCancelInv, CancelFoundCancelInv
<1>3. CASE UNCHANGED vars
  <2>1. Quiet
    BY <1>3 DEF vars, Quiet, Submitting
  <2> QED
    BY <1>1, <2>1, QuietCancelInv DEF CancelInv
<1> QED
  BY <1>1, <1>2, <1>3 DEF Next, CancelInv

LEMMA StepKeepsCancelled ==
  CancelInv /\ [Next]_vars => [\A id \in cancelled : TradesOf(tape', id) = TradesOf(tape, id)]_vars
<1> SUFFICES ASSUME CancelInv, NEW t \in Thread, Call(t) \/ Step(t), NEW id \in cancelled
             PROVE  TradesOf(tape', id) = TradesOf(tape, id)
  BY DEF Next
<1>1. CASE tape' = tape
  BY <1>1
<1>2. CASE Rest(t)
  <2>1. tape' = tape \cup made[t] /\ \A tr \in made[t] : id \notin {tr.buy, tr.sell}
    BY <1>2 DEF Rest, CancelInv, MadeInv
  <2> QED
    BY <2>1 DEF TradesOf
<1>3. tape' = tape \/ Rest(t)
  BY QuietSteps
     DEF CancelInv, Quiet, CallMatch, MatchStep, CancelFound, LeaveCancel, historyVars
<1> QED
  BY <1>1, <1>2, <1>3

(* Once cancel_order has returned true the order never trades again,       *)
(* however many threads were matching when it was called.                  *)
THEOREM CancellationIsFinal == Spec => CancelIsFinal
  BY CancelInit, CancelNext, StepKeepsCancelled, PTL DEF Spec, CancelIsFinal

-----------------------------------------------------------------------------
(* Quantity is a sum over the trades.                                      *)
LEMMA QuantityIsSum ==
  ASSUME NEW S, IsFiniteSet(S), S \subseteq Trade
  PROVE  Quantity(S) = SumIn([tr \in S |-> tr.quantity], S)
<1> DEFINE F == [tr \in S |-> tr.quantity]
           Adds(f) == f = [s \in SUBSET S |-> IF s = {} THEN 0
                             ELSE LET x == CHOOSE x \in s : TRUE IN x.quantity + f[s \ {x}]]
           f == CHOOSE f : Adds(f)
           P == {s \in SUBSET S : f[s] \in Int}
<1>1. F \in [S -> Int] /\ \A x \in S : F[x] = x.quantity
  BY DEF Trade
<1>2. Quantity(S) = f[S]
  BY DEF Quantity, MapThenSumSet, MapThenFoldSet
<1>3. ASSUME NEW s \in SUBSET S, s # {} PROVE (CHOOSE x \in s : TRUE) \in S
  BY <1>3
<1>4. ASSUME NEW g PROVE Adds(g) <=> SumsUp(g, F, S)
  BY <1>1, <1>3 DEF SumsUp
<1>5. PICK g : SumsUp(g, F, S)
  <2> HIDE DEF F
  <2> QED
    BY <1>1, SumExists
<1>6. SumsUp(f, F, S)
  <2>1. Adds(g)
    BY <1>4, <1>5
  <2>2. Adds(f)
    <3> HIDE DEF Adds
    <3> QED
      BY <2>1 DEF f
  <2> HIDE DEF Adds, f, F
  <2> QED
    BY <1>4, <2>2
<1> HIDE DEF f, F
<1>7. {} \in P
  BY <1>6 DEF SumsUp
<1>8. ASSUME NEW s \in SUBSET S, s # {}, s \ {AnyOf(s)} \in P
      PROVE  s \in P
  <2>1. f[s] = F[AnyOf(s)] + f[s \ {AnyOf(s)}] /\ AnyOf(s) \in s
    BY <1>6, <1>8 DEF SumsUp, AnyOf
  <2> QED
    BY <1>1, <1>8, <2>1
<1>9. SUBSET S \subseteq P
  <2> HIDE DEF P
  <2> QED
    BY <1>7, <1>8, SubsetInduction
<1>10. f \in [SUBSET S -> Int]
  BY <1>6, <1>9 DEF SumsUp
<1>11. SumIn(F, S) = f[S]
  BY <1>1, <1>6, <1>10, SumInIsSum
<1> QED
  BY <1>2, <1>11 DEF F

(* A trade that was not among them adds its quantity.                      *)
LEMMA QuantityAdds ==
  ASSUME NEW S, IsFiniteSet(S), S \subseteq Trade, NEW tr \in Trade, tr \notin S
  PROVE  /\ Quantity(S) \in Nat
         /\ Quantity(S \cup {tr}) = Quantity(S) + tr.quantity
<1> DEFINE T == S \cup {tr}
           F == [x \in S |-> x.quantity]
           G == [x \in T |-> x.quantity]
<1>1. F \in [S -> Nat] /\ G \in [T -> Int] /\ G[tr] = tr.quantity /\ \A x \in S : G[x] = F[x]
  BY DEF Trade
<1>2. IsFiniteSet(T) /\ T \subseteq Trade /\ T \ {tr} = S /\ tr \in T /\ S \in SUBSET T
  BY FS_AddElement
<1>3. Quantity(S) = SumIn(F, S) /\ Quantity(T) = SumIn(G, T)
  <2> HIDE DEF T
  <2> QED
    BY <1>2, QuantityIsSum
<1> HIDE DEF F, G
<1>4. SumIn(F, S) \in Nat
  BY <1>1, SumGrows
<1>5. SumIn(G, S) = SumIn(F, S)
  <2>1. [x \in S |-> G[x]] = [x \in S |-> F[x]]
    BY <1>1
  <2> QED
    BY <2>1 DEF SumIn
<1>6. SumIn(G, T) = G[tr] + SumIn(G, T \ {tr})
  <2> HIDE DEF T
  <2> QED
    BY <1>1, <1>2, SumParts
<1>7. G[tr] \in Nat
  BY <1>1 DEF Trade
<1>8. SumIn(G, T) = G[tr] + SumIn(F, S)
  BY <1>2, <1>5, <1>6
<1> HIDE DEF T
<1>9. Quantity(T) = Quantity(S) + tr.quantity
  BY <1>1, <1>3, <1>4, <1>7, <1>8
<1> QED
  BY <1>3, <1>4, <1>9 DEF T

LEMMA QuantityOfNone == Quantity({}) = 0
<1>1. IsFiniteSet({})
  BY FS_EmptySet
<1>2. Quantity({}) = SumIn([tr \in {} |-> tr.quantity], {})
  BY <1>1, QuantityIsSum
<1> DEFINE F == [tr \in {} |-> tr.quantity]
<1>3. F \in [{} -> Int]
  OBVIOUS
<1>4. SumIn(F, {}) = 0
  <2> HIDE DEF F
  <2> QED
    BY <1>1, <1>3, SumParts
<1> QED
  BY <1>2, <1>4

LEMMA AfterFillOrders ==
  ASSUME NEW queue \in Seq(Order), queue # <<>>, NEW n \in Nat, Distinct(queue),
         NEW k \in DOMAIN AfterFill(queue, n)
  PROVE  \/ AfterFill(queue, n)[k] = FilledBy(Head(queue), n)
         \/ \E j \in DOMAIN queue :
              AfterFill(queue, n)[k] = queue[j] /\ queue[j].id # Head(queue).id
<1> DEFINE front == FilledBy(Head(queue), n)
<1>1. Head(queue) = queue[1] /\ 1 \in DOMAIN queue /\ queue[1] \in Order
  OBVIOUS
<1>2. \A j \in DOMAIN queue : j # 1 => queue[j].id # Head(queue).id
  BY <1>1 DEF Distinct
<1>3. CASE IsFilled(front)
  <2>1. AfterFill(queue, n) = Tail(queue)
    BY <1>3 DEF AfterFill
  <2>2. \A i \in DOMAIN Tail(queue) :
          i + 1 # 1 /\ i + 1 \in DOMAIN queue /\ Tail(queue)[i] = queue[i + 1]
    OBVIOUS
  <2> QED
    BY <1>2, <2>1, <2>2
<1>4. CASE ~IsFilled(front)
  <2>1. AfterFill(queue, n) = [queue EXCEPT ![1] = front]
    BY <1>4 DEF AfterFill
  <2> HIDE DEF front
  <2>2. k \in DOMAIN queue /\ AfterFill(queue, n)[k] = IF k = 1 THEN front ELSE queue[k]
    BY <1>1, <2>1
  <2> QED
    BY <1>2, <2>2 DEF front
<1> QED
  BY <1>3, <1>4

-----------------------------------------------------------------------------
(* FillsAreTrades: what rests or is being matched is what was placed, and  *)
(* its fills are its trades.  No two orders trade twice with one another,  *)
(* for one of them has nothing left after they have: so no trade is lost   *)
(* in the set of all trades for being made a second time.                  *)
All == tape \cup UNION {made[t] : t \in Thread}

Traded(id) == Quantity(TradesOf(All, id))

IsPlaced(id) == id \in OrderId /\ placed[id] # NoOrder

Counted(o) == placed[o.id].quantity = o.quantity /\ o.filled = Traded(o.id)

Complete(id) == Traded(id) = placed[id].quantity

RestingCounted ==
  \A side \in Side : \A p \in DOMAIN book[side] : \A k \in DOMAIN book[side][p] :
    Counted(book[side][p][k])

SubmittedCounted == \A t \in Thread : Submitting(t) => Counted(incoming[t])

AllInv ==
  /\ IsFiniteSet(All)
  /\ \A tr \in All : IsPlaced(tr.buy) /\ IsPlaced(tr.sell)
  /\ \A tr \in All : Complete(tr.buy) \/ Complete(tr.sell)

WithinQuantity == \A id \in OrderId : placed[id] # NoOrder => Traded(id) <= placed[id].quantity

FillsInv == CancelInv /\ RestingCounted /\ SubmittedCounted /\ AllInv /\ WithinQuantity

LEMMA AllTrades == TypeOK => All \subseteq Trade
BY DEF TypeOK, All

LEMMA TradedIsNat ==
  ASSUME TypeOK, IsFiniteSet(All), NEW id
  PROVE  /\ Traded(id) \in Nat
         /\ \A tr \in Trade : tr \notin All /\ id \in {tr.buy, tr.sell} =>
              Quantity(TradesOf(All \cup {tr}, id)) = Traded(id) + tr.quantity
         /\ \A tr \in Trade : id \notin {tr.buy, tr.sell} =>
              Quantity(TradesOf(All \cup {tr}, id)) = Traded(id)
<1> DEFINE S == TradesOf(All, id)
<1>1. IsFiniteSet(S) /\ S \subseteq Trade
  <2>1. S \subseteq All
    BY DEF TradesOf
  <2> QED
    BY <2>1, AllTrades, FS_Subset
<1>2. \A tr \in Trade : tr \notin S => Quantity(S) \in Nat /\ Quantity(S \cup {tr}) = Quantity(S) + tr.quantity
  <2> HIDE DEF S
  <2> QED
    BY <1>1, QuantityAdds
<1>3. Quantity(S) \in Nat
  <2>1. CASE S = {}
    BY <2>1, QuantityOfNone
  <2>2. CASE S # {}
    <3>1. PICK x \in S : TRUE
      BY <2>2
    <3> DEFINE R == S \ {x}
    <3>2. IsFiniteSet(R) /\ R \subseteq Trade /\ x \in Trade /\ x \notin R /\ R \cup {x} = S
      <4>1. R \subseteq S
        OBVIOUS
      <4> QED
        BY <1>1, <3>1, <4>1, FS_Subset
    <3> HIDE DEF R, S
    <3>3. Quantity(R) \in Nat /\ Quantity(R \cup {x}) = Quantity(R) + x.quantity
      BY <3>2, QuantityAdds
    <3>4. x.quantity \in Nat
      BY <3>2 DEF Trade
    <3>5. Quantity(S) = Quantity(R) + x.quantity
      BY <3>2, <3>3
    <3> QED
      BY <3>3, <3>4, <3>5
  <2> QED
    BY <2>1, <2>2
<1>4. ASSUME NEW tr \in Trade, tr \notin All, id \in {tr.buy, tr.sell}
      PROVE  Quantity(TradesOf(All \cup {tr}, id)) = Quantity(S) + tr.quantity
  <2>1. TradesOf(All \cup {tr}, id) = S \cup {tr} /\ tr \notin S
    BY <1>4 DEF TradesOf
  <2> HIDE DEF S
  <2> QED
    BY <1>2, <2>1
<1>5. ASSUME NEW tr \in Trade, id \notin {tr.buy, tr.sell}
      PROVE  TradesOf(All \cup {tr}, id) = S
  BY <1>5 DEF TradesOf
<1> QED
  BY <1>3, <1>4, <1>5 DEF Traded

LEMMA FillsInit == Init => FillsInv
<1> SUFFICES ASSUME Init PROVE FillsInv
  OBVIOUS
<1>1. All = {}
  BY DEF Init, All
<1>2. AllInv
  BY <1>1, FS_EmptySet DEF AllInv
<1>3. RestingCounted /\ SubmittedCounted /\ WithinQuantity
  BY DEF Init, EmptyBook, RestingCounted, SubmittedCounted, Submitting, WithinQuantity
<1> QED
  BY <1>2, <1>3, CancelInit DEF FillsInv

LEMMA QuietFillsInv ==
  ASSUME FillsInv, Quiet
  PROVE  RestingCounted' /\ SubmittedCounted' /\ AllInv' /\ WithinQuantity'
<1>1. All' = All /\ placed' = placed
  BY DEF Quiet, All
<1>2. \A id : Traded(id)' = Traded(id) /\ (Complete(id)' <=> Complete(id))
  BY <1>1 DEF Traded, Complete
<1>3. \A o : Counted(o)' <=> Counted(o)
  BY <1>1, <1>2 DEF Counted
<1>4. RestingCounted' /\ SubmittedCounted'
  BY <1>3 DEF FillsInv, Quiet, RestingCounted, SubmittedCounted
<1>5. AllInv'
  BY <1>1, <1>2 DEF FillsInv, AllInv, IsPlaced
<1>6. WithinQuantity'
  BY <1>1, <1>2 DEF FillsInv, WithinQuantity
<1> QED
  BY <1>4, <1>5, <1>6

(* Nothing was traded under an identifier that was not placed.             *)
LEMMA UnplacedUntraded ==
  ASSUME AllInv, NEW id, placed[id] = NoOrder
  PROVE  Traded(id) = 0
<1>1. TradesOf(All, id) = {}
  BY DEF TradesOf, AllInv, IsPlaced
<1> QED
  BY <1>1, QuantityOfNone DEF Traded

(* An order in the book has an identifier that lives at its place.         *)
LEMMA RestingLives ==
  ASSUME CancelInv, NEW side \in Side, NEW p \in DOMAIN book[side], NEW k \in DOMAIN book[side][p]
  PROVE  /\ book[side][p][k] \in Order
         /\ book[side][p][k].id \in OrderId
         /\ Lives(book[side][p][k].id, side, p)
<1>1. book[side][p] \in Seq(Order)
  BY RestingType DEF CancelInv
<1>2. book[side][p][k] \in Order
  BY <1>1
<1>3. book[side][p][k].id \in IdsOf(book[side][p])
  BY DEF IdsOf
<1> QED
  BY <1>2, <1>3, OrderFields DEF CancelInv, RestingInv

LEMMA CallMatchFillsInv ==
  ASSUME FillsInv, NEW t \in Thread, NEW id \in OrderId, NEW r \in Requests, CallMatch(t, id, r)
  PROVE  RestingCounted' /\ SubmittedCounted' /\ AllInv' /\ WithinQuantity'
<1> DEFINE o == NewOrder(id, r)
<1>1. /\ pc[t] = "idle" /\ pc' = [pc EXCEPT ![t] = "match_wait"]
      /\ placed[id] = NoOrder
      /\ placed' = [placed EXCEPT ![id] = o]
      /\ incoming' = [incoming EXCEPT ![t] = o]
      /\ UNCHANGED <<book, made, tape>>
  BY DEF CallMatch, Goto, historyVars
<1>2. o \in Order /\ o # NoOrder /\ o.id = id /\ o.filled = 0
  BY NewOrderType, NoOrderAssumption DEF NewOrder
<1> HIDE DEF o
<1>3. /\ \A u \in Thread \ {t} : Submitting(u)' = Submitting(u) /\ incoming'[u] = incoming[u]
      /\ Submitting(t)' /\ incoming'[t] = o
  BY <1>1 DEF FillsInv, CancelInv, ShapeInv, TypeOK, Submitting
<1>4. /\ \A x \in OrderId : x # id => placed'[x] = placed[x]
      /\ placed'[id] = o
  BY <1>1 DEF FillsInv, CancelInv, ShapeInv, TypeOK
<1>5. All' = All
  BY <1>1 DEF All
<1>6. \A x : Traded(x)' = Traded(x)
  BY <1>5 DEF Traded
<1>7. Traded(id) = 0
  BY <1>1, UnplacedUntraded DEF FillsInv
<1>8. \A q : q.id \in OrderId /\ q.id # id /\ Counted(q) => Counted(q)'
  BY <1>4, <1>6 DEF Counted
<1>9. RestingCounted'
  <2> SUFFICES ASSUME NEW s \in Side, NEW p \in DOMAIN book[s], NEW k \in DOMAIN book[s][p]
               PROVE  Counted(book[s][p][k])'
    BY <1>1 DEF RestingCounted
  <2> DEFINE q == book[s][p][k]
  <2>1. q.id \in OrderId /\ Lives(q.id, s, p) /\ Counted(q)
    BY RestingLives DEF FillsInv, RestingCounted
  <2>2. q.id # id
    BY <1>1, <2>1 DEF Lives
  <2>3. Counted(q)'
    <3>1. Counted(q) <=> placed[q.id].quantity = q.quantity /\ q.filled = Traded(q.id)
      BY DEF Counted
    <3>2. Counted(book[s][p][k])' <=> placed'[q.id].quantity = q.quantity /\ q.filled = Traded(q.id)
      BY <1>1, <1>6 DEF Counted
    <3> QED
      BY <1>4, <2>1, <2>2, <3>1, <3>2
  <2> QED
    BY <2>3
<1>10. SubmittedCounted'
  <2> SUFFICES ASSUME NEW u \in Thread, Submitting(u)'
               PROVE  Counted(incoming[u])'
    BY DEF SubmittedCounted
  <2>1. CASE u = t
    <3>1. o.quantity = o.quantity /\ o.filled = Traded(id)
      BY <1>2, <1>7
    <3> QED
      BY <1>2, <1>3, <1>4, <1>6, <2>1, <3>1 DEF Counted
  <2>2. CASE u # t
    <3> DEFINE q == incoming[u]
    <3>1. incoming'[u] = q /\ Submitting(u)
      BY <1>3, <2>2
    <3>2. q \in Order /\ placed[q.id] # NoOrder /\ Counted(q)
      BY <3>1 DEF FillsInv, CancelInv, ShapeInv, TypeOK, SubmittedInv, SubmittedCounted
    <3>3. q.id \in OrderId /\ q.id # id
      BY <1>1, <3>2, OrderFields
    <3>4. Counted(q) <=> placed[q.id].quantity = q.quantity /\ q.filled = Traded(q.id)
      BY DEF Counted
    <3>5. Counted(incoming[u])' <=> placed'[q.id].quantity = q.quantity /\ q.filled = Traded(q.id)
      BY <1>6, <3>1 DEF Counted
    <3> QED
      BY <1>4, <3>2, <3>3, <3>4, <3>5
  <2> QED
    BY <2>1, <2>2
<1>11. \A x : IsPlaced(x) => IsPlaced(x)' /\ x # id /\ (Complete(x) => Complete(x)')
  BY <1>1, <1>4, <1>6 DEF IsPlaced, Complete
<1>12. AllInv'
  BY <1>5, <1>11 DEF FillsInv, AllInv
<1>13. WithinQuantity'
  <2>1. o.quantity \in Nat
    BY <1>2, OrderFields
  <2> QED
    BY <1>4, <1>6, <1>7, <2>1 DEF FillsInv, WithinQuantity
<1> QED
  BY <1>9, <1>10, <1>12, <1>13

(* The trade an iteration makes was not made before, for both its orders   *)
(* had something left.                                                     *)
LEMMA MatchStepFillsInv ==
  ASSUME FillsInv, NEW t \in Thread, MatchStep(t)
  PROVE  RestingCounted' /\ SubmittedCounted' /\ AllInv' /\ WithinQuantity'
<1>0. PICK o : o = incoming[t]
  OBVIOUS
<1> DEFINE side == Opposite(o.type)
<1>1. o \in Order /\ pc[t] = "match" /\ Submitting(t) /\ side \in Side
  <2>1. o \in Order /\ pc[t] = "match" /\ Submitting(t)
    BY <1>0 DEF MatchStep, FillsInv, CancelInv, ShapeInv, TypeOK, Submitting
  <2> QED
    BY <2>1, OrderFields DEF Opposite, Side
<1>2. PICK p \in DOMAIN book[side] :
        LET resting == Head(book[side][p])
            n       == MatchQuantity(o, resting)
        IN  /\ Remaining(o) > 0
            /\ made' = [made EXCEPT ![t] = @ \cup {CreateTrade(o, resting, n, p)}]
            /\ incoming' = [incoming EXCEPT ![t] = FilledBy(o, n)]
            /\ book' = [book EXCEPT ![side] = PutLevel(@, p, AfterFill(@[p], n))]
  BY <1>0 DEF MatchStep
<1>a. PICK queue : queue = book[side][p]
  OBVIOUS
<1>b. PICK resting : resting = Head(queue)
  OBVIOUS
<1> DEFINE n == MatchQuantity(o, resting)
           tr == CreateTrade(o, resting, n, p)
           a == o.id
           b == resting.id
<1>3. UNCHANGED <<pc, placed, cancelled, tape>>
  BY DEF MatchStep, historyVars
<1>4. queue \in Seq(Order) /\ queue # <<>> /\ Distinct(queue)
  BY <1>1, <1>a, RestingType DEF FillsInv, CancelInv, RestingInv
<1>5. resting = queue[1] /\ resting = book[side][p][1] /\ 1 \in DOMAIN book[side][p]
  BY <1>4, <1>a, <1>b
<1>6. /\ resting \in Order /\ b \in OrderId /\ Lives(b, side, p)
      /\ Counted(resting) /\ Remaining(resting) > 0
  <2>1. resting \in Order /\ b \in OrderId /\ Lives(b, side, p)
    BY <1>1, <1>5, RestingLives DEF FillsInv
  <2>2. Counted(resting)
    BY <1>1, <1>5 DEF FillsInv, RestingCounted
  <2>3. Remaining(resting) > 0
    BY <1>1, <1>5 DEF FillsInv, CancelInv, ShapeInv, OnlyOpenOrdersRest
  <2> QED
    BY <2>1, <2>2, <2>3
<1>7. /\ Counted(o) /\ a \in OrderId /\ placed[a] # NoOrder /\ Remaining(o) > 0
      /\ \A u \in Thread \ {t} : Submitting(u) => incoming[u].id # a
  BY <1>0, <1>1, <1>2, OrderFields DEF FillsInv, SubmittedCounted, CancelInv, SubmittedInv
<1>8. /\ o.quantity \in Nat /\ o.filled \in Nat
      /\ resting.quantity \in Nat /\ resting.filled \in Nat
  BY <1>1, <1>6, OrderFields
<1>9. /\ n \in Nat /\ n > 0
      /\ o.filled + n <= o.quantity /\ resting.filled + n <= resting.quantity
      /\ o.filled + n = o.quantity \/ resting.filled + n = resting.quantity
  <2> QED
    BY <1>6, <1>7, <1>8 DEF MatchQuantity, Remaining
<1>10. /\ o.filled = Traded(a) /\ placed[a].quantity = o.quantity
       /\ resting.filled = Traded(b) /\ placed[b].quantity = resting.quantity
  BY <1>6, <1>7 DEF Counted
<1>11. /\ tr \in Trade /\ {tr.buy, tr.sell} = {a, b} /\ tr.quantity = n
  <2>1. p \in Price
    BY <1>1, BookSide DEF FillsInv, CancelInv, ShapeInv, TypeOK, IsLevels, IsKeyedByPrice
  <2> HIDE DEF n
  <2> QED
    BY <1>6, <1>7, <1>9, <2>1 DEF CreateTrade, Trade
<1>12. ~Complete(a) /\ ~Complete(b)
  <2> HIDE DEF n
  <2> QED
    BY <1>8, <1>9, <1>10 DEF Complete
<1>13. tr \notin All
  BY <1>11, <1>12 DEF FillsInv, AllInv
<1>14. All' = All \cup {tr}
  <2>1. made' = [made EXCEPT ![t] = @ \cup {tr}]
    BY <1>2, <1>a, <1>b
  <2> HIDE DEF tr
  <2>2. made'[t] = made[t] \cup {tr} /\ \A u \in Thread \ {t} : made'[u] = made[u]
    BY <2>1 DEF FillsInv, CancelInv, ShapeInv, TypeOK
  <2>3. (UNION {made'[u] : u \in Thread}) = (UNION {made[u] : u \in Thread}) \cup {tr}
    BY <2>2
  <2> QED
    BY <1>3, <2>3 DEF All
<1>15. /\ Traded(a)' = Traded(a) + n /\ Traded(b)' = Traded(b) + n
       /\ \A x : x \notin {a, b} => Traded(x)' = Traded(x)
  <2>1. TypeOK /\ IsFiniteSet(All)
    BY DEF FillsInv, CancelInv, ShapeInv, AllInv
  <2>2. \A x : Traded(x)' = Quantity(TradesOf(All \cup {tr}, x))
    BY <1>14 DEF Traded
  <2> HIDE DEF tr, a, b, n
  <2> QED
    BY <1>11, <1>13, <2>1, <2>2, TradedIsNat
<1>16. /\ incoming'[t] = FilledBy(o, n)
       /\ \A u \in Thread \ {t} : incoming'[u] = incoming[u]
  <2>1. incoming' = [incoming EXCEPT ![t] = FilledBy(o, n)]
    BY <1>2, <1>a, <1>b
  <2> QED
    BY <2>1 DEF FillsInv, CancelInv, ShapeInv, TypeOK
<1>17. /\ FilledBy(o, n).id = a /\ FilledBy(o, n).quantity = o.quantity
       /\ FilledBy(o, n).filled = o.filled + n
       /\ FilledBy(resting, n).id = b /\ FilledBy(resting, n).quantity = resting.quantity
       /\ FilledBy(resting, n).filled = resting.filled + n
  <2> HIDE DEF n
  <2> QED
    BY <1>1, <1>6 DEF FilledBy, Order
<1>18. \A q : \/ q = FilledBy(o, n)
              \/ q = FilledBy(resting, n)
              \/ Counted(q) /\ q.id # a /\ q.id # b
              => placed[q.id].quantity = q.quantity /\ q.filled = Traded(q.id)'
  <2> HIDE DEF n, a, b
  <2> QED
    BY <1>10, <1>15, <1>17 DEF Counted
<1>19. SubmittedCounted'
  <2> SUFFICES ASSUME NEW u \in Thread, Submitting(u)'
               PROVE  Counted(incoming[u])'
    BY DEF SubmittedCounted
  <2>1. PICK now : now = incoming'[u]
    OBVIOUS
  <2>2. placed[now.id].quantity = now.quantity /\ now.filled = Traded(now.id)'
    <3> HIDE DEF a, b, n
    <3>1. CASE u = t
      BY <1>16, <1>18, <2>1, <3>1
    <3>2. CASE u # t
      <4>1. Submitting(u)
        BY <1>3 DEF Submitting
      <4>2. now = incoming[u] /\ Counted(now) /\ now.id # a /\ now.id # b
        BY <1>6, <1>7, <1>16, <2>1, <3>2, <4>1 DEF FillsInv, SubmittedCounted, Lives
      <4> QED
        BY <1>18, <4>2
    <3> QED
      BY <3>1, <3>2
  <2> QED
    BY <1>3, <2>1, <2>2 DEF Counted
<1>20. RestingCounted'
  <2> SUFFICES ASSUME NEW s \in Side, NEW q \in DOMAIN book'[s], NEW k \in DOMAIN book'[s][q]
               PROVE  Counted(book[s][q][k])'
    BY DEF RestingCounted
  <2>0. PICK now : now = book'[s][q][k]
    OBVIOUS
  <2> DEFINE after == AfterFill(queue, n)
  <2>1. /\ q \in DOMAIN book[s]
        /\ book'[s][q] = IF s = side /\ q = p THEN after ELSE book[s][q]
    <3>1. book' = [book EXCEPT ![side] = PutLevel(@, p, after)]
      BY <1>2, <1>a, <1>b
    <3>2. IsBook(book)
      BY DEF FillsInv, CancelInv, ShapeInv, TypeOK
    <3> HIDE DEF after, side
    <3>3. CASE s # side
      <4>1. book'[s] = book[s]
        BY <3>1, <3>2, <3>3 DEF IsBook
      <4> QED
        BY <3>3, <4>1
    <3>4. CASE s = side
      <4>1. book'[s] = PutLevel(book[s], p, after)
        BY <3>1, <3>2, <3>4 DEF IsBook
      <4>2. q \in DOMAIN book[s] /\ book'[s][q] = IF q = p THEN after ELSE book[s][q]
        <5> HIDE DEF PutLevel
        <5> QED
          BY <3>4, <4>1, PutLevelAt
      <4> QED
        BY <3>4, <4>2
    <3> QED
      BY <3>3, <3>4
  <2>2. ASSUME NEW j \in DOMAIN book[s][q]
        PROVE  Counted(book[s][q][j]) /\ Lives(book[s][q][j].id, s, q) /\ book[s][q][j].id # a
    <3>1. Counted(book[s][q][j]) /\ Lives(book[s][q][j].id, s, q)
      BY <2>1, RestingLives DEF FillsInv, RestingCounted
    <3> QED
      BY <1>0, <1>1, <3>1 DEF Lives
  <2>3. placed[now.id].quantity = now.quantity /\ now.filled = Traded(now.id)'
    <3>1. CASE s = side /\ q = p
      <4>1. now = after[k] /\ k \in DOMAIN after /\ book[s][q] = queue
        BY <1>a, <2>0, <2>1, <3>1
      <4>2. \/ after[k] = FilledBy(resting, n)
            \/ \E j \in DOMAIN queue : after[k] = queue[j] /\ queue[j].id # b
        <5> HIDE DEF n
        <5> QED
          BY <1>4, <1>9, <1>b, <4>1, AfterFillOrders
      <4> HIDE DEF a, b, after, n
      <4>3. \/ now = FilledBy(resting, n)
            \/ Counted(now) /\ now.id # a /\ now.id # b
        BY <2>2, <4>1, <4>2
      <4> QED
        BY <1>18, <4>3
    <3>2. CASE ~(s = side /\ q = p)
      <4>1. now = book[s][q][k] /\ k \in DOMAIN book[s][q]
        BY <2>0, <2>1, <3>2
      <4>2. now.id # b /\ Counted(now) /\ now.id # a
        BY <1>6, <2>2, <3>2, <4>1 DEF Lives
      <4> HIDE DEF a, b, n
      <4> QED
        BY <1>18, <4>2
    <3> QED
      BY <3>1, <3>2
  <2> QED
    BY <1>3, <2>0, <2>3 DEF Counted
<1>21. AllInv'
  <2>1. IsFiniteSet(All')
    <3> HIDE DEF tr
    <3> QED
      BY <1>14, FS_AddElement DEF FillsInv, AllInv
  <2>2. IsPlaced(a)' /\ IsPlaced(b)' /\ \A x : IsPlaced(x) => IsPlaced(x)'
    BY <1>3, <1>6, <1>7 DEF IsPlaced, Lives
  <2>3. Complete(a)' \/ Complete(b)'
    <3> HIDE DEF n
    <3> QED
      BY <1>3, <1>9, <1>10, <1>15 DEF Complete
  <2>4. \A x : Complete(x) => Complete(x)'
    <3> HIDE DEF a, b
    <3> QED
      BY <1>3, <1>12, <1>15 DEF Complete
  <2> SUFFICES ASSUME NEW new \in All'
               PROVE  /\ IsPlaced(new.buy)' /\ IsPlaced(new.sell)'
                      /\ Complete(new.buy)' \/ Complete(new.sell)'
    BY <2>1 DEF AllInv
  <2>5. CASE new \in All
    BY <2>2, <2>4, <2>5 DEF FillsInv, AllInv
  <2>6. CASE new = tr
    <3>1. \/ tr.buy = a /\ tr.sell = b
          \/ tr.buy = b /\ tr.sell = a
      BY DEF CreateTrade
    <3> HIDE DEF tr, a, b
    <3> QED
      BY <2>2, <2>3, <2>6, <3>1
  <2> QED
    BY <1>14, <2>5, <2>6
<1>22. WithinQuantity'
  <2> SUFFICES ASSUME NEW x \in OrderId, placed[x] # NoOrder
               PROVE  Traded(x)' <= placed[x].quantity
    BY <1>3 DEF WithinQuantity
  <2>1. CASE x \notin {a, b}
    <3> HIDE DEF a, b
    <3> QED
      BY <1>15, <2>1 DEF FillsInv, WithinQuantity
  <2>2. CASE x \in {a, b}
    <3> HIDE DEF n
    <3> QED
      BY <1>9, <1>10, <1>15, <2>2
  <2> QED
    BY <2>1, <2>2
<1> QED
  BY <1>19, <1>20, <1>21, <1>22

LEMMA RestFillsInv ==
  ASSUME FillsInv, NEW t \in Thread, Rest(t)
  PROVE  RestingCounted' /\ SubmittedCounted' /\ AllInv' /\ WithinQuantity'
<1> DEFINE o == incoming[t]
<1>1. /\ pc[t] = "rest" /\ pc' = [pc EXCEPT ![t] = "idle"]
      /\ incoming' = [incoming EXCEPT ![t] = NoOrder]
      /\ made' = [made EXCEPT ![t] = {}]
      /\ tape' = tape \cup made[t]
      /\ book' = AfterRest(o)
      /\ UNCHANGED placed
  BY DEF Rest, Goto
<1>2. o \in Order /\ Submitting(t) /\ Counted(o)
  BY <1>1 DEF FillsInv, CancelInv, ShapeInv, TypeOK, Submitting, SubmittedCounted
<1>3. All' = All
  <2>1. made'[t] = {} /\ \A u \in Thread \ {t} : made'[u] = made[u]
    BY <1>1 DEF FillsInv, CancelInv, ShapeInv, TypeOK
  <2>2. UNION {made[u] : u \in Thread} = made[t] \cup UNION {made'[u] : u \in Thread}
    BY <2>1
  <2> QED
    BY <1>1, <2>2 DEF All
<1>4. \A id : Traded(id)' = Traded(id)
  BY <1>3 DEF Traded
<1>5. AllInv' /\ WithinQuantity'
  BY <1>1, <1>3, <1>4 DEF FillsInv, AllInv, WithinQuantity, IsPlaced, Complete
<1>6. SubmittedCounted'
  <2>1. \A u \in Thread : Submitting(u)' => Submitting(u) /\ incoming'[u] = incoming[u]
    BY <1>1 DEF FillsInv, CancelInv, ShapeInv, TypeOK, Submitting
  <2> QED
    BY <1>1, <1>4, <2>1 DEF FillsInv, SubmittedCounted, Counted
<1>7. RestingCounted'
  <2> SUFFICES ASSUME NEW s \in Side, NEW q \in DOMAIN book'[s], NEW k \in DOMAIN book'[s][q]
               PROVE  Counted(book[s][q][k])'
    BY DEF RestingCounted
  <2>1. \/ book'[s][q][k] = o
        \/ q \in DOMAIN book[s] /\ k \in DOMAIN book[s][q] /\ book'[s][q][k] = book[s][q][k]
    <3>1. CASE book' = book
      BY <3>1
    <3>2. CASE book' # book
      <4>1. book' = [book EXCEPT ![o.type] = PushBack(book[o.type], o)] /\ o.type \in Side
        BY <1>1, <1>2, <3>2, OrderFields DEF AfterRest, AddOrder
      <4> HIDE DEF o
      <4>2. book'[s] = IF s = o.type THEN PushBack(book[s], o) ELSE book[s]
        BY <4>1 DEF FillsInv, CancelInv, ShapeInv, TypeOK, IsBook
      <4>3. CASE s # o.type
        BY <4>2, <4>3
      <4>4. CASE s = o.type
        <5>1. CASE q # o.price
          BY <4>2, <4>4, <5>1 DEF PushBack
        <5>2. CASE q = o.price /\ q \notin DOMAIN book[s]
          <6>1. book'[s][q] = <<o>>
            BY <4>2, <4>4, <5>2 DEF PushBack
          <6> QED
            BY <6>1
        <5>3. CASE q = o.price /\ q \in DOMAIN book[s]
          <6>1. book'[s][q] = Append(book[s][q], o)
            BY <4>2, <4>4, <5>3 DEF PushBack
          <6>2. book[s][q] \in Seq(Order)
            BY <5>3, RestingType DEF FillsInv, CancelInv
          <6> QED
            BY <5>3, <6>1, <6>2
        <5> QED
          BY <5>1, <5>2, <5>3
      <4> QED
        BY <4>3, <4>4
    <3> QED
      BY <3>1, <3>2
  <2>2. Counted(book'[s][q][k])
    BY <1>2, <2>1 DEF FillsInv, RestingCounted
  <2> QED
    BY <1>1, <1>4, <2>2 DEF Counted
<1> QED
  BY <1>5, <1>6, <1>7

LEMMA CancelFoundFillsInv ==
  ASSUME FillsInv, NEW t \in Thread, CancelFound(t)
  PROVE  RestingCounted' /\ SubmittedCounted' /\ AllInv' /\ WithinQuantity'
<1>1. PICK side \in Side : \E p \in DOMAIN book[side] : \E k \in DOMAIN book[side][p] :
        LeaveCancel(t, [book EXCEPT ![side] = PutLevel(@, p, EraseAt(@[p], k))], {target[t]})
  BY DEF CancelFound
<1>2. PICK p \in DOMAIN book[side] : \E k \in DOMAIN book[side][p] :
        LeaveCancel(t, [book EXCEPT ![side] = PutLevel(@, p, EraseAt(@[p], k))], {target[t]})
  BY <1>1
<1>3. PICK i \in DOMAIN book[side][p] :
        LeaveCancel(t, [book EXCEPT ![side] = PutLevel(@, p, EraseAt(@[p], i))], {target[t]})
  BY <1>2
<1> DEFINE queue == book[side][p]
           after == EraseAt(queue, i)
<1>4. /\ pc[t] = "cancel" /\ pc' = [pc EXCEPT ![t] = "idle"]
      /\ book' = [book EXCEPT ![side] = PutLevel(@, p, after)]
      /\ UNCHANGED <<placed, incoming, made, tape>>
  BY <1>3 DEF LeaveCancel, Goto
<1>5. \A u \in Thread : Submitting(u)' <=> Submitting(u)
  BY <1>4 DEF FillsInv, CancelInv, ShapeInv, TypeOK, Submitting
<1>6. All' = All
  BY <1>4 DEF All
<1>7. \A id : Traded(id)' = Traded(id)
  BY <1>6 DEF Traded
<1>8. AllInv' /\ WithinQuantity'
  BY <1>4, <1>6, <1>7 DEF FillsInv, AllInv, WithinQuantity, IsPlaced, Complete
<1>9. SubmittedCounted'
  BY <1>4, <1>5, <1>7 DEF FillsInv, SubmittedCounted, Counted
<1>10. RestingCounted'
  <2> SUFFICES ASSUME NEW s \in Side, NEW q \in DOMAIN book'[s], NEW k \in DOMAIN book'[s][q]
               PROVE  Counted(book[s][q][k])'
    BY DEF RestingCounted
  <2>1. /\ q \in DOMAIN book[s]
        /\ \E j \in DOMAIN book[s][q] : book'[s][q][k] = book[s][q][j]
    <3> HIDE DEF after
    <3>1. CASE s # side
      <4>1. book'[s] = book[s]
        BY <1>4, <3>1 DEF FillsInv, CancelInv, ShapeInv, TypeOK, IsBook
      <4> QED
        BY <4>1
    <3>2. CASE s = side
      <4>1. book'[s] = PutLevel(book[s], p, after)
        BY <1>4, <3>2 DEF FillsInv, CancelInv, ShapeInv, TypeOK, IsBook
      <4>2. q \in DOMAIN book[s] /\ book'[s][q] = IF q = p THEN after ELSE book[s][q]
        <5> HIDE DEF PutLevel
        <5> QED
          BY <3>2, <4>1, PutLevelAt
      <4>3. \A j \in DOMAIN after : \E m \in DOMAIN queue : after[j] = queue[m]
        <5>1. queue \in Seq(Order)
          BY RestingType DEF FillsInv, CancelInv
        <5> HIDE DEF queue
        <5> QED
          BY <1>3, <5>1, EraseAtQueue DEF after, queue
      <4>4. CASE q = p
        BY <3>2, <4>2, <4>3, <4>4
      <4>5. CASE q # p
        BY <4>2, <4>5
      <4> QED
        BY <4>4, <4>5
    <3> QED
      BY <3>1, <3>2
  <2>2. Counted(book'[s][q][k])
    BY <2>1 DEF FillsInv, RestingCounted
  <2> QED
    BY <1>4, <1>7, <2>2 DEF Counted
<1> QED
  BY <1>8, <1>9, <1>10

LEMMA FillsStep == FillsInv /\ [Next]_vars => FillsInv'
<1> SUFFICES ASSUME FillsInv, [Next]_vars PROVE FillsInv'
  OBVIOUS
<1>1. CancelInv'
  BY CancelNext DEF FillsInv
<1>2. ASSUME NEW t \in Thread, Call(t) \/ Step(t)
      PROVE  RestingCounted' /\ SubmittedCounted' /\ AllInv' /\ WithinQuantity'
  <2>1. ShapeInv
    BY DEF FillsInv, CancelInv
  <2> QED
    BY <1>2, <2>1, QuietSteps, QuietFillsInv, CallMatchFillsInv, MatchStepFillsInv,
       RestFillsInv, CancelFoundFillsInv
<1>3. CASE UNCHANGED vars
  <2>1. Quiet
    BY <1>3 DEF vars, Quiet, Submitting
  <2> QED
    BY <1>1, <2>1, QuietFillsInv DEF FillsInv
<1> QED
  BY <1>1, <1>2, <1>3 DEF Next, FillsInv

(* What an order, resting or being matched, says it has filled is what the *)
(* trades with it are for, and no order trades beyond its quantity.        *)
THEOREM FillsAreExact == Spec => []FillsAreTrades
<1>1. FillsInv => FillsAreTrades
  <2> SUFFICES ASSUME FillsInv PROVE FillsAreTrades
    OBVIOUS
  <2>1. ASSUME NEW o \in Resting(book)
        PROVE  Counted(o)
    <3>1. PICK s \in Side : o \in {book[s][pos[1]][pos[2]] : pos \in RestingAt(book[s])}
      BY DEF Resting
    <3>2. PICK pos \in RestingAt(book[s]) : o = book[s][pos[1]][pos[2]]
      BY <3>1
    <3>3. PICK p \in DOMAIN book[s] : pos \in {<<p, i>> : i \in DOMAIN book[s][p]}
      BY <3>2 DEF RestingAt
    <3>4. PICK i \in DOMAIN book[s][p] : pos = <<p, i>>
      BY <3>3
    <3> QED
      BY <3>2, <3>4 DEF FillsInv, RestingCounted
  <2>2. ASSUME NEW t \in Thread, Submitting(t)
        PROVE  Counted(incoming[t])
    BY <2>2 DEF FillsInv, SubmittedCounted
  <2>3. \A o \in Resting(book) \cup {incoming[t] : t \in {u \in Thread : Submitting(u)}} :
          o.filled = Traded(o.id)
    BY <2>1, <2>2 DEF Counted
  <2> QED
    BY <2>3 DEF FillsAreTrades, FillsInv, WithinQuantity, Traded, All
<1> QED
  BY <1>1, FillsInit, FillsStep, PTL DEF Spec

-----------------------------------------------------------------------------
(* ImplementsEngine: the operators of the engine are those of Matching.    *)
LEMMA EngineOrders ==
  /\ Engine!Side = Side
  /\ \A l : Engine!RestingAt(l) = RestingAt(l)
  /\ \A s : Engine!Opposite(s) = Opposite(s)
  /\ \A o : Engine!Remaining(o) = Remaining(o) /\ Engine!IsFilled(o) = IsFilled(o)
  /\ \A o, n : Engine!FilledBy(o, n) = FilledBy(o, n)
BY DEF Engine!Side, Side, Engine!RestingAt, RestingAt, Engine!Opposite, Opposite,
       Engine!Remaining, Remaining, Engine!IsFilled, IsFilled, Engine!FilledBy, FilledBy

LEMMA EngineTrades ==
  /\ \A o, p : Engine!Crosses(o, p) = Crosses(o, p)
  /\ \A id, r : Engine!NewOrder(id, r) = NewOrder(id, r)
  /\ \A o, r, n, p : Engine!CreateTrade(o, r, n, p) = CreateTrade(o, r, n, p)
BY DEF Engine!Crosses, Crosses, Engine!NewOrder, NewOrder, Engine!CreateTrade, CreateTrade

LEMMA EngineSums ==
  /\ \A F : Engine!SumFunction(F) = SumFunction(F)
  /\ \A F : Engine!Range(F) = Range(F)
  /\ \A S : Engine!Cardinality(S) = Cardinality(S)
BY DEF Engine!SumFunction, SumFunction, Engine!SumFunctionOnSet, SumFunctionOnSet,
       Engine!FoldFunctionOnSet, FoldFunctionOnSet, Engine!MapThenFoldSet, MapThenFoldSet,
       Engine!Range, Range, Engine!Cardinality, Cardinality

LEMMA EngineRows == \A s, I : Engine!RowsAt(s, I) = RowsAt(s, I)
BY DEF Engine!RowsAt, RowsAt, Engine!RunningRows, RunningRows

LEMMA EngineDepth == \A l : Engine!Depth(l) = Depth(l)
BY DEF Engine!Depth, Depth, Engine!LevelQuantity, LevelQuantity, Engine!MapThenSumSet, MapThenSumSet,
       Engine!MapThenFoldSet, MapThenFoldSet, Engine!Remaining, Remaining

LEMMA EngineEligible ==
  /\ \A q, o : Engine!Eligible(q, o) = Eligible(q, o)
  /\ \A s, a, b : Engine!Precedes(s, a, b) = Precedes(s, a, b)
  /\ \A q, pos : Engine!At(q, pos) = At(q, pos)
BY DEF Engine!Eligible, Eligible, Engine!RestingAt, RestingAt, Engine!Crosses, Crosses,
       Engine!Precedes, Precedes, Engine!Better, Better, Engine!At, At

LEMMA EngineAhead == \A q, o, pos : Engine!Ahead(q, o, pos) = Ahead(q, o, pos)
BY EngineSums, EngineEligible, EngineOrders DEF Engine!Ahead, Ahead

LEMMA EngineFill == \A q, o, pos : Engine!Fill(q, o, pos) = Fill(q, o, pos)
BY EngineAhead, EngineEligible, EngineOrders DEF Engine!Fill, Fill

LEMMA EngineMatched == \A q, o : Engine!Matched(q, o) = Matched(q, o)
BY EngineFill, EngineEligible DEF Engine!Matched, Matched

LEMMA EngineTotalFill == \A q, o : Engine!TotalFill(q, o) = TotalFill(q, o)
BY EngineMatched, EngineFill, EngineSums DEF Engine!TotalFill, TotalFill

LEMMA EngineTurns == \A q, o : Engine!Turns(q, o) = Turns(q, o)
BY EngineMatched, EngineSums, EngineEligible, EngineOrders DEF Engine!Turns, Turns

LEMMA EngineExecutions == \A q, o : Engine!Executions(q, o) = Executions(q, o)
BY EngineTurns, EngineTrades, EngineEligible, EngineFill DEF Engine!Executions, Executions

LEMMA EngineAfterFills == \A q, o : Engine!AfterFills(q, o) = AfterFills(q, o)
<1> SUFFICES ASSUME NEW q, NEW o
             PROVE  Engine!AfterFills(q, o) = AfterFills(q, o)
  OBVIOUS
<1> DEFINE rows(p) == [k \in DOMAIN q[p] |-> FilledBy(q[p][k], Fill(q, o, <<p, k>>))]
           left(r) == RowsAt(r, {i \in DOMAIN r : ~IsFilled(r[i])})
           given(p) == [k \in DOMAIN q[p] |->
                          Engine!FilledBy(q[p][k], Engine!Fill(q, o, <<p, k>>))]
           open(r) == Engine!RowsAt(r, {i \in DOMAIN r : ~Engine!IsFilled(r[i])})
<1>1. AfterFills(q, o) = [p \in Price |-> left(rows(p))]
  BY DEF AfterFills, Where
<1>2. Engine!AfterFills(q, o) = [p \in Price |-> open(given(p))]
  BY DEF Engine!AfterFills, Engine!Where
<1>3. \A p : given(p) = rows(p)
  BY EngineFill, EngineOrders
<1>4. \A r : open(r) = left(r)
  BY EngineRows, EngineOrders
<1> HIDE DEF rows, left, given, open
<1> QED
  BY <1>1, <1>2, <1>3, <1>4

LEMMA EngineAfterMatch == \A b, o : Engine!AfterMatch(b, o) = AfterMatch(b, o)
<1>1. \A q, o : Engine!Incoming(q, o) = Incoming(q, o)
  BY EngineTotalFill, EngineOrders DEF Engine!Incoming, Incoming
<1>2. \A q, o : Engine!Enqueue(q, o) = Enqueue(q, o)
  BY DEF Engine!Enqueue, Enqueue
<1> QED
  BY <1>1, <1>2, EngineAfterFills, EngineOrders, ZenonT(90) DEF Engine!AfterMatch, AfterMatch

LEMMA EngineWithout == \A b, id : Engine!Without(b, id) = Without(b, id)
BY EngineOrders, EngineRows DEF Engine!Without, Without, Engine!Where, Where

LEMMA EngineDepthOf ==
  \A b : Engine!DepthOf(b) = [side \in Side |-> Depth(Occupied(b[side]))]
BY EngineDepth, EngineOrders DEF Engine!DepthOf, Engine!Occupied, Occupied

(* A quantity R given out in turn: of what each x in S has, G[x], it is    *)
(* given g[x]; those in E are served, one after the other, and nobody      *)
(* before one that is given something is left with anything.               *)
IsServed(g, G, S, E, before, R) ==
  /\ \A x \in S : g[x] <= G[x] /\ (g[x] > 0 => x \in E)
  /\ \A x, y \in E : <<x, y>> \in before /\ g[y] > 0 => g[x] = G[x]
  /\ SumIn(g, S) <= R
  /\ SumIn(g, S) < R => \A x \in E : g[x] = G[x]

LEMMA SumOfLess ==
  ASSUME NEW S, IsFiniteSet(S), NEW g \in [S -> Nat], NEW G \in [S -> Nat], NEW T \in SUBSET S,
         \A x \in T : g[x] <= G[x]
  PROVE  SumIn(g, T) \in Nat /\ SumIn(G, T) \in Nat /\ SumIn(g, T) <= SumIn(G, T)
<1> DEFINE P == {U \in SUBSET T : SumIn(g, U) <= SumIn(G, U)}
<1>1. g \in [S -> Int] /\ G \in [S -> Int]
  OBVIOUS
<1>2. ASSUME NEW U \in SUBSET S
      PROVE  /\ SumIn(g, U) \in Int /\ SumIn(G, U) \in Int /\ SumIn(g, {}) = 0 /\ SumIn(G, {}) = 0
             /\ \A m \in U : SumIn(g, U) = g[m] + SumIn(g, U \ {m})
                               /\ SumIn(G, U) = G[m] + SumIn(G, U \ {m})
  BY <1>1, SumParts
<1>3. {} \in P
  BY <1>2
<1>4. ASSUME NEW U \in SUBSET T, U # {}, U \ {AnyOf(U)} \in P
      PROVE  U \in P
  <2>1. PICK m : m = AnyOf(U)
    OBVIOUS
  <2>2. m \in U /\ m \in T /\ U \in SUBSET S /\ U \ {m} \in SUBSET S
    BY <1>4, <2>1 DEF AnyOf
  <2>3. SumIn(g, U) = g[m] + SumIn(g, U \ {m}) /\ SumIn(G, U) = G[m] + SumIn(G, U \ {m})
    BY <1>2, <2>2
  <2>4. SumIn(g, U \ {m}) <= SumIn(G, U \ {m}) /\ g[m] <= G[m] /\ g[m] \in Nat /\ G[m] \in Nat
    BY <1>4, <2>1, <2>2
  <2>5. SumIn(g, U \ {m}) \in Int /\ SumIn(G, U \ {m}) \in Int
    BY <1>2, <2>2
  <2> QED
    BY <2>3, <2>4, <2>5
<1>5. IsFiniteSet(T)
  BY FS_Subset
<1>6. SUBSET T \subseteq P
  <2> HIDE DEF P
  <2> QED
    BY <1>3, <1>4, <1>5, SubsetInduction
<1>7. SumIn(g, T) \in Nat /\ SumIn(G, T) \in Nat
  <2>1. \A F \in [S -> Nat] : SumIn(F, T) \in Nat
    BY SumGrows
  <2> QED
    BY <2>1
<1> QED
  BY <1>6, <1>7

LEMMA SumOfSame ==
  ASSUME NEW F, NEW G, NEW T, \A x \in T : F[x] = G[x]
  PROVE  SumIn(F, T) = SumIn(G, T)
<1>1. [x \in T |-> F[x]] = [x \in T |-> G[x]]
  OBVIOUS
<1> QED
  BY <1>1 DEF SumIn

(* What each is given is what those before it leave, up to what it has.    *)
LEMMA Served ==
  ASSUME NEW S, IsFiniteSet(S), NEW E \in SUBSET S, NEW before, IsTotalOrder(before, S),
         NEW g \in [S -> Nat], NEW G \in [S -> Nat], NEW R \in Nat,
         \A x \in S : G[x] > 0,
         IsServed(g, G, S, E, before, R), NEW x \in E
  PROVE  LET left == R - SumIn(G, {y \in E : <<y, x>> \in before})
         IN  g[x] = IF left <= 0 THEN 0 ELSE IF left < G[x] THEN left ELSE G[x]
<1>1. PICK P : P = {y \in E : <<y, x>> \in before}
  OBVIOUS
<1>2. P \in SUBSET S /\ x \in S /\ x \notin P /\ P \cup {x} \in SUBSET S /\ (P \cup {x}) \ {x} = P
  BY <1>1 DEF IsTotalOrder
<1>3. g[x] \in Nat /\ G[x] \in Nat /\ g[x] <= G[x] /\ G[x] > 0
  BY <1>2 DEF IsServed
<1>4. SumIn(g, P) \in Nat /\ SumIn(G, P) \in Nat /\ SumIn(g, P) <= SumIn(G, P)
  BY <1>2, SumOfLess DEF IsServed
<1>5. SumIn(g, P \cup {x}) = g[x] + SumIn(g, P)
  <2>1. PICK T : T = P \cup {x}
    OBVIOUS
  <2>2. g \in [S -> Int] /\ T \in SUBSET S /\ x \in T /\ T \ {x} = P
    BY <1>2, <2>1
  <2>3. SumIn(g, T) = g[x] + SumIn(g, T \ {x})
    BY <2>2, SumParts
  <2> QED
    BY <2>1, <2>2, <2>3
<1>6. SumIn(g, P \cup {x}) <= SumIn(g, S) /\ SumIn(g, S) \in Nat /\ SumIn(g, S) <= R
  <2>1. PICK T : T = P \cup {x}
    OBVIOUS
  <2>2. T \in SUBSET S
    BY <1>2, <2>1
  <2>3. SumIn(g, T) <= SumIn(g, S) /\ SumIn(g, S) \in Nat
    <3>1. SumIn(g, T) <= SumIn(g, S)
      BY <2>2, SumGrows
    <3>2. S \in SUBSET S
      OBVIOUS
    <3> QED
      BY <3>1, <3>2, SumGrows
  <2> QED
    BY <2>1, <2>3 DEF IsServed
<1>7. ASSUME g[x] > 0 PROVE SumIn(g, P) = SumIn(G, P)
  <2>1. \A y \in P : g[y] = G[y]
    BY <1>1, <1>7 DEF IsServed
  <2> QED
    BY <2>1, SumOfSame
<1>8. CASE g[x] = G[x]
  BY <1>1, <1>3, <1>4, <1>5, <1>6, <1>7, <1>8
<1>9. CASE g[x] # G[x]
  <2>1. SumIn(g, S) = R
    BY <1>3, <1>6, <1>9 DEF IsServed
  <2>2. \A y \in S : y \notin P \cup {x} => g[y] = 0
    <3> SUFFICES ASSUME NEW y \in S, y \notin P \cup {x}, g[y] # 0 PROVE FALSE
      OBVIOUS
    <3>1. g[y] \in Nat /\ g[y] > 0
      OBVIOUS
    <3>2. y \in E
      BY <3>1 DEF IsServed
    <3>3. <<x, y>> \in before
      BY <1>1, <1>2, <3>2 DEF IsTotalOrder
    <3> QED
      BY <1>9, <3>1, <3>2, <3>3 DEF IsServed
  <2>3. SumIn(g, S) = SumIn(g, P \cup {x})
    <3>1. PICK T : T = P \cup {x}
      OBVIOUS
    <3>2. /\ g \in [S -> Int] /\ S \in SUBSET S /\ T \in SUBSET S
          /\ \A y \in S : y \notin T => g[y] = 0
      BY <1>2, <2>2, <3>1
    <3>3. SumIn(g, S) = SumIn(g, T)
      BY <3>2, SumWithoutZeros
    <3> QED
      BY <3>1, <3>3
  <2>4. CASE g[x] > 0
    BY <1>1, <1>3, <1>4, <1>5, <1>7, <1>9, <2>1, <2>3, <2>4
  <2>5. CASE g[x] = 0
    BY <1>1, <1>3, <1>4, <1>5, <2>1, <2>3, <2>5
  <2> QED
    BY <1>3, <2>4, <2>5
<1> QED
  BY <1>8, <1>9

-----------------------------------------------------------------------------
(* The levels of a side as the queues of Matching.                         *)
LevelAt(levels, p) == IF p \in DOMAIN levels THEN levels[p] ELSE <<>>

QueuesOf(levels) == [p \in Price |-> LevelAt(levels, p)]

(* One side of the book between two calls.                                 *)
SoundLevels(levels, side) ==
  IsLevels(levels) /\ OpenLevels(levels, side) /\ IsFiniteSet(DOMAIN levels)

LEMMA LevelsAre ==
  ASSUME NEW levels, NEW side, SoundLevels(levels, side)
  PROVE  /\ \A p \in DOMAIN levels : p \in Price /\ p \in Nat /\ levels[p] \in Seq(Order) /\ levels[p] # <<>>
         /\ \A p \in DOMAIN levels : \A i \in DOMAIN levels[p] :
              /\ i \in Nat /\ levels[p][i] \in Order
              /\ Remaining(levels[p][i]) \in Nat /\ Remaining(levels[p][i]) > 0
<1>1. \A p \in DOMAIN levels : p \in Price /\ p \in Nat /\ levels[p] \in Seq(Order) /\ levels[p] # <<>>
  BY PriceAssumption DEF SoundLevels, IsLevels, IsKeyedByPrice, OpenLevels
<1>2. ASSUME NEW p \in DOMAIN levels, NEW i \in DOMAIN levels[p]
      PROVE  /\ i \in Nat /\ levels[p][i] \in Order
             /\ Remaining(levels[p][i]) \in Nat /\ Remaining(levels[p][i]) > 0
  <2>1. i \in Nat /\ levels[p][i] \in Order
    BY <1>1
  <2>2. Remaining(levels[p][i]) > 0
    BY DEF SoundLevels, OpenLevels, OpenQueue
  <2>3. levels[p][i].quantity \in Nat /\ levels[p][i].filled \in Nat
    BY <2>1, OrderFields
  <2> QED
    BY <2>1, <2>2, <2>3 DEF Remaining
<1> QED
  BY <1>1, <1>2

LEMMA PlacesAre ==
  ASSUME NEW levels
  PROVE  /\ \A x \in RestingAt(levels) :
              x[1] \in DOMAIN levels /\ x[2] \in DOMAIN levels[x[1]] /\ x = <<x[1], x[2]>>
         /\ \A p \in DOMAIN levels : \A i \in DOMAIN levels[p] : <<p, i>> \in RestingAt(levels)
<1>1. ASSUME NEW x \in RestingAt(levels)
      PROVE  x[1] \in DOMAIN levels /\ x[2] \in DOMAIN levels[x[1]] /\ x = <<x[1], x[2]>>
  <2>1. PICK p \in DOMAIN levels : x \in {<<p, i>> : i \in DOMAIN levels[p]}
    BY DEF RestingAt
  <2>2. PICK i \in DOMAIN levels[p] : x = <<p, i>>
    BY <2>1
  <2> QED
    BY <2>2
<1>2. ASSUME NEW p \in DOMAIN levels, NEW i \in DOMAIN levels[p]
      PROVE  <<p, i>> \in RestingAt(levels)
  BY DEF RestingAt
<1> QED
  BY <1>1, <1>2

LEMMA PlacesAreFinite ==
  ASSUME NEW levels, NEW side, SoundLevels(levels, side)
  PROVE  IsFiniteSet(RestingAt(levels))
<1> DEFINE PlacesAt(p) == {<<p, i>> : i \in DOMAIN levels[p]}
           all == {PlacesAt(p) : p \in DOMAIN levels}
<1>1. ASSUME NEW p \in DOMAIN levels PROVE IsFiniteSet(PlacesAt(p))
  <2> DEFINE n == Len(levels[p])
             f == [i \in 1 .. n |-> <<p, i>>]
  <2>1. n \in Nat /\ DOMAIN levels[p] = 1 .. n
    BY LevelsAre, LenProperties
  <2>2. IsFiniteSet(1 .. n)
    BY <2>1, FS_Interval
  <2> HIDE DEF n
  <2>3. f \in Surjection(1 .. n, PlacesAt(p))
    BY <2>1 DEF Surjection
  <2> HIDE DEF f
  <2> QED
    BY <2>2, <2>3, FS_Surjection
<1>2. IsFiniteSet(all)
  <2> DEFINE f == [p \in DOMAIN levels |-> PlacesAt(p)]
  <2>1. f \in Surjection(DOMAIN levels, all)
    BY DEF Surjection
  <2> HIDE DEF f, all
  <2> QED
    BY <2>1, FS_Surjection DEF SoundLevels
<1>3. IsFiniteSet(UNION all)
  <2>1. \A T \in all : IsFiniteSet(T)
    BY <1>1
  <2> HIDE DEF all
  <2> QED
    BY <1>2, <2>1, FS_UNION
<1>4. RestingAt(levels) = UNION all
  BY DEF RestingAt
<1> QED
  BY <1>3, <1>4

(* The places of a side, in the order they are matched.                    *)
MatchOrder(levels, side) ==
  {ab \in RestingAt(levels) \X RestingAt(levels) : Precedes(side, ab[1], ab[2])}

LEMMA MatchOrderIsTotal ==
  ASSUME NEW levels, NEW s, SoundLevels(levels, s), NEW side \in Side
  PROVE  /\ IsTotalOrder(MatchOrder(levels, side), RestingAt(levels))
         /\ \A a, b \in RestingAt(levels) :
              <<a, b>> \in MatchOrder(levels, side) <=> Precedes(side, a, b)
<1>1. \A a, b \in RestingAt(levels) : <<a, b>> \in MatchOrder(levels, side) <=> Precedes(side, a, b)
  BY DEF MatchOrder
<1>2. \A a \in RestingAt(levels) : a = <<a[1], a[2]>> /\ a[1] \in Nat /\ a[2] \in Nat
  BY PlacesAre, LevelsAre
<1>3. \A a, b, c \in RestingAt(levels) :
        Precedes(side, a, b) /\ Precedes(side, b, c) => Precedes(side, a, c)
  BY <1>2 DEF Precedes, Better
<1>4. \A a, b \in RestingAt(levels) : a # b => Precedes(side, a, b) \/ Precedes(side, b, a)
  <2> SUFFICES ASSUME NEW a \in RestingAt(levels), NEW b \in RestingAt(levels), a # b
               PROVE  Precedes(side, a, b) \/ Precedes(side, b, a)
    OBVIOUS
  <2>1. a[1] # b[1] \/ a[2] # b[2]
    BY <1>2
  <2> QED
    BY <1>2, <2>1 DEF Precedes, Better
<1>5. \A a \in RestingAt(levels) : ~Precedes(side, a, a)
  BY <1>2 DEF Precedes, Better
<1> QED
  BY <1>1, <1>3, <1>4, <1>5 DEF IsTotalOrder

LEMMA QueuesAre ==
  ASSUME NEW levels, NEW side, SoundLevels(levels, side)
  PROVE  /\ DOMAIN QueuesOf(levels) = Price
         /\ \A p \in Price : QueuesOf(levels)[p] = LevelAt(levels, p)
         /\ RestingAt(QueuesOf(levels)) = RestingAt(levels)
         /\ \A x \in RestingAt(levels) : At(QueuesOf(levels), x) = levels[x[1]][x[2]]
<1> DEFINE q == QueuesOf(levels)
<1>1. DOMAIN q = Price /\ \A p \in Price : q[p] = LevelAt(levels, p)
  BY DEF QueuesOf
<1>2. \A p \in DOMAIN levels : p \in Price /\ q[p] = levels[p]
  BY <1>1, LevelsAre DEF LevelAt
<1>3. \A p \in Price : p \notin DOMAIN levels => DOMAIN q[p] = {}
  BY <1>1 DEF LevelAt
<1> HIDE DEF q
<1>4. RestingAt(q) \subseteq RestingAt(levels)
  <2> SUFFICES ASSUME NEW x \in RestingAt(q) PROVE x \in RestingAt(levels)
    OBVIOUS
  <2>1. x[1] \in Price /\ x[2] \in DOMAIN q[x[1]] /\ x = <<x[1], x[2]>>
    BY <1>1, PlacesAre
  <2>2. x[1] \in DOMAIN levels /\ x[2] \in DOMAIN levels[x[1]]
    BY <1>2, <1>3, <2>1
  <2>3. <<x[1], x[2]>> \in RestingAt(levels)
    BY <2>2, PlacesAre
  <2> QED
    BY <2>1, <2>3
<1>5. RestingAt(levels) \subseteq RestingAt(q)
  <2> SUFFICES ASSUME NEW x \in RestingAt(levels) PROVE x \in RestingAt(q)
    OBVIOUS
  <2>1. x[1] \in DOMAIN levels /\ x[2] \in DOMAIN levels[x[1]] /\ x = <<x[1], x[2]>>
    BY PlacesAre
  <2>2. x[1] \in DOMAIN q /\ x[2] \in DOMAIN q[x[1]]
    BY <1>1, <1>2, <2>1
  <2>3. <<x[1], x[2]>> \in RestingAt(q)
    BY <2>2, PlacesAre
  <2> QED
    BY <2>1, <2>3
<1>6. \A x \in RestingAt(levels) : At(q, x) = levels[x[1]][x[2]]
  BY <1>2, PlacesAre DEF At
<1> QED
  BY <1>1, <1>4, <1>5, <1>6 DEF q

-----------------------------------------------------------------------------
(* How far the match loop has come with o0 on a side that was old when the *)
(* call took the lock: g is what each place has been given so far, now the *)
(* side, o the incoming order and trades the trades made.                  *)
Own(levels, x) == Remaining(levels[x[1]][x[2]])

Given(levels, g, p, k) == FilledBy(levels[p][k], g[<<p, k>>])

TradeFor(levels, g, o, x) == CreateTrade(o, levels[x[1]][x[2]], g[x], x[1])

Give(g, x, n) == [g EXCEPT ![x] = n]

(* The first n orders at p are filled and gone, the others still there.    *)
IsLeft(old, g, now, p, n) ==
  /\ \A k \in 1 .. n : g[<<p, k>>] = Own(old, <<p, k>>)
  /\ LevelAt(now, p) = [k \in 1 .. Len(old[p]) - n |-> Given(old, g, p, n + k)]

IsGiven(old, g, o0, o) ==
  /\ g \in [RestingAt(old) -> Nat]
  /\ \A x \in RestingAt(old) : g[x] <= Own(old, x) /\ (g[x] > 0 => Crosses(o0, x[1]))
  /\ \A x, y \in RestingAt(old) :
       Precedes(Opposite(o0.type), x, y) /\ g[y] > 0 => g[x] = Own(old, x)
  /\ Remaining(o) > 0 => \A x \in RestingAt(old) : g[x] = 0 \/ g[x] = Own(old, x)

TradesGiven(old, g, o0) == {TradeFor(old, g, o0, x) : x \in {y \in RestingAt(old) : g[y] > 0}}

Progress(old, now, g, o0, o, trades) ==
  /\ IsGiven(old, g, o0, o)
  /\ SumIn(g, RestingAt(old)) <= Remaining(o0)
  /\ o = FilledBy(o0, SumIn(g, RestingAt(old)))
  /\ DOMAIN now \subseteq DOMAIN old
  /\ \A p \in DOMAIN old : \E n \in 0 .. Len(old[p]) : IsLeft(old, g, now, p, n)
  /\ trades = TradesGiven(old, g, o0)

LEMMA ProgressStarts ==
  ASSUME NEW old, NEW side, SoundLevels(old, side), NEW o \in Order, Remaining(o) \in Nat
  PROVE  Progress(old, old, [x \in RestingAt(old) |-> 0], o, o, {})
<1> DEFINE S == RestingAt(old)
           g == [x \in S |-> 0]
<1>1. \A x \in S : Own(old, x) \in Nat
  BY LevelsAre, PlacesAre DEF Own
<1>2. SumIn(g, S) = 0
  <2>1. IsFiniteSet(S) /\ g \in [S -> Int] /\ S \in SUBSET S /\ {} \in SUBSET S
    BY PlacesAreFinite
  <2>2. \A x \in S : x \notin {} => g[x] = 0
    OBVIOUS
  <2> HIDE DEF g, S
  <2>3. SumIn(g, S) = SumIn(g, {})
    BY <2>1, <2>2, SumWithoutZeros
  <2> QED
    BY <2>1, <2>3, SumParts
<1>3. \A r \in Order : FilledBy(r, 0) = r
  BY DEF FilledBy, Order
<1>4. IsGiven(old, g, o, o)
  BY <1>1 DEF IsGiven
<1>5. ASSUME NEW p \in DOMAIN old
      PROVE  \E n \in 0 .. Len(old[p]) : IsLeft(old, g, old, p, n)
  <2>1. old[p] \in Seq(Order) /\ LevelAt(old, p) = old[p]
    BY LevelsAre DEF LevelAt
  <2>2. Len(old[p]) \in Nat /\ DOMAIN old[p] = 1 .. Len(old[p])
    BY <2>1
  <2>3. \A k \in 1 .. Len(old[p]) : Given(old, g, p, 0 + k) = old[p][k]
    <3> SUFFICES ASSUME NEW k \in 1 .. Len(old[p]) PROVE Given(old, g, p, 0 + k) = old[p][k]
      OBVIOUS
    <3>1. <<p, k>> \in S /\ old[p][k] \in Order /\ 0 + k = k
      BY <2>1, <2>2, PlacesAre
    <3>2. g[<<p, k>>] = 0
      BY <3>1
    <3> HIDE DEF g
    <3>3. Given(old, g, p, k) = FilledBy(old[p][k], 0)
      BY <3>2 DEF Given
    <3> QED
      BY <1>3, <3>1, <3>3
  <2>4. LevelAt(old, p) = [k \in 1 .. Len(old[p]) - 0 |-> Given(old, g, p, 0 + k)]
    <3> HIDE DEF g
    <3>1. old[p] = [k \in 1 .. Len(old[p]) |-> old[p][k]]
      BY <2>1, <2>2
    <3>2. Len(old[p]) - 0 = Len(old[p])
      BY <2>2
    <3> QED
      BY <2>1, <2>3, <3>1, <3>2
  <2>5. IsLeft(old, g, old, p, 0)
    <3> HIDE DEF g
    <3> QED
      BY <2>4 DEF IsLeft
  <2> QED
    BY <2>2, <2>5
<1>6. TradesGiven(old, g, o) = {}
  BY DEF TradesGiven
<1> HIDE DEF g
<1>7. Progress(old, old, g, o, o, {})
  BY <1>2, <1>3, <1>4, <1>5, <1>6 DEF Progress
<1> QED
  BY <1>7 DEF g

LEMMA GivenIs ==
  ASSUME NEW old, NEW side, SoundLevels(old, side), NEW g, g \in [RestingAt(old) -> Nat],
         NEW p, p \in DOMAIN old, NEW k, k \in DOMAIN old[p]
  PROVE  /\ <<p, k>> \in RestingAt(old) /\ g[<<p, k>>] \in Nat
         /\ Own(old, <<p, k>>) \in Nat /\ Own(old, <<p, k>>) > 0
         /\ Own(old, <<p, k>>) = Remaining(old[p][k])
         /\ Given(old, g, p, k) \in Order
         /\ Given(old, g, p, k).id = old[p][k].id
         /\ Remaining(Given(old, g, p, k)) = Own(old, <<p, k>>) - g[<<p, k>>]
         /\ IsFilled(Given(old, g, p, k)) <=> g[<<p, k>>] >= Own(old, <<p, k>>)
<1>1. <<p, k>> \in RestingAt(old) /\ g[<<p, k>>] \in Nat
  BY PlacesAre
<1>2. PICK r : r = old[p][k]
  OBVIOUS
<1>3. PICK m : m = g[<<p, k>>]
  OBVIOUS
<1>4. r \in Order /\ Remaining(r) \in Nat /\ Remaining(r) > 0 /\ Own(old, <<p, k>>) = Remaining(r)
  BY <1>2, LevelsAre DEF Own
<1>5. m \in Nat /\ Given(old, g, p, k) = FilledBy(r, m)
  BY <1>1, <1>2, <1>3 DEF Given
<1>6. r.quantity \in Nat \ {0} /\ r.filled \in Nat
  BY <1>4, OrderFields
<1>7. /\ FilledBy(r, m) \in Order /\ FilledBy(r, m).quantity = r.quantity
      /\ FilledBy(r, m).filled = r.filled + m
  BY <1>4, <1>5, FilledByType
<1>8. FilledBy(r, m).id = r.id
  BY <1>4 DEF FilledBy, Order
<1>9. Remaining(FilledBy(r, m)) = Remaining(r) - m
  BY <1>5, <1>6, <1>7 DEF Remaining
<1>10. IsFilled(FilledBy(r, m)) <=> m >= Remaining(r)
  BY <1>5, <1>6, <1>7 DEF Remaining, IsFilled
<1> QED
  BY <1>1, <1>2, <1>3, <1>4, <1>5, <1>7, <1>8, <1>9, <1>10

(* The front of the best level is an order that was given nothing yet, and *)
(* every place before it has been given all it has.                        *)
LEMMA FrontIs ==
  ASSUME NEW old, NEW o0, NEW side, side = Opposite(o0.type), SoundLevels(old, side), NEW now, NEW g, NEW o,
         NEW trades,
         Progress(old, now, g, o0, o, trades), Remaining(o) > 0,
         NEW p, IsBest(now, side, p), now[p] # <<>>, Remaining(Head(now[p])) > 0,
         NEW n \in 0 .. Len(old[p]), IsLeft(old, g, now, p, n)
  PROVE  /\ p \in DOMAIN old /\ n + 1 \in DOMAIN old[p]
         /\ g[<<p, n + 1>>] = 0 /\ Head(now[p]) = old[p][n + 1]
         /\ \A x \in RestingAt(old) : Precedes(side, x, <<p, n + 1>>) => g[x] = Own(old, x)
<1>1. p \in DOMAIN now /\ p \in DOMAIN old /\ LevelAt(now, p) = now[p]
  BY DEF IsBest, Progress, LevelAt
<1>2. old[p] \in Seq(Order) /\ Len(old[p]) \in Nat /\ DOMAIN old[p] = 1 .. Len(old[p])
  BY <1>1, LevelsAre
<1>3. now[p] = [k \in 1 .. Len(old[p]) - n |-> Given(old, g, p, n + k)]
  BY <1>1 DEF IsLeft
<1>4. n + 1 \in DOMAIN old[p] /\ 1 \in DOMAIN now[p]
  <2>1. n < Len(old[p])
    <3> SUFFICES ASSUME ~(n < Len(old[p])) PROVE now[p] = <<>>
      OBVIOUS
    <3>1. 1 .. Len(old[p]) - n = {}
      BY <1>2
    <3> QED
      BY <1>3, <3>1
  <2> QED
    BY <1>2, <1>3, <2>1
<1>5. Head(now[p]) = Given(old, g, p, n + 1)
  <2>1. Head(now[p]) = now[p][1]
    OBVIOUS
  <2> QED
    BY <1>3, <1>4, <2>1
<1>6. g \in [RestingAt(old) -> Nat]
  BY DEF Progress, IsGiven
<1>7. /\ <<p, n + 1>> \in RestingAt(old) /\ g[<<p, n + 1>>] \in Nat
      /\ Remaining(Given(old, g, p, n + 1)) = Own(old, <<p, n + 1>>) - g[<<p, n + 1>>]
      /\ Own(old, <<p, n + 1>>) \in Nat
  BY <1>1, <1>4, <1>6, GivenIs
<1>8. g[<<p, n + 1>>] = 0
  <2>1. g[<<p, n + 1>>] # Own(old, <<p, n + 1>>)
    BY <1>5, <1>7
  <2> QED
    BY <1>7, <2>1 DEF Progress, IsGiven
<1>9. Head(now[p]) = old[p][n + 1]
  <2>1. old[p][n + 1] \in Order
    BY <1>1, <1>4, LevelsAre
  <2>2. FilledBy(old[p][n + 1], 0) = old[p][n + 1]
    BY <2>1 DEF FilledBy, Order
  <2> QED
    BY <1>5, <1>8, <2>2 DEF Given
<1>10. ASSUME NEW x \in RestingAt(old), Precedes(side, x, <<p, n + 1>>)
       PROVE  g[x] = Own(old, x)
  <2>1. x[1] \in DOMAIN old /\ x[2] \in DOMAIN old[x[1]] /\ x = <<x[1], x[2]>>
    BY PlacesAre
  <2>2. PICK m \in 0 .. Len(old[x[1]]) : IsLeft(old, g, now, x[1], m)
    BY <2>1 DEF Progress
  <2>3. old[x[1]] \in Seq(Order) /\ Len(old[x[1]]) \in Nat /\ DOMAIN old[x[1]] = 1 .. Len(old[x[1]])
    BY <2>1, LevelsAre
  <2>4. CASE x[1] = p
    <3>1. p \in Nat
      BY <1>1, LevelsAre
    <3>2. x[2] < n + 1
      BY <1>10, <2>4, <3>1 DEF Precedes, Better
    <3>3. x[2] \in 1 .. n
      BY <1>2, <2>1, <2>4, <3>2
    <3> QED
      BY <2>1, <2>4, <3>3 DEF IsLeft
  <2>5. CASE x[1] # p
    <3>1. Better(side, x[1], p) /\ x[1] \in Nat /\ p \in Nat
      BY <1>1, <1>10, <2>1, <2>5, LevelsAre DEF Precedes
    <3>2. x[1] \notin DOMAIN now
      BY <2>5, <3>1 DEF IsBest, Better
    <3>3. [k \in 1 .. Len(old[x[1]]) - m |-> Given(old, g, x[1], m + k)] = <<>>
      BY <2>2, <3>2 DEF IsLeft, LevelAt
    <3>4. DOMAIN [k \in 1 .. Len(old[x[1]]) - m |-> Given(old, g, x[1], m + k)] = {}
      BY <3>3
    <3>5. ~(1 \in 1 .. Len(old[x[1]]) - m)
      BY <3>4
    <3>6. x[2] \in 1 .. m
      BY <2>1, <2>3, <3>5
    <3> QED
      BY <2>1, <2>2, <3>6 DEF IsLeft
  <2> QED
    BY <2>4, <2>5
<1> QED
  BY <1>1, <1>4, <1>8, <1>9, <1>10

(* The place y is given m of what is left of the incoming order.           *)
LEMMA GivenStep ==
  ASSUME NEW old, NEW o0, NEW side, side = Opposite(o0.type), SoundLevels(old, side), NEW g, NEW o, NEW q,
         IsGiven(old, g, o0, o), Remaining(o) > 0, Remaining(o) \in Nat,
         NEW y \in RestingAt(old), g[y] = 0, Crosses(o0, y[1]),
         \A x \in RestingAt(old) : Precedes(side, x, y) => g[x] = Own(old, x),
         NEW m \in Nat, m > 0, m <= Own(old, y), m <= Remaining(o),
         Remaining(q) = Remaining(o) - m, Remaining(q) > 0 => m = Own(old, y)
  PROVE  IsGiven(old, Give(g, y, m), o0, q)
<1> DEFINE h == Give(g, y, m)
<1>1. g \in [RestingAt(old) -> Nat] /\ h \in [RestingAt(old) -> Nat]
  BY DEF IsGiven, Give
<1>2. h[y] = m /\ \A x \in RestingAt(old) : x # y => h[x] = g[x]
  BY <1>1 DEF Give
<1>3. Own(old, y) \in Nat /\ Own(old, y) > 0
  <2>1. y[1] \in DOMAIN old /\ y[2] \in DOMAIN old[y[1]]
    BY PlacesAre
  <2> QED
    BY <2>1, LevelsAre DEF Own
<1> HIDE DEF h
<1>4. \A x \in RestingAt(old) : h[x] <= Own(old, x) /\ (h[x] > 0 => Crosses(o0, x[1]))
  BY <1>2 DEF IsGiven
<1>5. ~Precedes(side, y, y)
  <2>1. y[1] \in DOMAIN old /\ y[2] \in DOMAIN old[y[1]]
    BY PlacesAre
  <2>2. y[1] \in Nat /\ y[2] \in Nat
    BY <2>1, LevelsAre
  <2> QED
    BY <2>2 DEF Precedes, Better
<1>6. ASSUME NEW x \in RestingAt(old), NEW z \in RestingAt(old),
             Precedes(side, x, z), h[z] > 0
      PROVE  h[x] = Own(old, x)
  <2>1. CASE z = y
    BY <1>2, <1>5, <1>6, <2>1
  <2>2. CASE z # y
    <3>1. g[z] > 0 /\ g[x] = Own(old, x)
      BY <1>2, <1>6, <2>2 DEF IsGiven
    <3> QED
      BY <1>2, <1>3, <3>1
  <2> QED
    BY <2>1, <2>2
<1>7. Remaining(q) > 0 => \A x \in RestingAt(old) : h[x] = 0 \/ h[x] = Own(old, x)
  BY <1>2 DEF IsGiven
<1>8. IsGiven(old, h, o0, q)
  BY <1>1, <1>4, <1>6, <1>7 DEF IsGiven
<1> QED
  BY <1>8 DEF h

LEMMA PutLevelIs ==
  ASSUME NEW levels, NEW p \in DOMAIN levels, NEW queue
  PROVE  /\ DOMAIN PutLevel(levels, p, queue) \subseteq DOMAIN levels
         /\ LevelAt(PutLevel(levels, p, queue), p) = queue
         /\ \A q : q # p => LevelAt(PutLevel(levels, p, queue), q) = LevelAt(levels, q)
<1>1. CASE queue = <<>>
  <2>1. PutLevel(levels, p, queue) = [q \in DOMAIN levels \ {p} |-> levels[q]]
    BY <1>1 DEF PutLevel, Erase, Restrict
  <2> QED
    BY <1>1, <2>1 DEF LevelAt
<1>2. CASE queue # <<>>
  <2>1. PutLevel(levels, p, queue) = [levels EXCEPT ![p] = queue]
    BY <1>2 DEF PutLevel
  <2> QED
    BY <2>1 DEF LevelAt
<1> QED
  BY <1>1, <1>2

(* When the place at p is given some more, the levels show it.             *)
StaysLeft(old, g, now, p, h, new) ==
  /\ DOMAIN new \subseteq DOMAIN now
  /\ \A q \in DOMAIN old \ {p} : \A k \in 0 .. Len(old[q]) :
       IsLeft(old, g, now, q, k) => IsLeft(old, h, new, q, k)
  /\ \E k \in 0 .. Len(old[p]) : IsLeft(old, h, new, p, k)

(* The front of the level at p, the order at place n + 1 of the old one,   *)
(* is filled by m, and goes when that is all it has.                       *)
LEMMA LeftStep ==
  ASSUME NEW old, NEW side, SoundLevels(old, side), NEW g, g \in [RestingAt(old) -> Nat], NEW now,
         NEW p, p \in DOMAIN old, p \in DOMAIN now, now[p] # <<>>,
         NEW n, n \in 0 .. Len(old[p]), IsLeft(old, g, now, p, n),
         n + 1 \in DOMAIN old[p], Head(now[p]) = old[p][n + 1],
         NEW m, m \in Nat, m <= Own(old, <<p, n + 1>>)
  PROVE  StaysLeft(old, g, now, p, Give(g, <<p, n + 1>>, m), PutLevel(now, p, AfterFill(now[p], m)))
<1> SUFFICES ASSUME NEW h, h = Give(g, <<p, n + 1>>, m),
                    NEW new, new = PutLevel(now, p, AfterFill(now[p], m))
             PROVE  /\ DOMAIN new \subseteq DOMAIN now
                    /\ \A q \in DOMAIN old \ {p} : \A k \in 0 .. Len(old[q]) :
                         IsLeft(old, g, now, q, k) => IsLeft(old, h, new, q, k)
                    /\ \E k \in 0 .. Len(old[p]) : IsLeft(old, h, new, p, k)
  BY DEF StaysLeft
<1>1. /\ DOMAIN new \subseteq DOMAIN now
      /\ LevelAt(new, p) = AfterFill(now[p], m)
      /\ \A q : q # p => LevelAt(new, q) = LevelAt(now, q)
  BY PutLevelIs
<1>2. /\ h \in [RestingAt(old) -> Nat] /\ h[<<p, n + 1>>] = m
      /\ \A q \in DOMAIN old : \A k \in DOMAIN old[q] :
           <<q, k>> # <<p, n + 1>> => h[<<q, k>>] = g[<<q, k>>]
  <2>1. <<p, n + 1>> \in RestingAt(old)
    BY PlacesAre
  <2>2. /\ h \in [RestingAt(old) -> Nat] /\ h[<<p, n + 1>>] = m
        /\ \A x \in RestingAt(old) : x # <<p, n + 1>> => h[x] = g[x]
    BY <2>1 DEF Give
  <2>3. \A q \in DOMAIN old : \A k \in DOMAIN old[q] : <<q, k>> \in RestingAt(old)
    BY PlacesAre
  <2> QED
    BY <2>2, <2>3
<1>3. \A q \in DOMAIN old : \A k \in DOMAIN old[q] :
        <<q, k>> # <<p, n + 1>> => Given(old, h, q, k) = Given(old, g, q, k)
  BY <1>2 DEF Given
<1>4. ASSUME NEW q \in DOMAIN old \ {p}, NEW k \in 0 .. Len(old[q]), IsLeft(old, g, now, q, k)
      PROVE  IsLeft(old, h, new, q, k)
  <2>1. \A j \in DOMAIN old[q] :
          h[<<q, j>>] = g[<<q, j>>] /\ Given(old, h, q, j) = Given(old, g, q, j)
    BY <1>2, <1>3
  <2>2. old[q] \in Seq(Order) /\ Len(old[q]) \in Nat /\ DOMAIN old[q] = 1 .. Len(old[q])
    <3>1. old[q] \in Seq(Order)
      BY LevelsAre
    <3> QED
      BY <3>1
  <2>3. /\ \A j \in 1 .. k : j \in DOMAIN old[q]
        /\ \A j \in 1 .. Len(old[q]) - k : k + j \in DOMAIN old[q]
    BY <2>2
  <2> QED
    BY <1>1, <1>4, <2>1, <2>3 DEF IsLeft
<1>5. now[p] = [k \in 1 .. Len(old[p]) - n |-> Given(old, g, p, n + k)]
  BY DEF IsLeft, LevelAt
<1>6. old[p] \in Seq(Order) /\ Len(old[p]) \in Nat /\ DOMAIN old[p] = 1 .. Len(old[p]) /\ n + 1 <= Len(old[p])
  <2>1. old[p] \in Seq(Order)
    BY LevelsAre
  <2> QED
    BY <2>1
<1>7. /\ \A k \in 1 .. Len(old[p]) : Given(old, g, p, k) \in Order
      /\ IsFilled(Given(old, h, p, n + 1)) <=> m >= Own(old, <<p, n + 1>>)
      /\ Own(old, <<p, n + 1>>) \in Nat
  <2>1. \A k \in 1 .. Len(old[p]) : Given(old, g, p, k) \in Order
    BY <1>6, GivenIs
  <2>2. h \in [RestingAt(old) -> Nat] /\ n + 1 \in DOMAIN old[p]
    BY <1>2
  <2>3. /\ IsFilled(Given(old, h, p, n + 1)) <=> h[<<p, n + 1>>] >= Own(old, <<p, n + 1>>)
        /\ Own(old, <<p, n + 1>>) \in Nat
    BY <2>2, GivenIs
  <2> QED
    BY <1>2, <2>1, <2>3
<1>8. Given(old, h, p, n + 1) = FilledBy(Head(now[p]), m)
  BY <1>2 DEF Given
<1>9. CASE IsFilled(Given(old, h, p, n + 1))
  <2>1. AfterFill(now[p], m) = Tail(now[p])
    BY <1>8, <1>9 DEF AfterFill
  <2>2. m = Own(old, <<p, n + 1>>)
    BY <1>7, <1>9
  <2>3. \A k \in 1 .. n + 1 : h[<<p, k>>] = Own(old, <<p, k>>)
    <3> SUFFICES ASSUME NEW k \in 1 .. n + 1 PROVE h[<<p, k>>] = Own(old, <<p, k>>)
      OBVIOUS
    <3>1. CASE k = n + 1
      BY <1>2, <2>2, <3>1
    <3>2. CASE k # n + 1
      <4>1. k \in 1 .. n /\ k \in DOMAIN old[p]
        BY <1>6, <3>2
      <4> QED
        BY <1>2, <3>2, <4>1 DEF IsLeft
    <3> QED
      BY <3>1, <3>2
  <2>4. Tail(now[p]) = [k \in 1 .. Len(old[p]) - (n + 1) |-> Given(old, h, p, (n + 1) + k)]
    <3> DEFINE len == Len(old[p]) - n
               F == [k \in 1 .. len |-> Given(old, g, p, n + k)]
    <3>1. len \in Nat /\ len >= 1
      BY <1>6
    <3> HIDE DEF len
    <3>2. F \in Seq(Order) /\ Len(F) = len
      <4>1. \A k \in 1 .. len : n + k \in 1 .. Len(old[p])
        BY <1>6 DEF len
      <4>2. F \in [1 .. len -> Order]
        BY <1>7, <4>1
      <4>3. \A f \in [1 .. len -> Order] : f \in Seq(Order) /\ Len(f) = len
        BY <3>1
      <4> HIDE DEF F
      <4> QED
        BY <4>2, <4>3
    <3>3. Tail(F) = [k \in 1 .. len - 1 |-> F[k + 1]]
      <4> HIDE DEF F
      <4>1. /\ Tail(F) \in Seq(Order) /\ Len(Tail(F)) = len - 1
            /\ \A k \in 1 .. len - 1 : Tail(F)[k] = F[k + 1]
        BY <3>1, <3>2
      <4>2. PICK T : T = Tail(F)
        OBVIOUS
      <4>3. T \in Seq(Order) /\ Len(T) = len - 1
        BY <4>1, <4>2
      <4>4. T = [k \in 1 .. len - 1 |-> T[k]]
        <5>1. T \in [1 .. Len(T) -> Order]
          BY <4>3
        <5> QED
          BY <4>3, <5>1
      <4> QED
        BY <4>1, <4>2, <4>4
    <3>4. \A k \in 1 .. len - 1 : F[k + 1] = Given(old, h, p, (n + 1) + k)
      <4> SUFFICES ASSUME NEW k \in 1 .. len - 1 PROVE F[k + 1] = Given(old, h, p, (n + 1) + k)
        OBVIOUS
      <4>1. k + 1 \in 1 .. len /\ n + (k + 1) = (n + 1) + k /\ (n + 1) + k # n + 1
        BY <1>6, <3>1
      <4>2. <<p, (n + 1) + k>> # <<p, n + 1>>
        BY <4>1
      <4>3. Given(old, h, p, (n + 1) + k) = Given(old, g, p, (n + 1) + k)
        <5>1. (n + 1) + k \in DOMAIN old[p]
          BY <1>6, <4>1 DEF len
        <5> QED
          BY <1>3, <4>2, <5>1
      <4> QED
        BY <4>1, <4>3
    <3>5. len - 1 = Len(old[p]) - (n + 1)
      BY <1>6 DEF len
    <3>6. now[p] = F
      BY <1>5 DEF len
    <3> HIDE DEF F
    <3> QED
      BY <3>3, <3>4, <3>5, <3>6
  <2>5. IsLeft(old, h, new, p, n + 1)
    BY <1>1, <2>1, <2>3, <2>4 DEF IsLeft
  <2>6. n + 1 \in 0 .. Len(old[p])
    BY <1>6
  <2> QED
    BY <1>1, <1>4, <2>5, <2>6
<1>10. CASE ~IsFilled(Given(old, h, p, n + 1))
  <2>1. AfterFill(now[p], m) = [now[p] EXCEPT ![1] = Given(old, h, p, n + 1)]
    BY <1>8, <1>10 DEF AfterFill
  <2>2. \A k \in 1 .. n : h[<<p, k>>] = Own(old, <<p, k>>)
    <3> SUFFICES ASSUME NEW k \in 1 .. n PROVE h[<<p, k>>] = Own(old, <<p, k>>)
      OBVIOUS
    <3>1. k # n + 1 /\ k \in DOMAIN old[p]
      BY <1>6
    <3> QED
      BY <1>2, <3>1 DEF IsLeft
  <2>3. [now[p] EXCEPT ![1] = Given(old, h, p, n + 1)]
          = [k \in 1 .. Len(old[p]) - n |-> Given(old, h, p, n + k)]
    <3> DEFINE dom == 1 .. Len(old[p]) - n
               F == [k \in dom |-> Given(old, g, p, n + k)]
    <3>1. \A k \in dom : k # 1 => Given(old, h, p, n + k) = Given(old, g, p, n + k)
      <4> SUFFICES ASSUME NEW k \in dom, k # 1
                   PROVE  Given(old, h, p, n + k) = Given(old, g, p, n + k)
        OBVIOUS
      <4>1. n + k # n + 1 /\ n + k \in DOMAIN old[p]
        BY <1>6
      <4> QED
        BY <1>3, <4>1
    <3>2. now[p] = F
      BY <1>5
    <3> HIDE DEF dom
    <3>3. [F EXCEPT ![1] = Given(old, h, p, n + 1)] = [k \in dom |-> Given(old, h, p, n + k)]
      BY <3>1
    <3> QED
      BY <3>2, <3>3 DEF dom
  <2>4. IsLeft(old, h, new, p, n)
    BY <1>1, <2>1, <2>2, <2>3 DEF IsLeft
  <2> QED
    BY <1>1, <1>4, <2>4
<1> QED
  BY <1>1, <1>4, <1>9, <1>10

(* The sum of what has been given, when one more place is given m.         *)
LEMMA GivenSum ==
  ASSUME NEW S, IsFiniteSet(S), NEW g \in [S -> Nat], NEW y \in S, g[y] = 0, NEW m \in Nat
  PROVE  SumIn(g, S) \in Nat /\ SumIn(Give(g, y, m), S) = SumIn(g, S) + m
<1>1. PICK h : h = Give(g, y, m)
  OBVIOUS
<1>2. /\ h \in [S -> Int] /\ g \in [S -> Int] /\ \A x \in S \ {y} : h[x] = g[x]
      /\ h[y] = m /\ [x \in S |-> g[x]] = g /\ [x \in S |-> h[x]] = h
  <2>1. h \in [S -> Nat] /\ h[y] = m /\ \A x \in S \ {y} : h[x] = g[x]
    BY <1>1 DEF Give
  <2>2. \A f \in [S -> Nat] : f \in [S -> Int] /\ [x \in S |-> f[x]] = f
    OBVIOUS
  <2> QED
    BY <2>1, <2>2
<1>3. SumFunction(h) = SumFunction(g) + (h[y] - g[y])
  BY <1>2, SumChanges
<1>4. SumIn(g, S) = SumFunction(g) /\ SumIn(h, S) = SumFunction(h)
  BY <1>2 DEF SumIn
<1>5. SumIn(g, S) \in Nat
  <2>1. S \in SUBSET S
    OBVIOUS
  <2> QED
    BY <2>1, SumGrows
<1> QED
  BY <1>1, <1>2, <1>3, <1>4, <1>5

(* The trade made with the front order is one more.                        *)
LEMMA TradesStep ==
  ASSUME NEW old, NEW g, g \in [RestingAt(old) -> Nat], NEW o0,
         NEW y, y \in RestingAt(old), g[y] = 0, NEW m, m \in Nat, m > 0
  PROVE  \A tr : tr \in TradesGiven(old, Give(g, y, m), o0)
                   <=> tr \in TradesGiven(old, g, o0) \/ tr = CreateTrade(o0, old[y[1]][y[2]], m, y[1])
<1>1. PICK h : h = Give(g, y, m)
  OBVIOUS
<1>2. h[y] = m /\ \A x \in RestingAt(old) : x # y => h[x] = g[x]
  BY <1>1 DEF Give
<1>3. {z \in RestingAt(old) : h[z] > 0} = {z \in RestingAt(old) : g[z] > 0} \cup {y}
  BY <1>2
<1>4. TradeFor(old, h, o0, y) = CreateTrade(o0, old[y[1]][y[2]], m, y[1])
  BY <1>2 DEF TradeFor
<1>5. \A x \in RestingAt(old) : x # y => TradeFor(old, h, o0, x) = TradeFor(old, g, o0, x)
  BY <1>2 DEF TradeFor
<1>6. y \notin {z \in RestingAt(old) : g[z] > 0}
  OBVIOUS
<1>7. PICK P : P = {z \in RestingAt(old) : g[z] > 0}
  OBVIOUS
<1>8. /\ TradesGiven(old, g, o0) = {TradeFor(old, g, o0, x) : x \in P}
      /\ TradesGiven(old, h, o0) = {TradeFor(old, h, o0, x) : x \in P \cup {y}}
  BY <1>3, <1>7 DEF TradesGiven
<1>9. \A x \in P : TradeFor(old, h, o0, x) = TradeFor(old, g, o0, x)
  BY <1>5, <1>6, <1>7
<1> QED
  BY <1>1, <1>4, <1>8, <1>9

LEMMA MatchQuantityIs ==
  ASSUME NEW o \in Order, Remaining(o) > 0, NEW r \in Order, Remaining(r) > 0
  PROVE  /\ Remaining(o) \in Nat /\ Remaining(r) \in Nat
         /\ MatchQuantity(o, r) \in Nat /\ MatchQuantity(o, r) > 0
         /\ MatchQuantity(o, r) <= Remaining(o) /\ MatchQuantity(o, r) <= Remaining(r)
         /\ MatchQuantity(o, r) < Remaining(o) => MatchQuantity(o, r) = Remaining(r)
         /\ Remaining(FilledBy(o, MatchQuantity(o, r))) = Remaining(o) - MatchQuantity(o, r)
<1>1. o.quantity \in Nat /\ o.filled \in Nat /\ r.quantity \in Nat /\ r.filled \in Nat
  BY OrderFields
<1>2. Remaining(o) \in Nat /\ Remaining(r) \in Nat
  BY <1>1 DEF Remaining
<1>3. PICK n : n = MatchQuantity(o, r)
  OBVIOUS
<1>4. n = IF Remaining(o) <= Remaining(r) THEN Remaining(o) ELSE Remaining(r)
  BY <1>3 DEF MatchQuantity
<1>5. n \in Nat /\ n > 0 /\ n <= Remaining(o) /\ n <= Remaining(r) /\ (n < Remaining(o) => n = Remaining(r))
  BY <1>2, <1>4
<1>6. FilledBy(o, n).quantity = o.quantity /\ FilledBy(o, n).filled = o.filled + n
  BY <1>5, FilledByType
<1>7. Remaining(FilledBy(o, n)) = Remaining(o) - n
  BY <1>1, <1>5, <1>6 DEF Remaining
<1> QED
  BY <1>2, <1>3, <1>5, <1>7

(* One iteration of the loop.                                              *)
LEMMA ProgressStep ==
  ASSUME NEW old, NEW o0 \in Order, Remaining(o0) \in Nat, SoundLevels(old, Opposite(o0.type)),
         NEW now, NEW g, NEW o, NEW trades,
         Progress(old, now, g, o0, o, trades), Remaining(o) > 0,
         NEW p, IsBest(now, Opposite(o0.type), p), Crosses(o0, p),
         now[p] # <<>>, Head(now[p]) \in Order, Remaining(Head(now[p])) > 0,
         NEW m, m = MatchQuantity(o, Head(now[p]))
  PROVE  \E h : Progress(old, PutLevel(now, p, AfterFill(now[p], m)), h, o0, FilledBy(o, m),
                         trades \cup {CreateTrade(o, Head(now[p]), m, p)})
<1>1. PICK side : side = Opposite(o0.type)
  OBVIOUS
<1>2. PICK S : S = RestingAt(old)
  OBVIOUS
<1>3. g \in [S -> Nat] /\ IsFiniteSet(S)
  BY <1>2, PlacesAreFinite DEF Progress, IsGiven
<1>4. PICK sum : sum = SumIn(g, S)
  OBVIOUS
<1>5. sum \in Nat /\ sum <= Remaining(o0) /\ o = FilledBy(o0, sum)
  <2>1. S \in SUBSET S
    OBVIOUS
  <2>2. sum \in Nat
    BY <1>3, <1>4, <2>1, SumGrows
  <2> QED
    BY <1>2, <1>4, <2>2 DEF Progress
<1>6. /\ o \in Order /\ o.type = o0.type /\ o.quantity = o0.quantity /\ o.filled = o0.filled + sum
      /\ o.id = o0.id
  BY <1>5, FilledByType DEF FilledBy, Order
<1>7. Remaining(o) = Remaining(o0) - sum /\ Remaining(o) \in Nat
  <2>1. o0.quantity \in Nat /\ o0.filled \in Nat
    BY OrderFields
  <2> QED
    BY <1>5, <1>6, <2>1 DEF Remaining
<1>8. p \in DOMAIN now /\ p \in DOMAIN old
  BY DEF IsBest, Progress
<1>9. PICK n \in 0 .. Len(old[p]) : IsLeft(old, g, now, p, n)
  BY <1>8 DEF Progress
<1>10. PICK y : y = <<p, n + 1>>
  OBVIOUS
<1>11. /\ n + 1 \in DOMAIN old[p] /\ g[y] = 0 /\ Head(now[p]) = old[p][n + 1]
       /\ \A x \in S : Precedes(side, x, y) => g[x] = Own(old, x)
  BY <1>1, <1>2, <1>9, <1>10, FrontIs
<1>12. y \in S /\ y[1] = p /\ y[2] = n + 1 /\ Own(old, y) = Remaining(Head(now[p]))
  <2>1. y \in S
    BY <1>2, <1>8, <1>10, <1>11, PlacesAre
  <2> QED
    BY <1>10, <1>11, <2>1 DEF Own
<1>13. /\ m \in Nat /\ m > 0 /\ m <= Remaining(o) /\ m <= Own(old, y)
       /\ m < Remaining(o) => m = Own(old, y)
       /\ Remaining(FilledBy(o, m)) = Remaining(o) - m
  BY <1>6, <1>12, MatchQuantityIs
<1>14. PICK h : h = Give(g, y, m)
  OBVIOUS
<1>15. IsGiven(old, h, o0, FilledBy(o, m))
  <2>1. Remaining(FilledBy(o, m)) > 0 => m = Own(old, y)
    BY <1>7, <1>13
  <2>2. IsGiven(old, g, o0, o)
    BY DEF Progress
  <2>3. PICK q : q = FilledBy(o, m)
    OBVIOUS
  <2>4. Remaining(q) = Remaining(o) - m /\ (Remaining(q) > 0 => m = Own(old, y))
    BY <1>13, <2>1, <2>3
  <2>5. IsGiven(old, Give(g, y, m), o0, q)
    BY <1>1, <1>2, <1>7, <1>11, <1>12, <1>13, <2>2, <2>4, GivenStep
  <2> QED
    BY <1>14, <2>3, <2>5
<1>16. SumIn(h, S) = sum + m
  BY <1>3, <1>4, <1>11, <1>12, <1>13, <1>14, GivenSum
<1>17. SumIn(h, S) <= Remaining(o0) /\ FilledBy(o, m) = FilledBy(o0, SumIn(h, S))
  <2>1. sum + m <= Remaining(o0)
    BY <1>5, <1>7, <1>13
  <2>2. FilledBy(FilledBy(o0, sum), m) = FilledBy(o0, sum + m)
    <3>1. o0.filled + (sum + m) = (o0.filled + sum) + m
      <4>1. o0.filled \in Nat
        BY OrderFields
      <4> QED
        BY <1>5, <1>13, <4>1
    <3> QED
      BY <3>1 DEF FilledBy, Order
  <2> QED
    BY <1>5, <1>16, <2>1, <2>2
<1>18. PICK new : new = PutLevel(now, p, AfterFill(now[p], m))
  OBVIOUS
<1>19. /\ DOMAIN new \subseteq DOMAIN old
       /\ \A q \in DOMAIN old : \E k \in 0 .. Len(old[q]) : IsLeft(old, h, new, q, k)
  <2>1. /\ DOMAIN new \subseteq DOMAIN now
        /\ \A q \in DOMAIN old \ {p} : \A k \in 0 .. Len(old[q]) :
              IsLeft(old, g, now, q, k) => IsLeft(old, h, new, q, k)
        /\ \E k \in 0 .. Len(old[p]) : IsLeft(old, h, new, p, k)
    <3>1. /\ SoundLevels(old, side) /\ g \in [RestingAt(old) -> Nat]
          /\ p \in DOMAIN old /\ p \in DOMAIN now /\ now[p] # <<>>
          /\ n \in 0 .. Len(old[p]) /\ IsLeft(old, g, now, p, n)
          /\ n + 1 \in DOMAIN old[p] /\ Head(now[p]) = old[p][n + 1]
          /\ m \in Nat /\ m <= Own(old, <<p, n + 1>>)
      BY <1>1, <1>2, <1>3, <1>8, <1>9, <1>10, <1>11, <1>13, <1>14, <1>18
    <3>2. StaysLeft(old, g, now, p, Give(g, <<p, n + 1>>, m), PutLevel(now, p, AfterFill(now[p], m)))
      BY <3>1, LeftStep
    <3> QED
      BY <1>10, <1>14, <1>18, <3>2 DEF StaysLeft
  <2>2. /\ DOMAIN now \subseteq DOMAIN old
        /\ \A q \in DOMAIN old : \E k \in 0 .. Len(old[q]) : IsLeft(old, g, now, q, k)
    BY DEF Progress
  <2> QED
    BY <2>1, <2>2
<1>20. trades \cup {CreateTrade(o, Head(now[p]), m, p)}
         = TradesGiven(old, h, o0)
  <2>1. CreateTrade(o, Head(now[p]), m, p) = CreateTrade(o0, old[y[1]][y[2]], m, y[1])
    BY <1>6, <1>11, <1>12 DEF CreateTrade
  <2>2. trades = TradesGiven(old, g, o0)
    BY DEF Progress
  <2> QED
    <3>1. /\ g \in [RestingAt(old) -> Nat] /\ y \in RestingAt(old) /\ g[y] = 0
          /\ m \in Nat /\ m > 0
      BY <1>14, <1>2, <1>3, <1>11, <1>12, <1>13
    <3>2. \A tr : tr \in TradesGiven(old, Give(g, y, m), o0)
                    <=> tr \in TradesGiven(old, g, o0)
                        \/ tr = CreateTrade(o0, old[y[1]][y[2]], m, y[1])
      BY <3>1, TradesStep
    <3> QED
      BY <1>14, <2>1, <2>2, <3>2
<1>21. PICK q : q = FilledBy(o, m)
  OBVIOUS
<1>22. PICK more : more = trades \cup {CreateTrade(o, Head(now[p]), m, p)}
  OBVIOUS
<1>23. Progress(old, new, h, o0, q, more)
  BY <1>2, <1>15, <1>17, <1>19, <1>20, <1>21, <1>22 DEF Progress
<1> QED
  BY <1>18, <1>21, <1>22, <1>23

(* When the loop has ended, each place has been given what the engine      *)
(* gives it.                                                               *)
LEMMA EndIsServed ==
  ASSUME NEW old, NEW o0, o0 \in Order, Remaining(o0) \in Nat, SoundLevels(old, Opposite(o0.type)),
         NEW now, NEW g, NEW o, NEW trades,
         Progress(old, now, g, o0, o, trades),
         Remaining(o) > 0 => \A p \in DOMAIN now : ~Crosses(o, p)
  PROVE  IsServed(g, [x \in RestingAt(old) |-> Own(old, x)], RestingAt(old),
                  Eligible(QueuesOf(old), o0), MatchOrder(old, Opposite(o0.type)), Remaining(o0))
<1>1. PICK side : side = Opposite(o0.type)
  OBVIOUS
<1>2. PICK S : S = RestingAt(old)
  OBVIOUS
<1>3. PICK G : G = [x \in S |-> Own(old, x)]
  OBVIOUS
<1>4. PICK E : E = Eligible(QueuesOf(old), o0)
  OBVIOUS
<1>5. E = {x \in S : Crosses(o0, x[1])} /\ S = RestingAt(QueuesOf(old))
  BY <1>1, <1>2, <1>4, QueuesAre DEF Eligible
<1>6. \A x \in S : G[x] = Own(old, x)
  BY <1>3
<1>7. g \in [S -> Nat] /\ IsFiniteSet(S)
  BY <1>2, PlacesAreFinite DEF Progress, IsGiven
<1>8. /\ \A x \in S : g[x] <= Own(old, x) /\ (g[x] > 0 => Crosses(o0, x[1]))
      /\ \A x, y \in S : Precedes(side, x, y) /\ g[y] > 0 => g[x] = Own(old, x)
  BY <1>1, <1>2 DEF Progress, IsGiven
<1>9. \A x, y \in E : <<x, y>> \in MatchOrder(old, side) /\ g[y] > 0 => g[x] = G[x]
  <2>1. \A x, y \in S : <<x, y>> \in MatchOrder(old, side) => Precedes(side, x, y)
    BY DEF MatchOrder
  <2> QED
    BY <1>5, <1>6, <1>8, <2>1
<1>10. PICK sum : sum = SumIn(g, S)
  OBVIOUS
<1>11. sum \in Nat /\ sum <= Remaining(o0) /\ o = FilledBy(o0, sum)
  <2>1. S \in SUBSET S
    OBVIOUS
  <2>2. sum \in Nat
    BY <1>7, <1>10, <2>1, SumGrows
  <2> QED
    BY <1>2, <1>10, <2>2 DEF Progress
<1>12. /\ Remaining(o) = Remaining(o0) - sum
       /\ o.mode = o0.mode /\ o.type = o0.type /\ o.price = o0.price
  <2>1. o0.quantity \in Nat /\ o0.filled \in Nat
    BY OrderFields
  <2>2. /\ o.quantity = o0.quantity /\ o.filled = o0.filled + sum
        /\ o.mode = o0.mode /\ o.type = o0.type /\ o.price = o0.price
    BY <1>11, FilledByType
  <2> QED
    BY <1>11, <2>1, <2>2 DEF Remaining
<1>13. ASSUME sum < Remaining(o0), NEW x \in E
       PROVE  g[x] = G[x]
  <2>1. Remaining(o) > 0
    BY <1>11, <1>12, <1>13
  <2>2. x \in S /\ Crosses(o0, x[1])
    BY <1>5, <1>13
  <2>3. Crosses(o, x[1])
    BY <1>12, <2>2 DEF Crosses
  <2>4. x[1] \notin DOMAIN now
    BY <2>1, <2>3
  <2>5. x[1] \in DOMAIN old /\ x[2] \in DOMAIN old[x[1]] /\ x = <<x[1], x[2]>>
    BY <1>2, <2>2, PlacesAre
  <2>6. PICK n \in 0 .. Len(old[x[1]]) : IsLeft(old, g, now, x[1], n)
    BY <2>5 DEF Progress
  <2>7. Len(old[x[1]]) \in Nat /\ DOMAIN old[x[1]] = 1 .. Len(old[x[1]])
    <3>1. old[x[1]] \in Seq(Order)
      BY <2>5, LevelsAre
    <3> QED
      BY <3>1
  <2>8. [k \in 1 .. Len(old[x[1]]) - n |-> Given(old, g, x[1], n + k)] = <<>>
    BY <2>4, <2>6 DEF IsLeft, LevelAt
  <2>9. DOMAIN [k \in 1 .. Len(old[x[1]]) - n |-> Given(old, g, x[1], n + k)] = {}
    BY <2>8
  <2>10. ~(1 \in 1 .. Len(old[x[1]]) - n)
    BY <2>9
  <2>11. x[2] \in 1 .. n
    BY <2>5, <2>7, <2>10
  <2> QED
    BY <1>6, <2>2, <2>5, <2>6, <2>11 DEF IsLeft
<1>14. IsServed(g, G, S, E, MatchOrder(old, side), Remaining(o0))
  <2>1. \A x \in S : g[x] <= G[x] /\ (g[x] > 0 => x \in E)
    BY <1>5, <1>6, <1>8
  <2> QED
    BY <1>9, <1>10, <1>11, <1>13, <2>1 DEF IsServed
<1> QED
  BY <1>1, <1>2, <1>3, <1>4, <1>14

LEMMA FillIsGiven ==
  ASSUME NEW old, NEW o0, o0 \in Order, Remaining(o0) \in Nat, SoundLevels(old, Opposite(o0.type)),
         NEW now, NEW g, NEW o, NEW trades,
         Progress(old, now, g, o0, o, trades),
         Remaining(o) > 0 => \A p \in DOMAIN now : ~Crosses(o, p),
         NEW x, x \in RestingAt(old)
  PROVE  Fill(QueuesOf(old), o0, x) = g[x]
<1>1. PICK side : side = Opposite(o0.type)
  OBVIOUS
<1>2. PICK S : S = RestingAt(old)
  OBVIOUS
<1>3. PICK G : G = [y \in S |-> Own(old, y)]
  OBVIOUS
<1>4. PICK E : E = Eligible(QueuesOf(old), o0)
  OBVIOUS
<1>5. PICK before : before = MatchOrder(old, side)
  OBVIOUS
<1>6. PICK Q : Q = QueuesOf(old)
  OBVIOUS
<1>7. IsServed(g, G, S, E, before, Remaining(o0))
  <2>1. IsServed(g, [y \in RestingAt(old) |-> Own(old, y)], RestingAt(old),
                 Eligible(QueuesOf(old), o0), MatchOrder(old, Opposite(o0.type)), Remaining(o0))
    BY EndIsServed
  <2> QED
    BY <1>1, <1>2, <1>3, <1>4, <1>5, <2>1
<1>8. side \in Side
  BY <1>1 DEF Opposite, Side
<1>9. /\ IsFiniteSet(S) /\ E \in SUBSET S /\ IsTotalOrder(before, S)
      /\ \A a, b \in S : <<a, b>> \in before <=> Precedes(side, a, b)
  <2>1. E \in SUBSET S
    BY <1>1, <1>2, <1>4, QueuesAre DEF Eligible
  <2>2. IsFiniteSet(S)
    BY <1>1, <1>2, PlacesAreFinite
  <2>3. /\ IsTotalOrder(before, S)
        /\ \A a, b \in S : <<a, b>> \in before <=> Precedes(side, a, b)
    BY <1>1, <1>2, <1>5, <1>8, MatchOrderIsTotal
  <2> QED
    BY <2>1, <2>2, <2>3
<1>10. /\ \A y \in S : Own(old, y) \in Nat /\ Own(old, y) > 0 /\ Own(old, y) = Remaining(At(Q, y))
       /\ G \in [S -> Nat] /\ \A y \in S : G[y] = Own(old, y) /\ G[y] > 0
  <2>1. \A y \in S : Own(old, y) \in Nat /\ Own(old, y) > 0
    BY <1>1, <1>2, PlacesAre, LevelsAre DEF Own
  <2>2. \A y \in S : Own(old, y) = Remaining(At(Q, y))
    BY <1>1, <1>2, <1>6, QueuesAre DEF Own
  <2>3. G \in [S -> Nat] /\ \A y \in S : G[y] = Own(old, y)
    BY <1>3, <2>1
  <2> QED
    BY <2>1, <2>2, <2>3
<1>11. g \in [S -> Nat] /\ \A y \in S : g[y] > 0 => y \in E
  BY <1>2, <1>7 DEF Progress, IsGiven, IsServed
<1>12. CASE x \notin E
  <2>1. g[x] \in Nat /\ ~(g[x] > 0)
    BY <1>2, <1>11, <1>12
  <2> QED
    BY <1>4, <1>12, <2>1 DEF Fill
<1>13. CASE x \in E
  <2>1. PICK P : P = {y \in E : <<y, x>> \in before}
    OBVIOUS
  <2>2. LET left == Remaining(o0) - SumIn(G, {y \in E : <<y, x>> \in before})
        IN  g[x] = IF left <= 0 THEN 0 ELSE IF left < G[x] THEN left ELSE G[x]
    <3>1. \A y \in S : G[y] > 0
      BY <1>10
    <3> QED
      BY <1>7, <1>9, <1>10, <1>11, <1>13, <3>1, Served
  <2>3. PICK left : left = Remaining(o0) - SumIn(G, P)
    OBVIOUS
  <2>4. g[x] = IF left <= 0 THEN 0 ELSE IF left < G[x] THEN left ELSE G[x]
    BY <2>1, <2>2, <2>3
  <2>5. Ahead(Q, o0, x) = SumIn(G, P)
    <3>1. P = {a \in Eligible(Q, o0) : Precedes(Opposite(o0.type), a, x)}
      BY <1>1, <1>2, <1>4, <1>6, <1>9, <2>1
    <3>2. \A a \in P : Remaining(At(Q, a)) = G[a]
      BY <1>9, <1>10, <2>1
    <3>3. [a \in P |-> Remaining(At(Q, a))] = [a \in P |-> G[a]]
      BY <3>2
    <3>4. Ahead(Q, o0, x) = SumFunction([a \in P |-> Remaining(At(Q, a))])
      BY <3>1 DEF Ahead
    <3> QED
      BY <3>3, <3>4 DEF SumIn
  <2>6. Fill(Q, o0, x) = IF left <= 0 THEN 0
                         ELSE IF left < Remaining(At(Q, x)) THEN left ELSE Remaining(At(Q, x))
    BY <1>4, <1>6, <1>13, <2>3, <2>5 DEF Fill
  <2>7. Remaining(At(Q, x)) = G[x]
    BY <1>2, <1>10
  <2> QED
    BY <1>6, <2>4, <2>6, <2>7
<1> QED
  BY <1>12, <1>13

(* The call has come to its end, with g given out of the side old.         *)
Ends(old, now, g, o0, o, trades) ==
  /\ o0 \in Order /\ Remaining(o0) \in Nat /\ SoundLevels(old, Opposite(o0.type))
  /\ SoundLevels(now, Opposite(o0.type))
  /\ Progress(old, now, g, o0, o, trades)
  /\ Remaining(o) > 0 => \A p \in DOMAIN now : ~Crosses(o, p)

LEMMA FillIs ==
  ASSUME NEW old, NEW now, NEW g, NEW o0, NEW o, NEW trades, Ends(old, now, g, o0, o, trades)
  PROVE  /\ \A x \in RestingAt(old) : Fill(QueuesOf(old), o0, x) = g[x] /\ g[x] \in Nat
         /\ Matched(QueuesOf(old), o0) = {x \in RestingAt(old) : g[x] > 0}
<1>1. \A x \in RestingAt(old) : Fill(QueuesOf(old), o0, x) = g[x] /\ g[x] \in Nat
  <2>1. \A x \in RestingAt(old) : Fill(QueuesOf(old), o0, x) = g[x]
    BY FillIsGiven DEF Ends
  <2> QED
    BY <2>1 DEF Ends, Progress, IsGiven
<1>2. RestingAt(QueuesOf(old)) = RestingAt(old)
  BY QueuesAre DEF Ends
<1>3. \A x \in RestingAt(old) : g[x] > 0 => Crosses(o0, x[1])
  BY DEF Ends, Progress, IsGiven
<1>4. PICK Q : Q = QueuesOf(old)
  OBVIOUS
<1>5. Matched(Q, o0) = {x \in RestingAt(old) : g[x] > 0}
  BY <1>1, <1>2, <1>3, <1>4 DEF Matched, Eligible
<1> QED
  BY <1>1, <1>4, <1>5

LEMMA TotalFillIs ==
  ASSUME NEW old, NEW now, NEW g, NEW o0, NEW o, NEW trades, Ends(old, now, g, o0, o, trades)
  PROVE  Incoming(QueuesOf(old), o0) = o
<1>1. PICK S : S = RestingAt(old)
  OBVIOUS
<1>2. PICK M : M = Matched(QueuesOf(old), o0)
  OBVIOUS
<1>3. M = {x \in S : g[x] > 0} /\ \A x \in S : Fill(QueuesOf(old), o0, x) = g[x] /\ g[x] \in Nat
  BY <1>1, <1>2, FillIs
<1>4. IsFiniteSet(S) /\ g \in [S -> Nat]
  BY <1>1, PlacesAreFinite DEF Ends, Progress, IsGiven
<1>5. SumIn(g, S) = SumIn(g, M)
  <2>1. g \in [S -> Int] /\ S \in SUBSET S /\ M \in SUBSET S /\ \A x \in S : x \notin M => g[x] = 0
    BY <1>3, <1>4
  <2> QED
    BY <1>4, <2>1, SumWithoutZeros
<1>6. [x \in M |-> Fill(QueuesOf(old), o0, x)] = [x \in M |-> g[x]]
  BY <1>3
<1>7. TotalFill(QueuesOf(old), o0) = SumIn(g, S)
  BY <1>2, <1>5, <1>6 DEF TotalFill, SumIn
<1> QED
  BY <1>1, <1>7 DEF Incoming, Ends, Progress

LEMMA ExecutionsAre ==
  ASSUME NEW old, NEW now, NEW g, NEW o0, NEW o, NEW trades, Ends(old, now, g, o0, o, trades)
  PROVE  Range(Executions(QueuesOf(old), o0)) = trades
<1>1. PICK S : S = RestingAt(old)
  OBVIOUS
<1>2. PICK Q : Q = QueuesOf(old)
  OBVIOUS
<1>3. PICK M : M = Matched(Q, o0)
  OBVIOUS
<1>4. PICK n : n = Cardinality(M)
  OBVIOUS
<1>5. PICK before : before = MatchOrder(old, Opposite(o0.type))
  OBVIOUS
<1>6. PICK turn : turn = Turns(Q, o0)
  OBVIOUS
<1>7. M = {x \in S : g[x] > 0} /\ \A x \in S : Fill(Q, o0, x) = g[x]
  BY <1>1, <1>2, <1>3, FillIs
<1>8. IsFiniteSet(M) /\ M \subseteq S
  <2>1. IsFiniteSet(S)
    BY <1>1, PlacesAreFinite DEF Ends
  <2> QED
    BY <1>7, <2>1, FS_Subset
<1>9. IsTotalOrder(before, M) /\ \A a, b \in M : <<a, b>> \in before <=> Precedes(Opposite(o0.type), a, b)
  <2>1. Opposite(o0.type) \in Side
    BY DEF Opposite, Side
  <2>2. /\ IsTotalOrder(before, S)
        /\ \A a, b \in S : <<a, b>> \in before <=> Precedes(Opposite(o0.type), a, b)
    BY <1>1, <1>5, <2>1, MatchOrderIsTotal DEF Ends
  <2> QED
    BY <1>8, <2>2 DEF IsTotalOrder
<1> DEFINE IsTurn(t) == \A a, b \in 1 .. n : a < b => Precedes(Opposite(o0.type), t[a], t[b])
<1>10. turn = CHOOSE t \in [1 .. n -> M] : IsTurn(t)
  BY <1>3, <1>4, <1>6 DEF Turns
<1>11. n \in Nat /\ \E t \in [1 .. n -> M] : InOrder(t, n, before)
  BY <1>4, <1>8, <1>9, SortExists
<1>12. \E t \in [1 .. n -> M] : IsTurn(t)
  BY <1>9, <1>11 DEF InOrder
<1>13. turn \in [1 .. n -> M] /\ IsTurn(turn)
  <2> HIDE DEF IsTurn
  <2> QED
    BY <1>10, <1>12, Zenon
<1>14. \A x \in M : \E a \in 1 .. n : turn[a] = x
  <2>1. /\ turn \in [1 .. Cardinality(M) -> M]
        /\ InOrder(turn, Cardinality(M), before)
    BY <1>4, <1>9, <1>13 DEF InOrder
  <2>2. \A x \in M : \E a \in 1 .. Cardinality(M) : turn[a] = x
    BY <1>8, <1>9, <2>1, SortedOnce
  <2> QED
    BY <1>4, <2>2
<1>15. \A x \in S : At(Q, x) = old[x[1]][x[2]]
  BY <1>1, <1>2, QueuesAre DEF Ends
<1>16. Executions(Q, o0) = [k \in 1 .. n |-> TradeFor(old, g, o0, turn[k])]
  <2>1. \A k \in 1 .. n : turn[k] \in S
    BY <1>8, <1>13
  <2>2. \A k \in 1 .. n : CreateTrade(o0, At(Q, turn[k]), Fill(Q, o0, turn[k]), turn[k][1])
                            = TradeFor(old, g, o0, turn[k])
    BY <1>7, <1>15, <2>1 DEF TradeFor
  <2>3. DOMAIN turn = 1 .. n
    BY <1>13
  <2>4. Executions(Q, o0)
          = [k \in DOMAIN turn |-> CreateTrade(o0, At(Q, turn[k]), Fill(Q, o0, turn[k]), turn[k][1])]
    BY <1>6 DEF Executions
  <2> QED
    BY <2>2, <2>3, <2>4
<1>17. Range(Executions(Q, o0)) = {TradeFor(old, g, o0, turn[k]) : k \in 1 .. n}
  BY <1>16 DEF Range
<1>18. {TradeFor(old, g, o0, turn[k]) : k \in 1 .. n} = {TradeFor(old, g, o0, x) : x \in M}
  BY <1>13, <1>14
<1>19. trades = {TradeFor(old, g, o0, x) : x \in M}
  BY <1>1, <1>7 DEF Ends, Progress, TradesGiven
<1> QED
  BY <1>2, <1>17, <1>18, <1>19

LEMMA QueueLeft ==
  ASSUME NEW old, NEW now, NEW g, NEW o0, NEW o, NEW trades, Ends(old, now, g, o0, o, trades),
         NEW p, p \in DOMAIN old
  PROVE  RowsAt([k \in DOMAIN old[p] |-> Given(old, g, p, k)],
                {i \in DOMAIN old[p] : ~IsFilled(Given(old, g, p, i))}) = LevelAt(now, p)
<1>1. PICK n \in 0 .. Len(old[p]) : IsLeft(old, g, now, p, n)
  BY DEF Ends, Progress
<1>2. PICK len : len = Len(old[p])
  OBVIOUS
<1>3. len \in Nat /\ DOMAIN old[p] = 1 .. len /\ n \in Nat /\ n <= len /\ len - n \in Nat
  <2>1. old[p] \in Seq(Order)
    BY LevelsAre DEF Ends
  <2>2. len \in Nat /\ DOMAIN old[p] = 1 .. len
    BY <1>2, <2>1
  <2> QED
    BY <1>1, <1>2, <2>2
<1>4. \A k \in 1 .. len : /\ Given(old, g, p, k) \in Order
                          /\ IsFilled(Given(old, g, p, k)) <=> g[<<p, k>>] >= Own(old, <<p, k>>)
                          /\ Own(old, <<p, k>>) \in Nat
  BY <1>3, GivenIs DEF Ends, Progress, IsGiven
<1>5. PICK pre : pre = [k \in 1 .. n |-> Given(old, g, p, k)]
  OBVIOUS
<1>6. PICK left : left = LevelAt(now, p)
  OBVIOUS
<1>7. left = [k \in 1 .. len - n |-> Given(old, g, p, n + k)]
  BY <1>1, <1>2, <1>6 DEF IsLeft
<1>8. PICK rows : rows = [k \in 1 .. len |-> Given(old, g, p, k)]
  OBVIOUS
<1>9. pre \in [1 .. n -> Order] /\ left \in [1 .. len - n -> Order] /\ rows \in [1 .. len -> Order]
  <2>1. \A k \in 1 .. n : k \in 1 .. len
    BY <1>3
  <2>2. \A k \in 1 .. len - n : n + k \in 1 .. len
    BY <1>3
  <2>3. pre \in [1 .. n -> Order]
    BY <1>4, <1>5, <2>1
  <2>4. left \in [1 .. len - n -> Order]
    BY <1>4, <1>7, <2>2
  <2>5. rows \in [1 .. len -> Order]
    BY <1>4, <1>8
  <2> QED
    BY <2>3, <2>4, <2>5
<1>10. \A j \in Nat : \A f \in [1 .. j -> Order] : f \in Seq(Order) /\ Len(f) = j
  OBVIOUS
<1>11. /\ pre \in Seq(Order) /\ left \in Seq(Order) /\ rows \in Seq(Order)
       /\ Len(pre) = n /\ Len(left) = len - n /\ Len(rows) = len
  BY <1>3, <1>9, <1>10
<1>12. rows = pre \o left
  <2>1. pre \o left \in Seq(Order) /\ Len(pre \o left) = len
    BY <1>3, <1>11, SMTT(30)
  <2>2. \A k \in 1 .. len : (pre \o left)[k] = IF k <= n THEN pre[k] ELSE left[k - n]
    BY <1>3, <1>11
  <2>3. \A k \in 1 .. len : (IF k <= n THEN pre[k] ELSE left[k - n]) = rows[k]
    <3> SUFFICES ASSUME NEW k \in 1 .. len
                 PROVE  (IF k <= n THEN pre[k] ELSE left[k - n]) = rows[k]
      OBVIOUS
    <3>1. CASE k <= n
      BY <1>3, <1>5, <1>8, <3>1
    <3>2. CASE ~(k <= n)
      <4>1. k - n \in 1 .. len - n /\ n + (k - n) = k
        BY <1>3, <3>2
      <4> QED
        BY <1>7, <1>8, <3>2, <4>1
    <3> QED
      BY <3>1, <3>2
  <2>4. PICK both : both = pre \o left
    OBVIOUS
  <2>5. both \in Seq(Order) /\ Len(both) = len /\ \A k \in 1 .. len : both[k] = rows[k]
    BY <2>1, <2>2, <2>3, <2>4
  <2> QED
    BY <1>11, <2>4, <2>5, SeqEqual
<1>13. PICK R : R = {r \in Order : ~IsFilled(r)}
  OBVIOUS
<1>14. Among(pre, R) = <<>>
  <2>1. ASSUME NEW i \in 1 .. n PROVE pre[i] \notin R
    <3>1. i \in 1 .. len /\ g[<<p, i>>] = Own(old, <<p, i>>)
      BY <1>1, <1>3 DEF IsLeft
    <3>2. IsFilled(Given(old, g, p, i)) /\ pre[i] = Given(old, g, p, i)
      BY <1>4, <1>5, <3>1
    <3> QED
      BY <1>13, <3>2
  <2>2. DOMAIN pre = 1 .. n
    BY <1>9
  <2> QED
    BY <1>11, <2>1, <2>2, AmongNoMatch
<1>15. Among(left, R) = left
  <2>1. ASSUME NEW i \in DOMAIN left PROVE left[i] \in R
    <3>1. left[i] \in Order
      BY <1>9
    <3>2. p \in DOMAIN now /\ left = now[p]
      <4>1. CASE p \in DOMAIN now
        BY <1>6, <4>1 DEF LevelAt
      <4>2. CASE p \notin DOMAIN now
        BY <1>6, <2>1, <4>2 DEF LevelAt
      <4> QED
        BY <4>1, <4>2
    <3>3. Remaining(left[i]) > 0
      BY <2>1, <3>2, LevelsAre DEF Ends
    <3>4. left[i].quantity \in Nat /\ left[i].filled \in Nat
      BY <3>1, OrderFields
    <3>5. ~IsFilled(left[i])
      BY <3>3, <3>4 DEF Remaining, IsFilled
    <3> QED
      BY <1>13, <3>1, <3>5
  <2> QED
    BY <1>11, <2>1, AmongAll
<1>16. Among(rows, R) = left
  <2>1. Among(pre \o left, R) = Among(pre, R) \o Among(left, R)
    BY <1>11, AmongConcat, ZenonT(60)
  <2>2. <<>> \o left = left
    BY <1>11
  <2> QED
    BY <1>12, <1>14, <1>15, <2>1, <2>2
<1>17. Among(rows, R) = RowsAt(rows, {i \in DOMAIN old[p] : ~IsFilled(Given(old, g, p, i))})
  <2>1. {i \in DOMAIN rows : rows[i] \in R} = {i \in DOMAIN old[p] : ~IsFilled(Given(old, g, p, i))}
    BY <1>3, <1>4, <1>8, <1>13
  <2> QED
    BY <2>1 DEF Among
<1>18. rows = [k \in DOMAIN old[p] |-> Given(old, g, p, k)]
  BY <1>3, <1>8
<1> QED
  BY <1>6, <1>16, <1>17, <1>18

LEMMA AfterFillsAre ==
  ASSUME NEW old, NEW now, NEW g, NEW o0, NEW o, NEW trades, Ends(old, now, g, o0, o, trades)
  PROVE  AfterFills(QueuesOf(old), o0) = QueuesOf(now)
<1>1. PICK Q : Q = QueuesOf(old)
  OBVIOUS
<1>2. /\ \A p \in Price : Q[p] = LevelAt(old, p)
      /\ \A x \in RestingAt(old) : Fill(Q, o0, x) = g[x]
  BY <1>1, QueuesAre, FillIs DEF Ends
<1> DEFINE rows(p) == [k \in DOMAIN Q[p] |-> FilledBy(Q[p][k], Fill(Q, o0, <<p, k>>))]
           open(p) == RowsAt(rows(p), {i \in DOMAIN rows(p) : ~IsFilled(rows(p)[i])})
<1>3. AfterFills(Q, o0) = [p \in Price |-> open(p)]
  BY DEF AfterFills, Where
<1>4. ASSUME NEW p \in Price PROVE open(p) = LevelAt(now, p)
  <2>1. CASE p \in DOMAIN old
    <3>1. Q[p] = old[p] /\ \A k \in DOMAIN old[p] : Fill(Q, o0, <<p, k>>) = g[<<p, k>>]
      BY <1>2, <2>1, PlacesAre DEF LevelAt
    <3>2. rows(p) = [k \in DOMAIN old[p] |-> Given(old, g, p, k)]
      BY <3>1 DEF Given
    <3>3. {i \in DOMAIN rows(p) : ~IsFilled(rows(p)[i])}
            = {i \in DOMAIN old[p] : ~IsFilled(Given(old, g, p, i))}
      <4> HIDE DEF rows
      <4> QED
        BY <3>2
    <3> HIDE DEF rows
    <3> QED
      BY <2>1, <3>2, <3>3, QueueLeft
  <2>2. CASE p \notin DOMAIN old
    <3>1. Q[p] = <<>> /\ LevelAt(now, p) = <<>>
      BY <1>2, <2>2 DEF LevelAt, Ends, Progress
    <3>2. rows(p) = <<>>
      BY <3>1
    <3> HIDE DEF rows
    <3> QED
      BY <3>1, <3>2, RowsAtEmpty
  <2> QED
    BY <2>1, <2>2
<1> HIDE DEF open
<1> QED
  BY <1>1, <1>3, <1>4 DEF QueuesOf

(* The book at work and the book as it was when the lock was last          *)
(* released: the same between the calls, and a match away from each other  *)
(* during one.                                                             *)
SoundBooks ==
  \A side \in Side : SoundLevels(book[side], side) /\ SoundLevels(settled[side], side)

Matching(t) == pc[t] \in {"match", "rest"}

Tracks(b, s, o0, o, trades) ==
  /\ b[o0.type] = s[o0.type]
  /\ \E g : Progress(s[Opposite(o0.type)], b[Opposite(o0.type)], g, o0, o, trades)

InProgress ==
  \A t \in Thread : Matching(t) =>
    Tracks(book, settled, placed[incoming[t].id], incoming[t], made[t])

BetweenCalls == (\A t \in Thread : ~Matching(t)) => book = settled

FromRequests ==
  /\ \A id \in OrderId : placed[id] # NoOrder => \E r \in Requests : placed[id] = NewOrder(id, r)
  /\ \A t \in Thread : pc[t] = "match_wait" => incoming[t] = placed[incoming[t].id]

SeenIsDepth == \A t \in Thread : pc[t] = "snapshot_asks" => seen[t] = Depth(book["BUY"])

EngineInv ==
  CancelInv /\ BookInv /\ SoundBooks /\ InProgress /\ BetweenCalls /\ FromRequests /\ SeenIsDepth

LEMMA EngineInit == Init => EngineInv
<1> SUFFICES ASSUME Init PROVE EngineInv
  OBVIOUS
<1>1. CancelInv /\ BookInv
  BY CancelInit, BookInvInit
<1>2. SoundBooks
  <2>1. \A side \in Side : book[side] = [p \in {} |-> <<>>] /\ settled[side] = [p \in {} |-> <<>>]
    BY DEF Init, EmptyBook
  <2>2. \A side \in Side : SoundLevels([p \in {} |-> <<>>], side)
    BY FS_EmptySet DEF SoundLevels, IsLevels, IsKeyedByPrice, OpenLevels
  <2> QED
    BY <2>1, <2>2 DEF SoundBooks
<1>3. InProgress /\ BetweenCalls /\ FromRequests /\ SeenIsDepth
  BY DEF Init, InProgress, BetweenCalls, FromRequests, SeenIsDepth, Matching
<1> QED
  BY <1>1, <1>2, <1>3 DEF EngineInv

(* What happens to a thread that matches while another one takes a step.   *)
LEMMA OthersKeepMatch ==
  ASSUME ShapeInv, NEW t \in Thread, Call(t) \/ Step(t), NEW u \in Thread \ {t}, Matching(u)
  PROVE  book' = book /\ settled' = settled /\ made'[u] = made[u]
<1>1. writer = u /\ writer # t
  BY DEF ShapeInv, Exclusion, Matching
<1>2. pc[t] \notin {"match", "rest", "cancel"}
  BY <1>1 DEF ShapeInv, Exclusion
<1>3. ~MatchStep(t) /\ ~Rest(t) /\ ~CancelFound(t) /\ ~CancelNotFound(t) /\ ~ExitLoop(t)
  BY <1>2 DEF MatchStep, Rest, CancelFound, CancelNotFound, LeaveCancel, Goto, ExitLoop
<1> QED
  BY <1>3 DEF Call, Step, CallMatch, EnterMatch, CallCancel, EnterCancel, CallSnapshot, EnterSnapshot,
              ReadBids, ReadAsks, historyVars

LEMMA OthersKeepLocation ==
  ASSUME ShapeInv, NEW t \in Thread, Call(t) \/ Step(t), NEW u \in Thread \ {t}
  PROVE  pc'[u] = pc[u] /\ (Matching(u)' <=> Matching(u)) /\ incoming'[u] = incoming[u]
BY OthersKeepOrder DEF Matching

(* The settled book moves with the release of the lock.                    *)
LEMMA SettledSteps ==
  ASSUME NEW t \in Thread, Call(t) \/ Step(t)
  PROVE  settled' = settled \/ ((Rest(t) \/ CancelFound(t) \/ CancelNotFound(t)) /\ settled' = book')
BY DEF Call, Step, CallMatch, EnterMatch, MatchStep, ExitLoop, Rest, CallCancel, EnterCancel,
       CancelFound, CancelNotFound, LeaveCancel, CallSnapshot, EnterSnapshot, ReadBids, ReadAsks, historyVars

LEMMA FiniteStep ==
  ASSUME ShapeInv, SoundBooks, NEW t \in Thread, Call(t) \/ Step(t), NEW side \in Side
  PROVE  IsFiniteSet(DOMAIN book'[side])
<1>1. IsFiniteSet(DOMAIN book[side])
  BY DEF SoundBooks, SoundLevels
<1>2. CASE book' = book
  BY <1>1, <1>2
<1>3. CASE MatchStep(t) \/ CancelFound(t)
  <2>1. DOMAIN book'[side] \subseteq DOMAIN book[side]
    BY <1>3, MatchStepShape, CancelShape
  <2> QED
    BY <1>1, <2>1, FS_Subset
<1>4. CASE Rest(t)
  <2>1. PICK o : o = incoming[t]
    OBVIOUS
  <2>2. o \in Order /\ IsBook(book)
    BY <1>4, <2>1 DEF Rest, Goto, ShapeInv, TypeOK, Submitting
  <2>3. CASE o.mode = "LIMIT" /\ Remaining(o) > 0
    <3>1. book' = [book EXCEPT ![o.type] = PushBack(book[o.type], o)]
      BY <1>4, <2>1, <2>3 DEF Rest, AfterRest, AddOrder
    <3>2. o.type \in Side /\ DOMAIN book = Side
      BY <2>2, OrderFields DEF IsBook
    <3>3. DOMAIN PushBack(book[o.type], o) = DOMAIN book[o.type] \cup {o.price}
      BY DEF PushBack
    <3>4. DOMAIN book'[side] = DOMAIN book[side] \/ DOMAIN book'[side] = DOMAIN book[side] \cup {o.price}
      BY <3>1, <3>2, <3>3
    <3>5. IsFiniteSet(DOMAIN book[side] \cup {o.price})
      BY <1>1, FS_AddElement
    <3> QED
      BY <1>1, <3>4, <3>5
  <2>4. CASE ~(o.mode = "LIMIT" /\ Remaining(o) > 0)
    BY <1>1, <1>4, <2>1, <2>4 DEF Rest, AfterRest
  <2> QED
    BY <2>3, <2>4
<1> QED
  BY <1>2, <1>3, <1>4, BookSteps

LEMMA SoundStep ==
  ASSUME EngineInv, NEW t \in Thread, Call(t) \/ Step(t)
  PROVE  SoundBooks'
<1>1. ShapeInv /\ SoundBooks
  BY DEF EngineInv, CancelInv
<1>2. IsBook(book') /\ OnlyOpenOrdersRest'
  BY <1>1, TypeStep, OpenStep DEF TypeOK
<1>3. ASSUME NEW side \in Side PROVE SoundLevels(book'[side], side)
  <2>1. IsLevels(book'[side])
    BY <1>2 DEF IsBook
  <2>2. OpenLevels(book'[side], side)
    BY <1>2 DEF OnlyOpenOrdersRest, OpenLevels, OpenQueue
  <2>3. IsFiniteSet(DOMAIN book'[side])
    BY <1>1, FiniteStep
  <2> QED
    BY <2>1, <2>2, <2>3 DEF SoundLevels
<1>4. \A side \in Side : SoundLevels(settled[side], side)
  BY <1>1 DEF SoundBooks
<1>5. settled' = settled \/ settled' = book'
  BY SettledSteps
<1> QED
  BY <1>3, <1>4, <1>5 DEF SoundBooks

(* The order a thread submits, and what it was when it was placed.         *)
LEMMA PlacedIs ==
  ASSUME EngineInv, NEW t \in Thread, Submitting(t), NEW o, o = incoming[t]
  PROVE  /\ o \in Order /\ o.id \in OrderId /\ o.type \in Side
         /\ placed[o.id] \in Order /\ placed[o.id].id = o.id /\ placed[o.id].type = o.type
         /\ Remaining(placed[o.id]) \in Nat
         /\ \E r \in Requests : placed[o.id] = NewOrder(o.id, r)
<1>1. o \in Order
  BY DEF EngineInv, CancelInv, ShapeInv, TypeOK
<1>2. o.id \in OrderId /\ o.type \in Side
  BY <1>1, OrderFields
<1>3. placed[o.id] # NoOrder /\ placed[o.id].type = o.type
  BY DEF EngineInv, CancelInv, SubmittedInv
<1>4. PICK r \in Requests : placed[o.id] = NewOrder(o.id, r)
  BY <1>2, <1>3 DEF EngineInv, FromRequests
<1>5. NewOrder(o.id, r) \in Order
  BY <1>2, NewOrderType
<1>6. NewOrder(o.id, r).id = o.id
  BY DEF NewOrder
<1>7. Remaining(NewOrder(o.id, r)) = r.quantity - 0 /\ r.quantity \in Nat
  BY RequestsAssumption DEF NewOrder, Remaining, Request
<1>8. Remaining(NewOrder(o.id, r)) \in Nat
  BY <1>7
<1> QED
  BY <1>1, <1>2, <1>3, <1>4, <1>5, <1>6, <1>8

LEMMA TracksStart ==
  ASSUME EngineInv, NEW t \in Thread, EnterMatch(t)
  PROVE  Tracks(book', settled', placed'[incoming'[t].id], incoming'[t], made'[t])
<1>1. pc[t] = "match_wait" /\ writer = None /\ UNCHANGED <<book, settled, placed, incoming, made>>
  BY DEF EnterMatch, Goto, LockExclusive, historyVars
<1>2. Submitting(t)
  BY <1>1 DEF Submitting
<1>3. PICK o : o = incoming[t]
  OBVIOUS
<1>4. o = placed[o.id] /\ made[t] = {}
  BY <1>1, <1>3 DEF EngineInv, FromRequests, CancelInv, MadeInv
<1>5. book = settled
  <2>1. \A u \in Thread : ~Matching(u)
    BY <1>1, ThreadAssumption DEF EngineInv, CancelInv, ShapeInv, Exclusion, Matching
  <2> QED
    BY <2>1 DEF EngineInv, BetweenCalls
<1>6. o \in Order /\ Remaining(o) \in Nat /\ o.type \in Side
  <2>1. /\ o \in Order /\ o.type \in Side /\ Remaining(placed[o.id]) \in Nat
    BY <1>2, <1>3, PlacedIs
  <2>2. Remaining(placed[o.id]) = Remaining(o)
    BY <1>4
  <2> QED
    BY <2>1, <2>2
<1>7. PICK side : side = Opposite(o.type)
  OBVIOUS
<1>8. side \in Side /\ SoundLevels(settled[side], side)
  BY <1>6, <1>7 DEF Opposite, Side, EngineInv, SoundBooks
<1>9. Progress(settled[side], settled[side], [x \in RestingAt(settled[side]) |-> 0], o, o, {})
  BY <1>6, <1>8, ProgressStarts
<1>10. Tracks(book, settled, o, o, {})
  BY <1>5, <1>7, <1>9 DEF Tracks
<1> QED
  BY <1>1, <1>3, <1>4, <1>10

LEMMA TracksStep ==
  ASSUME EngineInv, NEW t \in Thread, MatchStep(t)
  PROVE  Tracks(book', settled', placed'[incoming'[t].id], incoming'[t], made'[t])
<1>1. pc[t] = "match" /\ UNCHANGED <<settled, placed>>
  BY DEF MatchStep, historyVars
<1>2. Submitting(t) /\ Matching(t)
  BY <1>1 DEF Submitting, Matching
<1>3. PICK o : o = incoming[t]
  OBVIOUS
<1>4. PICK o0 : o0 = placed[o.id]
  OBVIOUS
<1>5. /\ o \in Order /\ o0 \in Order /\ o0.type = o.type /\ o.type \in Side /\ Remaining(o0) \in Nat
      /\ o0.id = o.id
  BY <1>2, <1>3, <1>4, PlacedIs
<1>6. PICK side : side = Opposite(o.type)
  OBVIOUS
<1>7. side \in Side /\ side # o.type
  BY <1>5, <1>6 DEF Opposite, Side
<1>8. PICK p \in DOMAIN book[side] :
        LET resting == Head(book[side][p])
            n       == MatchQuantity(o, resting)
        IN  /\ Remaining(o) > 0
            /\ IsBest(book[side], side, p)
            /\ Crosses(o, p)
            /\ made' = [made EXCEPT ![t] = @ \cup {CreateTrade(o, resting, n, p)}]
            /\ incoming' = [incoming EXCEPT ![t] = FilledBy(o, n)]
            /\ book' = [book EXCEPT ![side] = PutLevel(@, p, AfterFill(@[p], n))]
  BY <1>3, <1>6 DEF MatchStep
<1>9. PICK now : now = book[side]
  OBVIOUS
<1>10. PICK m : m = MatchQuantity(o, Head(now[p]))
  OBVIOUS
<1>11. PICK old : old = settled[side]
  OBVIOUS
<1>12. /\ book[o.type] = settled[o.type]
       /\ \E g : Progress(old, now, g, o0, o, made[t])
  BY <1>2, <1>3, <1>4, <1>5, <1>6, <1>9, <1>11 DEF EngineInv, InProgress, Tracks
<1>13. PICK g : Progress(old, now, g, o0, o, made[t])
  BY <1>12
<1>14. SoundLevels(now, side) /\ SoundLevels(old, side)
  BY <1>7, <1>9, <1>11 DEF EngineInv, SoundBooks
<1>15. now[p] # <<>> /\ Head(now[p]) \in Order /\ Remaining(Head(now[p])) > 0
  <2>1. p \in DOMAIN now
    BY <1>9
  <2>2. now[p] \in Seq(Order) /\ now[p] # <<>>
    BY <1>14, <2>1, LevelsAre
  <2>3. 1 \in DOMAIN now[p] /\ Head(now[p]) = now[p][1]
    BY <2>2
  <2> QED
    BY <1>14, <2>1, <2>2, <2>3, LevelsAre
<1>16. Remaining(o) > 0 /\ IsBest(now, side, p)
  BY <1>8, <1>9
<1>17. Crosses(o0, p)
  <2>1. o.mode = o0.mode /\ o.price = o0.price
    <3>1. PICK sum : sum = SumIn(g, RestingAt(old))
      OBVIOUS
    <3>2. sum \in Nat
      <4>1. g \in [RestingAt(old) -> Nat] /\ IsFiniteSet(RestingAt(old))
        BY <1>13, <1>14, PlacesAreFinite DEF Progress, IsGiven
      <4>2. RestingAt(old) \in SUBSET RestingAt(old)
        OBVIOUS
      <4> QED
        BY <3>1, <4>1, <4>2, SumGrows
    <3>3. o = FilledBy(o0, sum)
      BY <1>13, <3>1 DEF Progress
    <3> QED
      BY <1>5, <3>2, <3>3, FilledByType
  <2> QED
    BY <1>5, <1>8, <2>1 DEF Crosses
<1>18. \E h : Progress(old, PutLevel(now, p, AfterFill(now[p], m)), h, o0, FilledBy(o, m),
                       made[t] \cup {CreateTrade(o, Head(now[p]), m, p)})
  <2>1. SoundLevels(old, Opposite(o0.type)) /\ IsBest(now, Opposite(o0.type), p)
    BY <1>5, <1>6, <1>14, <1>16
  <2> QED
    BY <1>5, <1>10, <1>13, <1>15, <1>16, <1>17, <2>1, ProgressStep
<1>19. /\ incoming'[t] = FilledBy(o, m)
       /\ made'[t] = made[t] \cup {CreateTrade(o, Head(now[p]), m, p)}
       /\ book'[side] = PutLevel(now, p, AfterFill(now[p], m))
       /\ book'[o.type] = book[o.type]
  <2>1. /\ incoming' = [incoming EXCEPT ![t] = FilledBy(o, m)]
        /\ made' = [made EXCEPT ![t] = @ \cup {CreateTrade(o, Head(now[p]), m, p)}]
        /\ book' = [book EXCEPT ![side] = PutLevel(now, p, AfterFill(now[p], m))]
    BY <1>8, <1>9, <1>10
  <2>2. t \in DOMAIN incoming /\ t \in DOMAIN made /\ DOMAIN book = Side
    BY DEF EngineInv, CancelInv, ShapeInv, TypeOK, IsBook
  <2> QED
    BY <1>5, <1>7, <2>1, <2>2
<1>20. PICK q : q = FilledBy(o, m)
  OBVIOUS
<1>21. q.id = o.id
  BY <1>5, <1>20 DEF FilledBy, Order
<1>22. placed'[incoming'[t].id] = o0
  BY <1>1, <1>4, <1>19, <1>20, <1>21
<1>23. PICK b : b = book'
  OBVIOUS
<1>24. PICK trades : trades = made'[t]
  OBVIOUS
<1>25. Tracks(b, settled, o0, q, trades)
  <2>1. b[o0.type] = settled[o0.type]
    BY <1>5, <1>12, <1>19, <1>23
  <2>2. \E h : Progress(settled[Opposite(o0.type)], b[Opposite(o0.type)], h, o0, q, trades)
    BY <1>5, <1>6, <1>11, <1>18, <1>19, <1>20, <1>23, <1>24
  <2> QED
    BY <2>1, <2>2 DEF Tracks
<1> QED
  BY <1>1, <1>19, <1>20, <1>22, <1>23, <1>24, <1>25

LEMMA InProgressStep ==
  ASSUME EngineInv, NEW t \in Thread, Call(t) \/ Step(t)
  PROVE  InProgress'
<1>1. ASSUME NEW u \in Thread, Matching(u)'
      PROVE  Tracks(book', settled', placed'[incoming'[u].id], incoming'[u], made'[u])
  <2>1. CASE u # t
    <3>1. Matching(u) /\ incoming'[u] = incoming[u]
      BY <1>1, <2>1, OthersKeepLocation DEF EngineInv, CancelInv
    <3>2. book' = book /\ settled' = settled /\ made'[u] = made[u]
      BY <2>1, <3>1, OthersKeepMatch DEF EngineInv, CancelInv
    <3>3. placed[incoming[u].id] # NoOrder
      BY <3>1 DEF Matching, Submitting, EngineInv, CancelInv, SubmittedInv
    <3>4. placed'[incoming[u].id] = placed[incoming[u].id]
      <4>1. CASE \E id \in OrderId, r \in Requests : CallMatch(t, id, r)
        <5>1. PICK id \in OrderId, r \in Requests : CallMatch(t, id, r)
          BY <4>1
        <5> QED
          BY <3>3, <5>1 DEF CallMatch
      <4>2. CASE ~(\E id \in OrderId, r \in Requests : CallMatch(t, id, r))
        <5>1. placed' = placed
          BY <4>2 DEF Call, Step, EnterMatch, MatchStep, ExitLoop, Rest, CallCancel, EnterCancel,
                      CancelFound, CancelNotFound, LeaveCancel, CallSnapshot, EnterSnapshot,
                      ReadBids, ReadAsks, historyVars
        <5> QED
          BY <5>1
      <4> QED
        BY <4>1, <4>2
    <3>5. Tracks(book, settled, placed[incoming[u].id], incoming[u], made[u])
      BY <3>1 DEF EngineInv, InProgress
    <3> QED
      BY <3>1, <3>2, <3>4, <3>5
  <2>2. CASE u = t
    <3>1. EnterMatch(t) \/ MatchStep(t) \/ ExitLoop(t)
      <4>1. t \in DOMAIN pc
        BY DEF EngineInv, CancelInv, ShapeInv, TypeOK
      <4>2. pc'[t] \in {"match", "rest"}
        BY <1>1, <2>2 DEF Matching
      <4> QED
        BY <4>1, <4>2 DEF Call, Step, CallMatch, Rest, CallCancel, EnterCancel,
                      CancelFound, CancelNotFound, LeaveCancel, CallSnapshot, EnterSnapshot,
                      ReadBids, ReadAsks, Goto
    <3>2. CASE ExitLoop(t)
      <4>1. Matching(t) /\ UNCHANGED <<book, settled, placed, incoming, made>>
        BY <3>2 DEF ExitLoop, Goto, Matching, historyVars
      <4>2. Tracks(book, settled, placed[incoming[t].id], incoming[t], made[t])
        BY <4>1 DEF EngineInv, InProgress
      <4> QED
        BY <2>2, <4>1, <4>2
    <3> QED
      BY <2>2, <3>1, <3>2, TracksStart, TracksStep
  <2> QED
    BY <2>1, <2>2
<1> QED
  BY <1>1 DEF InProgress

LEMMA BetweenCallsStep ==
  ASSUME EngineInv, NEW t \in Thread, Call(t) \/ Step(t)
  PROVE  BetweenCalls'
<1> SUFFICES ASSUME \A u \in Thread : ~Matching(u)' PROVE book' = settled'
  BY DEF BetweenCalls
<1>1. CASE settled' = book'
  BY <1>1
<1>2. CASE settled' = settled /\ ~Rest(t) /\ ~CancelFound(t)
  <2>1. ~MatchStep(t) /\ ~ExitLoop(t)
    <3>1. ~Matching(t)' /\ t \in DOMAIN pc
      BY DEF EngineInv, CancelInv, ShapeInv, TypeOK
    <3> QED
      BY <3>1 DEF MatchStep, ExitLoop, Goto, Matching
  <2>2. book' = book
    BY <1>2, <2>1, BookSteps
  <2>3. ~Matching(t)
    BY <1>2, <2>1 DEF Call, Step, CallMatch, EnterMatch, CallCancel, EnterCancel, CancelFound,
                      CancelNotFound, LeaveCancel, CallSnapshot, EnterSnapshot, ReadBids, ReadAsks,
                      Goto, Matching
  <2>4. \A u \in Thread \ {t} : ~Matching(u)
    BY OthersKeepLocation DEF EngineInv, CancelInv
  <2> QED
    BY <1>2, <2>2, <2>3, <2>4 DEF EngineInv, BetweenCalls
<1>3. CASE Rest(t) \/ CancelFound(t)
  BY <1>3 DEF Rest, CancelFound, LeaveCancel
<1> QED
  BY <1>1, <1>2, <1>3, SettledSteps

LEMMA FromRequestsStep ==
  ASSUME EngineInv, NEW t \in Thread, Call(t) \/ Step(t)
  PROVE  FromRequests'
<1>1. CASE \E id \in OrderId, r \in Requests : CallMatch(t, id, r)
  <2>1. PICK id \in OrderId, r \in Requests : CallMatch(t, id, r)
    BY <1>1
  <2>2. PICK o : o = NewOrder(id, r)
    OBVIOUS
  <2>3. /\ pc' = [pc EXCEPT ![t] = "match_wait"]
        /\ placed[id] = NoOrder
        /\ placed' = [placed EXCEPT ![id] = o]
        /\ incoming' = [incoming EXCEPT ![t] = o]
    BY <2>1, <2>2 DEF CallMatch, Goto
  <2>4. /\ DOMAIN pc = Thread /\ DOMAIN placed = OrderId /\ DOMAIN incoming = Thread
        /\ o.id = id
    BY <2>2 DEF EngineInv, CancelInv, ShapeInv, TypeOK, NewOrder
  <2>5. \A i \in OrderId : placed'[i] # NoOrder => \E q \in Requests : placed'[i] = NewOrder(i, q)
    BY <2>2, <2>3, <2>4 DEF EngineInv, FromRequests
  <2>6. ASSUME NEW u \in Thread, pc'[u] = "match_wait"
        PROVE  incoming'[u] = placed'[incoming'[u].id]
    <3>1. CASE u = t
      BY <2>3, <2>4, <3>1
    <3>2. CASE u # t
      <4>1. pc[u] = "match_wait" /\ incoming'[u] = incoming[u]
        BY <2>3, <2>4, <2>6, <3>2
      <4>2. placed[incoming[u].id] # NoOrder /\ incoming[u] = placed[incoming[u].id]
        BY <4>1 DEF EngineInv, CancelInv, SubmittedInv, Submitting, FromRequests
      <4>3. placed'[incoming[u].id] = placed[incoming[u].id]
        BY <2>3, <4>2
      <4> QED
        BY <4>1, <4>2, <4>3
    <3> QED
      BY <3>1, <3>2
  <2> QED
    BY <2>5, <2>6 DEF FromRequests
<1>2. CASE ~(\E id \in OrderId, r \in Requests : CallMatch(t, id, r))
  <2>1. placed' = placed
    BY <1>2 DEF Call, Step, EnterMatch, MatchStep, ExitLoop, Rest, CallCancel, EnterCancel,
                CancelFound, CancelNotFound, LeaveCancel, CallSnapshot, EnterSnapshot,
                ReadBids, ReadAsks, historyVars
  <2>2. ASSUME NEW u \in Thread, pc'[u] = "match_wait"
        PROVE  incoming'[u] = placed'[incoming'[u].id]
    <3>1. pc[u] = "match_wait" /\ incoming'[u] = incoming[u]
      <4>1. CASE u # t
        BY <2>2, <4>1, OthersKeepLocation DEF EngineInv, CancelInv
      <4>2. CASE u = t
        <5>1. t \in DOMAIN pc
          BY DEF EngineInv, CancelInv, ShapeInv, TypeOK
        <5> QED
          BY <1>2, <2>2, <4>2, <5>1 DEF Call, Step, EnterMatch, MatchStep, ExitLoop, Rest, CallCancel,
             EnterCancel, CancelFound, CancelNotFound, LeaveCancel, CallSnapshot, EnterSnapshot,
             ReadBids, ReadAsks, Goto
      <4> QED
        BY <4>1, <4>2
    <3>2. incoming[u] = placed[incoming[u].id]
      BY <3>1 DEF EngineInv, FromRequests
    <3> QED
      BY <2>1, <3>1, <3>2
  <2> QED
    BY <2>1, <2>2 DEF FromRequests, EngineInv
<1> QED
  BY <1>1, <1>2

LEMMA SeenIsDepthStep ==
  ASSUME EngineInv, NEW t \in Thread, Call(t) \/ Step(t)
  PROVE  SeenIsDepth'
<1>1. ASSUME NEW u \in Thread, pc'[u] = "snapshot_asks"
      PROVE  seen'[u] = Depth(book'["BUY"])
  <2>1. ShapeInv
    BY DEF EngineInv, CancelInv
  <2>2. CASE u # t
    <3>1. pc[u] = "snapshot_asks" /\ seen'[u] = seen[u]
      BY <1>1, <2>1, <2>2, OthersKeepOrder
    <3>2. book' = book
      BY <2>1, <3>1, WriterMovesBook DEF ShapeInv, Exclusion
    <3>3. PICK b : b = book
      OBVIOUS
    <3>4. seen[u] = Depth(b["BUY"])
      BY <3>1, <3>3 DEF EngineInv, SeenIsDepth
    <3> QED
      BY <3>1, <3>2, <3>3, <3>4
  <2>3. CASE u = t
    <3>1. ReadBids(t)
      <4>1. t \in DOMAIN pc
        BY <2>1 DEF ShapeInv, TypeOK
      <4> QED
        BY <1>1, <2>3, <4>1 DEF Call, Step, CallMatch, EnterMatch, MatchStep, ExitLoop, Rest, CallCancel,
           EnterCancel, CancelFound, CancelNotFound, LeaveCancel, CallSnapshot, EnterSnapshot,
           ReadAsks, Goto
    <3>2. PICK b : b = book
      OBVIOUS
    <3>3. book' = b /\ seen' = [seen EXCEPT ![t] = Depth(b["BUY"])]
      BY <3>1, <3>2 DEF ReadBids
    <3>4. t \in DOMAIN seen
      BY <2>1 DEF ShapeInv, TypeOK
    <3> QED
      BY <2>3, <3>3, <3>4
  <2> QED
    BY <2>2, <2>3
<1> QED
  BY <1>1 DEF SeenIsDepth

LEMMA EngineStep == EngineInv /\ [Next]_vars => EngineInv'
<1> SUFFICES ASSUME EngineInv, [Next]_vars PROVE EngineInv'
  OBVIOUS
<1>1. CancelInv' /\ BookInv'
  BY CancelNext, BookInvStep DEF EngineInv
<1>2. ASSUME NEW t \in Thread, Call(t) \/ Step(t)
      PROVE  SoundBooks' /\ InProgress' /\ BetweenCalls' /\ FromRequests' /\ SeenIsDepth'
  BY <1>2, SoundStep, InProgressStep, BetweenCallsStep, FromRequestsStep, SeenIsDepthStep
<1>3. ASSUME UNCHANGED vars
      PROVE  SoundBooks' /\ InProgress' /\ BetweenCalls' /\ FromRequests' /\ SeenIsDepth'
  <2>1. UNCHANGED <<book, settled, pc, placed, incoming, made, seen>>
    BY <1>3 DEF vars
  <2>2. SoundBooks' /\ BetweenCalls'
    BY <2>1 DEF EngineInv, SoundBooks, BetweenCalls, Matching
  <2>3. InProgress'
    BY <2>1 DEF EngineInv, InProgress, Matching
  <2>4. FromRequests' /\ SeenIsDepth'
    BY <2>1 DEF EngineInv, FromRequests, SeenIsDepth
  <2> QED
    BY <2>2, <2>3, <2>4
<1> QED
  BY <1>1, <1>2, <1>3 DEF EngineInv, Next

-----------------------------------------------------------------------------
(* The book as the engine sees it.                                         *)
BookOf(b) == [side \in Side |-> QueuesOf(b[side])]

LEMMA PushBackIsEnqueue ==
  ASSUME NEW levels, NEW o, o \in Order, o.price \in Price
  PROVE  QueuesOf(PushBack(levels, o)) = Enqueue(QueuesOf(levels), o)
<1>1. PICK Q : Q = QueuesOf(levels)
  OBVIOUS
<1>2. DOMAIN Q = Price /\ \A p \in Price : Q[p] = LevelAt(levels, p)
  BY <1>1 DEF QueuesOf
<1>3. Enqueue(Q, o) = [p \in Price |-> IF p = o.price THEN Append(Q[p], o) ELSE Q[p]]
  BY <1>2 DEF Enqueue, QueuesOf
<1>4. ASSUME NEW p \in Price
      PROVE  LevelAt(PushBack(levels, o), p) = IF p = o.price THEN Append(Q[p], o) ELSE Q[p]
  <2>1. /\ DOMAIN PushBack(levels, o) = DOMAIN levels \cup {o.price}
        /\ \A q \in DOMAIN levels \cup {o.price} :
             PushBack(levels, o)[q] = IF q # o.price THEN levels[q]
                                      ELSE IF q \in DOMAIN levels THEN Append(levels[q], o) ELSE <<o>>
    BY DEF PushBack
  <2>2. Append(<<>>, o) = <<o>>
    OBVIOUS
  <2> QED
    BY <1>2, <2>1, <2>2 DEF LevelAt
<1> QED
  BY <1>1, <1>3, <1>4 DEF QueuesOf

(* What a match leaves of the book is what the engine leaves of it.        *)
LEMMA MatchedBook ==
  ASSUME NEW old, NEW now, NEW g, NEW o0, NEW o, NEW trades, NEW side, side = Opposite(o0.type),
         Ends(old[side], now[side], g, o0, o, trades),
         now[o0.type] = old[o0.type], o \in Order, o.type = o0.type, o.mode = o0.mode,
         now = [s \in Side |-> now[s]],
         NEW final, final = IF o.mode = "LIMIT" /\ Remaining(o) > 0 THEN AddOrder(now, o) ELSE now
  PROVE  AfterMatch(BookOf(old), o0) = BookOf(final)
<1>1. o0.type \in Side /\ side \in Side /\ side # o0.type /\ \A s \in Side : s = side \/ s = o0.type
  <2>1. o0.type \in Side
    BY OrderFields
  <2> QED
    BY <2>1 DEF Opposite, Side
<1>2. PICK B : B = BookOf(old)
  OBVIOUS
<1>3. B \in [Side -> {B[s] : s \in Side}] /\ \A s \in Side : B[s] = QueuesOf(old[s])
  BY <1>2 DEF BookOf
<1>4. Incoming(B[side], o0) = o /\ AfterFills(B[side], o0) = QueuesOf(now[side])
  BY <1>1, <1>3, TotalFillIs, AfterFillsAre
<1>5. PICK M : M = [B EXCEPT ![side] = QueuesOf(now[side])]
  OBVIOUS
<1>6. M = BookOf(now)
  <2>1. M = [s \in Side |-> IF s = side THEN QueuesOf(now[side]) ELSE B[s]]
    BY <1>3, <1>5
  <2>2. \A s \in Side : (IF s = side THEN QueuesOf(now[side]) ELSE B[s]) = QueuesOf(now[s])
    BY <1>1, <1>3
  <2> QED
    BY <2>1, <2>2 DEF BookOf
<1>7. AfterMatch(B, o0) = IF o.mode = "LIMIT" /\ Remaining(o) > 0
                          THEN [M EXCEPT ![o0.type] = Enqueue(M[o0.type], o)] ELSE M
  <2>1. [B EXCEPT ![side] = AfterFills(B[side], o0)] = M
    BY <1>4, <1>5
  <2> QED
    BY <1>4, <2>1 DEF AfterMatch
<1>8. CASE o.mode = "LIMIT" /\ Remaining(o) > 0
  <2>1. final = [now EXCEPT ![o.type] = PushBack(now[o.type], o)]
    BY <1>8 DEF AddOrder
  <2>2. o.price \in Price
    BY <1>8, OrderFields
  <2>3. \A s \in Side : QueuesOf(final[s]) = IF s = o.type THEN Enqueue(QueuesOf(now[s]), o)
                                             ELSE QueuesOf(now[s])
    BY <1>1, <2>1, <2>2, PushBackIsEnqueue
  <2>4. [M EXCEPT ![o0.type] = Enqueue(M[o0.type], o)]
          = [s \in Side |-> IF s = o0.type THEN Enqueue(QueuesOf(now[s]), o) ELSE QueuesOf(now[s])]
    BY <1>1, <1>6 DEF BookOf
  <2> QED
    BY <1>2, <1>7, <1>8, <2>3, <2>4 DEF BookOf
<1>9. CASE ~(o.mode = "LIMIT" /\ Remaining(o) > 0)
  BY <1>2, <1>6, <1>7, <1>9
<1> QED
  BY <1>8, <1>9

-----------------------------------------------------------------------------
(* Taking an order out of the book                                         *)

Others(queue, id) == RowsAt(queue, {i \in DOMAIN queue : queue[i].id # id})

LEMMA ConcatIs ==
  ASSUME NEW s, s \in Seq(Order), NEW u, u \in Seq(Order)
  PROVE  s \o u \in Seq(Order) /\ Len(s \o u) = Len(s) + Len(u)
OBVIOUS

LEMMA QueueWithout ==
  ASSUME NEW queue, queue \in Seq(Order), NEW k, k \in DOMAIN queue, Distinct(queue),
         NEW id, id = queue[k].id
  PROVE  Others(queue, id) = EraseAt(queue, k)
<1>1. PICK len : len = Len(queue)
  OBVIOUS
<1>2. len \in Nat /\ DOMAIN queue = 1 .. len /\ k \in 1 .. len
  BY <1>1
<1>3. PICK pre : pre = [i \in 1 .. k - 1 |-> queue[i]]
  OBVIOUS
<1>4. PICK suf : suf = [i \in 1 .. len - k |-> queue[i + k]]
  OBVIOUS
<1>5. PICK x : x = queue[k]
  OBVIOUS
<1>6. \A j \in Nat : \A f \in [1 .. j -> Order] : f \in Seq(Order) /\ Len(f) = j
  OBVIOUS
<1>7. pre \in Seq(Order) /\ Len(pre) = k - 1 /\ suf \in Seq(Order) /\ Len(suf) = len - k /\ x \in Order
  <2>1. \A i \in 1 .. len : queue[i] \in Order
    BY <1>2
  <2>2. k - 1 \in Nat /\ len - k \in Nat
    BY <1>2
  <2>3. pre \in [1 .. k - 1 -> Order] /\ suf \in [1 .. len - k -> Order]
    <3>1. \A i \in 1 .. k - 1 : i \in 1 .. len
      BY <1>2
    <3>2. \A i \in 1 .. len - k : i + k \in 1 .. len
      BY <1>2
    <3> QED
      BY <1>3, <1>4, <2>1, <3>1, <3>2
  <2> QED
    BY <1>2, <1>5, <1>6, <2>1, <2>2, <2>3
<1>8. PICK mid : mid = Append(pre, x)
  OBVIOUS
<1>9. mid \in Seq(Order) /\ Len(mid) = k /\ (\A i \in 1 .. k - 1 : mid[i] = queue[i]) /\ mid[k] = queue[k]
  <2>1. mid \in Seq(Order) /\ Len(mid) = k /\ mid[k] = x /\ \A i \in 1 .. k - 1 : mid[i] = pre[i]
    BY <1>2, <1>7, <1>8
  <2> QED
    BY <1>3, <1>5, <2>1
<1>10. queue = mid \o suf
  <2>1. PICK both : both = mid \o suf
    OBVIOUS
  <2>2. both \in Seq(Order) /\ Len(both) = len
    <3>1. both \in Seq(Order) /\ Len(both) = Len(mid) + Len(suf)
      BY <1>7, <1>9, <2>1, ConcatIs
    <3> QED
      BY <1>2, <1>7, <1>9, <3>1
  <2>3. \A i \in 1 .. len : both[i] = IF i <= k THEN mid[i] ELSE suf[i - k]
    BY <1>2, <1>7, <1>9, <2>1
  <2>4. ASSUME NEW i \in 1 .. len PROVE both[i] = queue[i]
    <3>1. CASE i <= k
      <4>1. i \in 1 .. k - 1 \/ i = k
        BY <1>2, <3>1
      <4> QED
        BY <1>9, <2>3, <3>1, <4>1
    <3>2. CASE ~(i <= k)
      <4>1. i - k \in 1 .. len - k /\ (i - k) + k = i
        BY <1>2, <3>2
      <4> QED
        BY <1>4, <2>3, <3>2, <4>1
    <3> QED
      BY <3>1, <3>2
  <2> QED
    BY <1>1, <2>1, <2>2, <2>4, SeqEqual
<1>11. PICK R : R = {r \in Order : r.id # id}
  OBVIOUS
<1>12. \A i \in 1 .. len : i # k => queue[i] \in R
  <2>1. \A i \in 1 .. len : i # k => queue[i].id # queue[k].id
    BY <1>2 DEF Distinct
  <2> QED
    BY <1>2, <1>11, <2>1
<1>13. Among(pre, R) = pre
  <2>1. \A i \in DOMAIN pre : pre[i] \in R
    BY <1>2, <1>3, <1>12
  <2> QED
    BY <1>7, <2>1, AmongAll
<1>14. Among(suf, R) = suf
  <2>1. ASSUME NEW i \in DOMAIN suf PROVE suf[i] \in R
    <3>1. i \in 1 .. len - k
      BY <1>4
    <3>2. i + k \in 1 .. len /\ i + k # k
      BY <1>2, <3>1
    <3> QED
      BY <1>4, <1>12, <3>1, <3>2
  <2> QED
    BY <1>7, <2>1, AmongAll
<1>15. x \notin R
  BY <1>5, <1>11
<1>16. Among(mid, R) = pre
  BY <1>7, <1>8, <1>13, <1>15, AmongAppend
<1>17. Among(queue, R) = pre \o suf
  <2>1. Among(mid \o suf, R) = Among(mid, R) \o Among(suf, R)
    BY <1>7, <1>9, AmongConcat, ZenonT(60)
  <2> QED
    BY <1>10, <1>14, <1>16, <2>1
<1>18. pre \o suf = EraseAt(queue, k)
  <2>1. PICK both : both = pre \o suf
    OBVIOUS
  <2>2. both \in Seq(Order) /\ Len(both) = len - 1
    <3>1. both \in Seq(Order) /\ Len(both) = Len(pre) + Len(suf)
      BY <1>7, <2>1, ConcatIs
    <3> QED
      BY <1>2, <1>7, <3>1
  <2>3. \A i \in 1 .. len - 1 : both[i] = IF i <= k - 1 THEN pre[i] ELSE suf[i - (k - 1)]
    BY <1>2, <1>7, <2>1
  <2>4. ASSUME NEW i \in 1 .. len - 1
        PROVE  both[i] = IF i < k THEN queue[i] ELSE queue[i + 1]
    <3>1. CASE i < k
      <4>1. i \in 1 .. k - 1
        BY <1>2, <3>1
      <4> QED
        BY <1>2, <1>3, <2>3, <3>1, <4>1
    <3>2. CASE ~(i < k)
      <4>1. i - (k - 1) \in 1 .. len - k /\ (i - (k - 1)) + k = i + 1 /\ ~(i <= k - 1)
        BY <1>2, <3>2
      <4> QED
        BY <1>4, <2>3, <3>2, <4>1
    <3> QED
      BY <3>1, <3>2
  <2>5. both = [i \in 1 .. len - 1 |-> both[i]]
    <3>1. both \in [1 .. Len(both) -> Order]
      BY <2>2
    <3> QED
      BY <2>2, <3>1
  <2> QED
    BY <1>1, <2>1, <2>4, <2>5 DEF EraseAt
<1>19. {i \in DOMAIN queue : queue[i] \in R} = {i \in DOMAIN queue : queue[i].id # id}
  BY <1>2, <1>11
<1> QED
  BY <1>17, <1>18, <1>19 DEF Among, Others

LEMMA QueueWithoutNone ==
  ASSUME NEW queue, queue \in Seq(Order), NEW id, \A i \in DOMAIN queue : queue[i].id # id
  PROVE  Others(queue, id) = queue
<1>1. PICK R : R = {r \in Order : r.id # id}
  OBVIOUS
<1>2. \A i \in DOMAIN queue : queue[i] \in R
  BY <1>1
<1>3. Among(queue, R) = queue
  BY <1>2, AmongAll
<1>4. {i \in DOMAIN queue : queue[i] \in R} = {i \in DOMAIN queue : queue[i].id # id}
  BY <1>1, <1>2
<1> QED
  BY <1>3, <1>4 DEF Among, Others

(* The book without an order that rests in one place only.                 *)
LEMMA CancelledBook ==
  ASSUME NEW b, b = [s \in Side |-> b[s]], \A s \in Side : SoundLevels(b[s], s),
         NEW side, side \in Side, NEW p, p \in DOMAIN b[side], NEW k, k \in DOMAIN b[side][p],
         Distinct(b[side][p]), NEW id, id = b[side][p][k].id,
         \A s \in Side : \A q \in DOMAIN b[s] : s # side \/ q # p =>
           \A i \in DOMAIN b[s][q] : b[s][q][i].id # id,
         NEW final, final = [b EXCEPT ![side] = PutLevel(b[side], p, EraseAt(b[side][p], k))]
  PROVE  Without(BookOf(b), id) = BookOf(final)
<1> DEFINE rows(s, q) == BookOf(b)[s][q]
           open(s, q) == RowsAt(rows(s, q), {i \in DOMAIN rows(s, q) : rows(s, q)[i].id # id})
<1>1. Without(BookOf(b), id) = [s \in Side |-> [q \in Price |-> open(s, q)]]
  BY DEF Without, Where
<1>2. ASSUME NEW s \in Side, NEW q \in Price PROVE open(s, q) = LevelAt(final[s], q)
  <2>1. rows(s, q) = LevelAt(b[s], q)
    BY DEF BookOf, QueuesOf
  <2>2. PICK queue : queue = LevelAt(b[s], q)
    OBVIOUS
  <2>3. open(s, q) = Others(queue, id)
    <3> HIDE DEF rows
    <3> QED
      BY <2>1, <2>2 DEF Others
  <2>4. queue \in Seq(Order)
    <3>1. CASE q \in DOMAIN b[s]
      BY <2>2, <3>1, LevelsAre DEF LevelAt
    <3>2. CASE q \notin DOMAIN b[s]
      BY <2>2, <3>2 DEF LevelAt
    <3> QED
      BY <3>1, <3>2
  <2>5. LevelAt(final[s], q) = IF s = side /\ q = p THEN EraseAt(queue, k) ELSE queue
    <3>1. PICK new : new = PutLevel(b[side], p, EraseAt(b[side][p], k))
      OBVIOUS
    <3>2. LevelAt(new, p) = EraseAt(b[side][p], k) /\ \A r : r # p => LevelAt(new, r) = LevelAt(b[side], r)
      BY <3>1, PutLevelIs
    <3>3. final[s] = IF s = side THEN new ELSE b[s]
      BY <3>1
    <3>4. LevelAt(b[side], p) = b[side][p]
      BY DEF LevelAt
    <3> QED
      BY <2>2, <3>2, <3>3, <3>4
  <2>6. CASE s = side /\ q = p
    <3>1. queue = b[side][p]
      BY <2>2, <2>6 DEF LevelAt
    <3> QED
      BY <2>3, <2>4, <2>5, <2>6, <3>1, QueueWithout
  <2>7. CASE ~(s = side /\ q = p)
    <3>1. \A i \in DOMAIN queue : queue[i].id # id
      <4>1. CASE q \in DOMAIN b[s]
        BY <2>2, <2>7, <4>1 DEF LevelAt
      <4>2. CASE q \notin DOMAIN b[s]
        BY <2>2, <4>2 DEF LevelAt
      <4> QED
        BY <4>1, <4>2
    <3>2. Others(queue, id) = queue
      BY <2>4, <3>1, QueueWithoutNone
    <3> QED
      BY <2>3, <2>5, <2>7, <3>2
  <2> QED
    BY <2>6, <2>7
<1> HIDE DEF open
<1> QED
  BY <1>1, <1>2 DEF BookOf, QueuesOf

(* What the engine sees of a state: the book when the lock was last        *)
(* released, and the identifiers whose match_order has returned.           *)
Returned ==
  {id \in OrderId : placed[id] # NoOrder /\ \A t \in Thread : Submitting(t) => incoming[t].id # id}

LEMMA SeenQueue ==
  /\ [side \in Side |-> [p \in Price |-> IF p \in DOMAIN settled[side] THEN settled[side][p] ELSE <<>>]]
       = BookOf(settled)
  /\ [side \in Side |-> [p \in Price |-> IF p \in DOMAIN settled'[side] THEN settled'[side][p] ELSE <<>>]]
       = BookOf(settled')
BY DEF BookOf, QueuesOf, LevelAt

LEMMA EngineSubmits ==
  ASSUME NEW o, o.id \notin Returned, Returned' = Returned \cup {o.id},
         BookOf(settled') = AfterMatch(BookOf(settled), o),
         tape' = tape \cup Range(Executions(BookOf(settled)[Opposite(o.type)], o)),
         UNCHANGED <<cancelled, shown>>
  PROVE  Engine!Submit(o)
<1>1. /\ Engine!AfterMatch(BookOf(settled), o) = AfterMatch(BookOf(settled), o)
      /\ Engine!Range(Engine!Executions(BookOf(settled)[Engine!Opposite(o.type)], o))
           = Range(Executions(BookOf(settled)[Opposite(o.type)], o))
  BY EngineAfterMatch, EngineSums, EngineExecutions, EngineOrders
<1> QED
  BY <1>1, SeenQueue DEF Engine!Submit, Returned

LEMMA EngineCancels ==
  ASSUME NEW id, NEW side \in Side, NEW p \in Price, NEW k \in DOMAIN BookOf(settled)[side][p],
         BookOf(settled)[side][p][k].id = id,
         BookOf(settled') = Without(BookOf(settled), id), Returned' = Returned,
         cancelled' = cancelled \cup {id},
         UNCHANGED <<tape, shown>>
  PROVE  Engine!Cancel(id)
BY SeenQueue, EngineWithout, EngineOrders DEF Engine!Cancel, Returned

LEMMA EngineShows ==
  ASSUME shown' = [side \in Side |-> Depth(Occupied(BookOf(settled)[side]))],
         settled' = settled, Returned' = Returned,
         UNCHANGED <<tape, cancelled>>
  PROVE  Engine!Show
BY SeenQueue, EngineDepthOf DEF Engine!Show, Returned

LEMMA EngineStutters ==
  ASSUME settled' = settled, Returned' = Returned, UNCHANGED <<tape, cancelled, shown>>
  PROVE  UNCHANGED Engine!vars
BY SeenQueue DEF Engine!vars, Returned

LEMMA EngineStarts == Init => Engine!Init
<1> SUFFICES ASSUME Init PROVE Engine!Init
  OBVIOUS
<1>1. BookOf(settled) = Engine!EmptyQueues
  BY EngineOrders DEF Init, EmptyBook, BookOf, QueuesOf, LevelAt, Engine!EmptyQueues
<1>2. Returned = {}
  BY DEF Init, Returned
<1>3. shown = Engine!DepthOf(Engine!EmptyQueues)
  <2>1. Engine!EmptyQueues = [side \in Side |-> [p \in Price |-> <<>>]]
    BY EngineOrders DEF Engine!EmptyQueues
  <2>2. Occupied([p \in Price |-> <<>>]) = [p \in {} |-> 0]
    <3>1. {q \in Price : [p \in Price |-> <<>>][q] # <<>>} = {}
      OBVIOUS
    <3> QED
      BY <3>1 DEF Occupied
  <2>3. Depth([p \in {} |-> 0]) = [p \in {} |-> 0]
    BY DEF Depth
  <2>4. \A side \in Side : Depth(Occupied([s \in Side |-> [p \in Price |-> <<>>]][side])) = [p \in {} |-> 0]
    BY <2>2, <2>3
  <2> QED
    BY <2>1, <2>4, EngineDepthOf DEF Init, NoDepth
<1> QED
  BY <1>1, <1>2, <1>3, SeenQueue DEF Engine!Init, Init, Returned

LEMMA QuietReturned ==
  ASSUME Quiet
  PROVE  Returned' = Returned
BY DEF Quiet, Returned

LEMMA CallMatchReturned ==
  ASSUME EngineInv, NEW t \in Thread, NEW id \in OrderId, NEW r \in Requests, CallMatch(t, id, r)
  PROVE  Returned' = Returned
<1>1. PICK o : o = NewOrder(id, r)
  OBVIOUS
<1>2. /\ pc[t] = "idle" /\ pc' = [pc EXCEPT ![t] = "match_wait"]
      /\ placed[id] = NoOrder
      /\ placed' = [placed EXCEPT ![id] = o]
      /\ incoming' = [incoming EXCEPT ![t] = o]
      /\ DOMAIN pc = Thread /\ DOMAIN placed = OrderId /\ DOMAIN incoming = Thread
      /\ o.id = id
  BY <1>1 DEF CallMatch, Goto, EngineInv, CancelInv, ShapeInv, TypeOK, NewOrder
<1>3. Submitting(t)' /\ incoming'[t].id = id /\ ~Submitting(t)
  BY <1>2 DEF Submitting
<1>4. \A u \in Thread \ {t} : (Submitting(u)' <=> Submitting(u)) /\ incoming'[u] = incoming[u]
  BY <1>2 DEF Submitting
<1>5. id \notin Returned /\ id \notin Returned'
  BY <1>2, <1>3 DEF Returned
<1>6. ASSUME NEW i \in OrderId, i # id
      PROVE  i \in Returned' <=> i \in Returned
  <2>1. placed'[i] = placed[i]
    BY <1>2, <1>6
  <2>2. (\A u \in Thread : Submitting(u)' => incoming'[u].id # i)
          <=> (\A u \in Thread : Submitting(u) => incoming[u].id # i)
    BY <1>3, <1>4, <1>6
  <2> QED
    BY <2>1, <2>2 DEF Returned
<1>7. Returned \subseteq OrderId /\ Returned' \subseteq OrderId
  BY DEF Returned
<1> QED
  BY <1>5, <1>6, <1>7

LEMMA MatchStepReturned ==
  ASSUME EngineInv, NEW t \in Thread, MatchStep(t)
  PROVE  Returned' = Returned /\ settled' = settled /\ UNCHANGED <<tape, cancelled, shown>>
<1>1. UNCHANGED <<pc, placed, settled, tape, cancelled, shown>>
  BY DEF MatchStep, historyVars
<1>2. PICK o : o = incoming[t]
  OBVIOUS
<1>3. o \in Order
  BY <1>2 DEF MatchStep, EngineInv, CancelInv, ShapeInv, TypeOK, Submitting
<1>4. \E n : incoming' = [incoming EXCEPT ![t] = FilledBy(o, n)]
  BY <1>2 DEF MatchStep
<1>5. \A n : FilledBy(o, n).id = o.id
  BY <1>3 DEF FilledBy, Order
<1>6. \A u \in Thread : incoming'[u].id = incoming[u].id
  <2>1. DOMAIN incoming = Thread
    BY DEF EngineInv, CancelInv, ShapeInv, TypeOK
  <2> QED
    BY <1>2, <1>4, <1>5, <2>1
<1> QED
  BY <1>1, <1>6 DEF Returned, Submitting

LEMMA RestReturned ==
  ASSUME EngineInv, NEW t \in Thread, Rest(t), NEW o, o = incoming[t]
  PROVE  o.id \notin Returned /\ Returned' = Returned \cup {o.id}
<1>1. /\ pc[t] = "rest" /\ pc' = [pc EXCEPT ![t] = "idle"]
      /\ incoming' = [incoming EXCEPT ![t] = NoOrder]
      /\ placed' = placed
      /\ DOMAIN pc = Thread /\ DOMAIN incoming = Thread
  BY DEF Rest, Goto, EngineInv, CancelInv, ShapeInv, TypeOK
<1>2. Submitting(t) /\ ~Submitting(t)'
  BY <1>1 DEF Submitting
<1>3. \A u \in Thread \ {t} : (Submitting(u)' <=> Submitting(u)) /\ incoming'[u] = incoming[u]
  BY <1>1 DEF Submitting
<1>4. /\ placed[o.id] # NoOrder /\ o.id \in OrderId
      /\ \A u \in Thread \ {t} : Submitting(u) => incoming[u].id # o.id
  BY <1>2, PlacedIs DEF EngineInv, CancelInv, SubmittedInv
<1>5. o.id \notin Returned
  BY <1>2 DEF Returned
<1>6. ASSUME NEW i \in OrderId
      PROVE  i \in Returned' <=> i \in Returned \/ i = o.id
  <2>1. i \in Returned' <=> placed[i] # NoOrder /\ \A u \in Thread \ {t} : Submitting(u) => incoming[u].id # i
    BY <1>1, <1>2, <1>3 DEF Returned
  <2>2. i \in Returned <=> /\ placed[i] # NoOrder /\ i # o.id
                           /\ \A u \in Thread \ {t} : Submitting(u) => incoming[u].id # i
    BY <1>2 DEF Returned
  <2> QED
    BY <1>4, <2>1, <2>2
<1>7. Returned \subseteq OrderId /\ Returned' \subseteq OrderId
  BY DEF Returned
<1> QED
  BY <1>4, <1>5, <1>6, <1>7

(* match_order returns: the engine submits the order.                      *)
LEMMA RestSubmits ==
  ASSUME EngineInv, NEW t \in Thread, Rest(t)
  PROVE  \E id \in OrderId, r \in Requests : Engine!Submit(NewOrder(id, r))
<1>1. PICK o : o = incoming[t]
  OBVIOUS
<1>2. PICK o0 : o0 = placed[o.id]
  OBVIOUS
<1>3. /\ pc[t] = "rest"
      /\ book' = AfterRest(o)
      /\ settled' = book'
      /\ tape' = tape \cup made[t]
      /\ UNCHANGED <<cancelled, shown>>
  BY <1>1 DEF Rest, Goto
<1>4. Submitting(t) /\ Matching(t)
  BY <1>3 DEF Submitting, Matching
<1>5. /\ o \in Order /\ o0 \in Order /\ o0.type = o.type /\ o.type \in Side /\ Remaining(o0) \in Nat
      /\ o0.id = o.id /\ o.id \in OrderId
      /\ \E r \in Requests : o0 = NewOrder(o.id, r)
  BY <1>1, <1>2, <1>4, PlacedIs
<1>6. PICK side : side = Opposite(o0.type)
  OBVIOUS
<1>7. side \in Side
  BY <1>6 DEF Opposite, Side
<1>8. PICK now : now = book
  OBVIOUS
<1>9. PICK old : old = settled
  OBVIOUS
<1>10. PICK trades : trades = made[t]
  OBVIOUS
<1>11. /\ now[o0.type] = old[o0.type]
       /\ \E g : Progress(old[side], now[side], g, o0, o, trades)
  BY <1>1, <1>2, <1>4, <1>6, <1>8, <1>9, <1>10 DEF EngineInv, InProgress, Tracks
<1>12. PICK g : Progress(old[side], now[side], g, o0, o, trades)
  BY <1>11
<1>13. SoundLevels(now[side], side) /\ SoundLevels(old[side], side)
  BY <1>7, <1>8, <1>9 DEF EngineInv, SoundBooks
<1>14. Remaining(o) > 0 => \A p \in DOMAIN now[side] : ~Crosses(o, p)
  BY <1>1, <1>3, <1>5, <1>6, <1>8 DEF EngineInv, BookInv, RestCannotCross
<1>15. Ends(old[side], now[side], g, o0, o, trades)
  BY <1>5, <1>6, <1>12, <1>13, <1>14 DEF Ends
<1>16. o.mode = o0.mode
  <2>1. PICK sum : sum = SumIn(g, RestingAt(old[side]))
    OBVIOUS
  <2>2. sum \in Nat
    <3>1. g \in [RestingAt(old[side]) -> Nat] /\ IsFiniteSet(RestingAt(old[side]))
      BY <1>12, <1>13, PlacesAreFinite DEF Progress, IsGiven
    <3>2. RestingAt(old[side]) \in SUBSET RestingAt(old[side])
      OBVIOUS
    <3> QED
      BY <2>1, <3>1, <3>2, SumGrows
  <2>3. o = FilledBy(o0, sum)
    BY <1>12, <2>1 DEF Progress
  <2> QED
    BY <1>5, <2>2, <2>3, FilledByType
<1>17. now = [s \in Side |-> now[s]]
  BY <1>8 DEF EngineInv, CancelInv, ShapeInv, TypeOK, IsBook
<1>18. PICK final : final = IF o.mode = "LIMIT" /\ Remaining(o) > 0 THEN AddOrder(now, o) ELSE now
  OBVIOUS
<1>19. settled' = final
  BY <1>3, <1>8, <1>18 DEF AfterRest
<1>20. AfterMatch(BookOf(old), o0) = BookOf(final)
  BY <1>5, <1>6, <1>11, <1>15, <1>16, <1>17, <1>18, MatchedBook
<1>21. Range(Executions(BookOf(old)[side], o0)) = trades
  <2>1. BookOf(old)[side] = QueuesOf(old[side])
    BY <1>7 DEF BookOf
  <2> QED
    BY <1>15, <2>1, ExecutionsAre
<1>22. o0.id \notin Returned /\ Returned' = Returned \cup {o0.id}
  BY <1>1, <1>5, RestReturned
<1>23. BookOf(settled') = AfterMatch(BookOf(settled), o0)
  BY <1>9, <1>19, <1>20
<1>24. tape' = tape \cup Range(Executions(BookOf(settled)[Opposite(o0.type)], o0))
  BY <1>3, <1>6, <1>9, <1>10, <1>21
<1>25. Engine!Submit(o0)
  BY <1>3, <1>22, <1>23, <1>24, EngineSubmits
<1> QED
  BY <1>5, <1>25

(* A thread that does not match holds the lock, in whatever way: the book  *)
(* is the settled one.                                                     *)
LEMMA BookIsSettled ==
  ASSUME EngineInv, NEW t \in Thread, pc[t] = "cancel" \/ pc[t] \in {"snapshot_bids", "snapshot_asks"}
  PROVE  book = settled
<1>1. \A u \in Thread : ~Matching(u)
  BY ThreadAssumption DEF EngineInv, CancelInv, ShapeInv, Exclusion, Matching
<1> QED
  BY <1>1 DEF EngineInv, BetweenCalls

(* cancel_order returns true: the engine cancels.                          *)
LEMMA CancelFoundCancels ==
  ASSUME EngineInv, NEW t \in Thread, CancelFound(t)
  PROVE  \E id \in OrderId : Engine!Cancel(id)
<1>1. PICK b : b = book
  OBVIOUS
<1>2. PICK id : id = target[t]
  OBVIOUS
<1>3. PICK side \in Side : \E p \in DOMAIN b[side] : \E k \in DOMAIN b[side][p] :
        /\ Holds(b[side], p, k, id)
        /\ LeaveCancel(t, [b EXCEPT ![side] = PutLevel(@, p, EraseAt(@[p], k))], {id})
  BY <1>1, <1>2 DEF CancelFound
<1>4. PICK p \in DOMAIN b[side] : \E k \in DOMAIN b[side][p] :
        /\ Holds(b[side], p, k, id)
        /\ LeaveCancel(t, [b EXCEPT ![side] = PutLevel(@, p, EraseAt(@[p], k))], {id})
  BY <1>3
<1>5. PICK k \in DOMAIN b[side][p] :
        /\ Holds(b[side], p, k, id)
        /\ LeaveCancel(t, [b EXCEPT ![side] = PutLevel(@, p, EraseAt(@[p], k))], {id})
  BY <1>4
<1>6. PICK final : final = [b EXCEPT ![side] = PutLevel(b[side], p, EraseAt(b[side][p], k))]
  OBVIOUS
<1>7. /\ pc[t] = "cancel" /\ pc' = [pc EXCEPT ![t] = "idle"]
      /\ settled' = final
      /\ cancelled' = cancelled \cup {id}
      /\ UNCHANGED <<incoming, placed, tape, shown>>
  BY <1>5, <1>6 DEF LeaveCancel, Goto
<1>8. id = b[side][p][k].id
  BY <1>5 DEF Holds
<1>9. b = [s \in Side |-> b[s]] /\ \A s \in Side : SoundLevels(b[s], s)
  BY <1>1 DEF EngineInv, CancelInv, ShapeInv, TypeOK, IsBook, SoundBooks
<1>10. /\ Distinct(b[side][p])
       /\ Lives(id, side, p)
       /\ \A s \in Side : \A q \in DOMAIN b[s] : \A i \in DOMAIN b[s][q] : Lives(b[s][q][i].id, s, q)
  <2>1. \A s \in Side : \A q \in DOMAIN b[s] :
          Distinct(b[s][q]) /\ \A j \in IdsOf(b[s][q]) : Lives(j, s, q)
    BY <1>1 DEF EngineInv, CancelInv, RestingInv
  <2>2. \A s \in Side : \A q \in DOMAIN b[s] : \A i \in DOMAIN b[s][q] : b[s][q][i].id \in IdsOf(b[s][q])
    BY DEF IdsOf
  <2> QED
    BY <1>8, <2>1, <2>2
<1>11. \A s \in Side : \A q \in DOMAIN b[s] : s # side \/ q # p =>
         \A i \in DOMAIN b[s][q] : b[s][q][i].id # id
  BY <1>10 DEF Lives
<1>12. Without(BookOf(b), id) = BookOf(final)
  BY <1>6, <1>8, <1>9, <1>10, <1>11, CancelledBook
<1>13. b = settled
  BY <1>1, <1>7, BookIsSettled
<1>14. p \in Price /\ BookOf(settled)[side][p] = b[side][p]
  <2>1. p \in Price
    BY <1>9, LevelsAre
  <2> QED
    BY <1>13, <2>1 DEF BookOf, QueuesOf, LevelAt
<1>15. Returned' = Returned
  <2>1. \A u \in Thread : Submitting(u)' <=> Submitting(u)
    <3>1. DOMAIN pc = Thread
      BY DEF EngineInv, CancelInv, ShapeInv, TypeOK
    <3> QED
      BY <1>7, <3>1 DEF Submitting
  <2> QED
    BY <1>7, <2>1 DEF Returned
<1>16. id \in OrderId
  BY <1>2, <1>7 DEF EngineInv, CancelInv, ShapeInv, TypeOK
<1>17. BookOf(settled') = Without(BookOf(settled), id)
  BY <1>7, <1>12, <1>13
<1>18. k \in DOMAIN BookOf(settled)[side][p] /\ BookOf(settled)[side][p][k].id = id
  BY <1>8, <1>14
<1>19. Engine!Cancel(id)
  BY <1>7, <1>14, <1>15, <1>17, <1>18, EngineCancels
<1> QED
  BY <1>16, <1>19

LEMMA OccupiedIs ==
  ASSUME NEW levels, NEW side, SoundLevels(levels, side)
  PROVE  Occupied(QueuesOf(levels)) = levels
<1>1. {q \in Price : QueuesOf(levels)[q] # <<>>} = DOMAIN levels
  BY LevelsAre DEF QueuesOf, LevelAt
<1>2. \A p \in DOMAIN levels : QueuesOf(levels)[p] = levels[p]
  BY LevelsAre DEF QueuesOf, LevelAt
<1>3. levels = [p \in DOMAIN levels |-> levels[p]]
  BY DEF SoundLevels, IsLevels, IsKeyedByPrice
<1> QED
  BY <1>1, <1>2, <1>3 DEF Occupied

(* get_snapshot returns: the engine shows the book of this instant.        *)
LEMMA ReadAsksShows ==
  ASSUME EngineInv, NEW t \in Thread, ReadAsks(t)
  PROVE  Engine!Show
<1>1. /\ pc[t] = "snapshot_asks" /\ pc' = [pc EXCEPT ![t] = "idle"]
      /\ shown' = [BUY |-> seen[t], SELL |-> Depth(book["SELL"])]
      /\ UNCHANGED <<settled, incoming, placed, tape, cancelled>>
  BY DEF ReadAsks, Goto
<1>2. PICK b : b = settled
  OBVIOUS
<1>3. book = b
  BY <1>1, <1>2, BookIsSettled
<1>4. seen[t] = Depth(b["BUY"])
  BY <1>1, <1>3 DEF EngineInv, SeenIsDepth
<1>5. \A side \in Side : Occupied(BookOf(b)[side]) = b[side]
  <2>1. \A side \in Side : SoundLevels(b[side], side)
    BY <1>2 DEF EngineInv, SoundBooks
  <2>2. \A side \in Side : Occupied(QueuesOf(b[side])) = b[side]
    BY <2>1, OccupiedIs
  <2> QED
    BY <2>2 DEF BookOf
<1>6. shown' = [side \in Side |-> Depth(Occupied(BookOf(settled)[side]))]
  <2>1. shown' = [side \in Side |-> Depth(b[side])]
    BY <1>1, <1>3, <1>4 DEF Side
  <2> QED
    BY <1>2, <1>5, <2>1
<1>7. Returned' = Returned
  <2>1. \A u \in Thread : Submitting(u)' <=> Submitting(u)
    <3>1. DOMAIN pc = Thread
      BY DEF EngineInv, CancelInv, ShapeInv, TypeOK
    <3> QED
      BY <1>1, <3>1 DEF Submitting
  <2> QED
    BY <1>1, <2>1 DEF Returned
<1> QED
  BY <1>1, <1>6, <1>7, EngineShows

(* The other steps are within a call, and the engine takes none.           *)
LEMMA OthersStutter ==
  ASSUME EngineInv, NEW t \in Thread, Call(t) \/ Step(t), ~Rest(t), ~CancelFound(t), ~ReadAsks(t)
  PROVE  UNCHANGED Engine!vars
<1>1. settled' = settled
  <2>1. CASE CancelNotFound(t)
    <3>1. pc[t] = "cancel" /\ settled' = book
      BY <2>1 DEF CancelNotFound, LeaveCancel, Goto
    <3> QED
      BY <3>1, BookIsSettled
  <2> QED
    BY <2>1, SettledSteps
<1>2. UNCHANGED <<tape, cancelled, shown>>
  BY DEF Call, Step, CallMatch, EnterMatch, MatchStep, ExitLoop, CallCancel, EnterCancel,
         CancelNotFound, LeaveCancel, CallSnapshot, EnterSnapshot, ReadBids, historyVars
<1>3. Returned' = Returned
  BY QuietSteps, QuietReturned, CallMatchReturned, MatchStepReturned DEF EngineInv, CancelInv
<1> QED
  BY <1>1, <1>2, <1>3, EngineStutters

LEMMA EngineTakesStep == EngineInv /\ [Next]_vars => [Engine!Next]_(Engine!vars)
<1> SUFFICES ASSUME EngineInv, [Next]_vars PROVE [Engine!Next]_(Engine!vars)
  OBVIOUS
<1>1. ASSUME NEW t \in Thread, Call(t) \/ Step(t)
      PROVE  [Engine!Next]_(Engine!vars)
  <2>1. CASE Rest(t)
    BY <2>1, RestSubmits, EngineTrades DEF Engine!Next
  <2>2. CASE CancelFound(t)
    BY <2>2, CancelFoundCancels DEF Engine!Next
  <2>3. CASE ReadAsks(t)
    BY <2>3, ReadAsksShows DEF Engine!Next
  <2>4. CASE ~Rest(t) /\ ~CancelFound(t) /\ ~ReadAsks(t)
    BY <1>1, <2>4, OthersStutter
  <2> QED
    BY <2>1, <2>2, <2>3, <2>4
<1>2. ASSUME UNCHANGED vars
      PROVE  UNCHANGED Engine!vars
  <2>1. UNCHANGED <<settled, placed, pc, incoming, tape, cancelled, shown>>
    BY <1>2 DEF vars
  <2>2. Returned' = Returned
    BY <2>1 DEF Returned, Submitting
  <2> QED
    BY <2>1, <2>2, EngineStutters
<1> QED
  BY <1>1, <1>2 DEF Next

(* However many threads call it, the book does what an engine does that    *)
(* takes each call in one step: it matches by price, then by time.         *)
THEOREM BookIsTheEngine == Spec => ImplementsEngine
<1>1. EngineInv /\ [Next]_vars => EngineInv'
  BY EngineStep
<1>2. Spec => Engine!Init /\ [][Engine!Next]_(Engine!vars)
  BY <1>1, EngineInit, EngineStarts, EngineTakesStep, PTL DEF Spec
<1> QED
  BY <1>2 DEF ImplementsEngine, Engine!Spec
=============================================================================
