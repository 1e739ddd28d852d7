----------------------------- MODULE OrderBook ------------------------------
(***************************************************************************)
(* One OrderBook (include/core/order_book.hpp, src/core/order_book.cpp)    *)
(* called from several threads.                                            *)
(*                                                                         *)
(* The two price maps are guarded by a std::shared_mutex: match_order and  *)
(* cancel_order hold it exclusively, the readers share it.  A thread takes *)
(* one step per call, per acquisition of the lock, per iteration of the    *)
(* match loop and per side read by get_snapshot; the lock is released by   *)
(* the last step of a call, where the code's lock guard leaves its scope.  *)
(***************************************************************************)
EXTENDS Orders

CONSTANTS
  Thread,    \* the threads that call the book
  None,      \* no thread holds the lock exclusively
  NoOrder,   \* the thread is not matching
  NoId,      \* the thread is not cancelling
  Requests   \* the requests the callers make, a subset of Request

ASSUME ThreadAssumption == None \notin Thread
ASSUME NoOrderAssumption == NoOrder \notin Order
ASSUME NoIdAssumption == NoId \notin OrderId
ASSUME RequestsAssumption == Requests \subseteq Request

VARIABLES
  book,      \* bids_ and asks_
  writer,    \* the thread holding mutex_ exclusively, or None
  readers,   \* the threads holding mutex_ shared
  pc,        \* where each thread is
  incoming,  \* the Order a thread is matching
  made,      \* the trades match_order has made so far for that thread
  target,    \* the identifier a thread is cancelling
  seen,      \* the bids a thread's get_snapshot has aggregated so far
  (* history *)
  placed,    \* the order as submitted under each identifier, or NoOrder
  tape,      \* the trades of the match_order calls that have returned
  cancelled, \* the identifiers for which cancel_order returned true
  settled,   \* the book when mutex_ was last released by a writer
  shown      \* the last snapshot returned

lockVars    == <<writer, readers>>
localVars   == <<pc, incoming, made, target, seen>>
historyVars == <<placed, tape, cancelled, settled, shown>>
vars        == <<book, writer, readers, pc, incoming, made, target, seen,
                 placed, tape, cancelled, settled, shown>>

NoDepth == [p \in {} |-> 0]

Location == {"idle", "match_wait", "match", "rest", "cancel_wait",
             "cancel", "snapshot_wait", "snapshot_bids", "snapshot_asks"}

Init ==
  /\ book = EmptyBook
  /\ writer = None
  /\ readers = {}
  /\ pc = [t \in Thread |-> "idle"]
  /\ incoming = [t \in Thread |-> NoOrder]
  /\ made = [t \in Thread |-> {}]
  /\ target = [t \in Thread |-> NoId]
  /\ seen = [t \in Thread |-> NoDepth]
  /\ placed = [id \in OrderId |-> NoOrder]
  /\ tape = {}
  /\ cancelled = {}
  /\ settled = EmptyBook
  /\ shown = [side \in Side |-> NoDepth]

-----------------------------------------------------------------------------
(* The lock *)

Goto(t, from, to) ==
  /\ pc[t] = from
  /\ pc' = [pc EXCEPT ![t] = to]

(* std::unique_lock lock(mutex_)                                           *)
LockExclusive(t) ==
  /\ writer = None
  /\ readers = {}
  /\ writer' = t
  /\ UNCHANGED readers

LockSharedIgnoringWriter(t) ==
  /\ readers' = readers \cup {t}
  /\ UNCHANGED writer

(* std::shared_lock lock(mutex_)                                           *)
LockShared(t) ==
  /\ writer = None
  /\ readers' = readers \cup {t}
  /\ UNCHANGED writer

-----------------------------------------------------------------------------
(* match_order *)

CallMatch(t, id, r) ==
  /\ Goto(t, "idle", "match_wait")
  /\ placed[id] = NoOrder
  /\ placed' = [placed EXCEPT ![id] = NewOrder(id, r)]
  /\ incoming' = [incoming EXCEPT ![t] = NewOrder(id, r)]
  /\ UNCHANGED <<book, lockVars, made, target, seen, tape, cancelled, settled, shown>>

EnterMatch(t) ==
  /\ Goto(t, "match_wait", "match")
  /\ LockExclusive(t)
  /\ UNCHANGED <<book, incoming, made, target, seen, historyVars>>

(* One iteration: trade with the front order of the best opposite level.   *)
MatchStepRestingUnfilled(t) ==
  /\ pc[t] = "match"
  /\ LET o    == incoming[t]
         side == Opposite(o.type)
     IN  \E p \in DOMAIN book[side] :
           LET resting == Head(book[side][p])
               n       == MatchQuantity(o, resting)
           IN  /\ Remaining(o) > 0
               /\ IsBest(book[side], side, p)
               /\ Crosses(o, p)
               /\ made' = [made EXCEPT ![t] = @ \cup {CreateTrade(o, resting, n, p)}]
               /\ incoming' = [incoming EXCEPT ![t] = FilledBy(o, n)]
               /\ book' = IF n = Remaining(resting)
                          THEN [book EXCEPT ![side] = PutLevel(@, p, AfterFill(@[p], n))]
                          ELSE book
  /\ UNCHANGED <<lockVars, pc, target, seen, historyVars>>

MatchStep(t) ==
  /\ pc[t] = "match"
  /\ LET o    == incoming[t]
         side == Opposite(o.type)
     IN  \E p \in DOMAIN book[side] :
           LET resting == Head(book[side][p])
               n       == MatchQuantity(o, resting)
           IN  /\ Remaining(o) > 0
               /\ IsBest(book[side], side, p)
               /\ Crosses(o, p)
               /\ made' = [made EXCEPT ![t] = @ \cup {CreateTrade(o, resting, n, p)}]
               /\ incoming' = [incoming EXCEPT ![t] = FilledBy(o, n)]
               /\ book' = [book EXCEPT ![side] = PutLevel(@, p, AfterFill(@[p], n))]
  /\ UNCHANGED <<lockVars, pc, target, seen, historyVars>>

(* The loop ends: nothing is left, or no level is, or none is good enough. *)
ExitLoop(t) ==
  LET o    == incoming[t]
      side == Opposite(o.type)
  IN  /\ Goto(t, "match", "rest")
      /\ \/ Remaining(o) <= 0
         \/ DOMAIN book[side] = {}
         \/ \E p \in DOMAIN book[side] : IsBest(book[side], side, p) /\ ~Crosses(o, p)
      /\ UNCHANGED <<book, lockVars, incoming, made, target, seen, historyVars>>

(* The remainder of a LIMIT order is added to its side, and the call       *)
(* returns its trades.                                                     *)
AfterRestMarketToo(o) == IF Remaining(o) > 0 THEN AddOrder(book, o) ELSE book

AfterRest(o) ==
  IF o.mode = "LIMIT" /\ Remaining(o) > 0 THEN AddOrder(book, o) ELSE book

Rest(t) ==
  /\ Goto(t, "rest", "idle")
  /\ book' = AfterRest(incoming[t])
  /\ settled' = book'
  /\ tape' = tape \cup made[t]
  /\ writer' = None
  /\ incoming' = [incoming EXCEPT ![t] = NoOrder]
  /\ made' = [made EXCEPT ![t] = {}]
  /\ UNCHANGED <<readers, target, seen, placed, cancelled, shown>>

-----------------------------------------------------------------------------
(* cancel_order *)

CallCancel(t, id) ==
  /\ Goto(t, "idle", "cancel_wait")
  /\ target' = [target EXCEPT ![t] = id]
  /\ UNCHANGED <<book, lockVars, incoming, made, seen, historyVars>>

EnterCancel(t) ==
  /\ Goto(t, "cancel_wait", "cancel")
  /\ LockExclusive(t)
  /\ UNCHANGED <<book, incoming, made, target, seen, historyVars>>

(* Where the two searches find the order: the bids are searched first.     *)
Holds(levels, p, k, id) ==
  p \in DOMAIN levels /\ k \in DOMAIN levels[p] /\ levels[p][k].id = id

EraseFront(queue, k) == Tail(queue)

EraseAt(queue, k) == [i \in 1 .. Len(queue) - 1 |-> IF i < k THEN queue[i] ELSE queue[i + 1]]

LeaveCancel(t, final, gone) ==
  /\ Goto(t, "cancel", "idle")
  /\ book' = final
  /\ settled' = final
  /\ cancelled' = cancelled \cup gone
  /\ writer' = None
  /\ target' = [target EXCEPT ![t] = NoId]
  /\ UNCHANGED <<readers, incoming, made, seen, placed, tape, shown>>

CancelFound(t) ==
  \E side \in Side : \E p \in DOMAIN book[side] : \E k \in DOMAIN book[side][p] :
    /\ Holds(book[side], p, k, target[t])
    /\ LeaveCancel(t, [book EXCEPT ![side] = PutLevel(@, p, EraseAt(@[p], k))], {target[t]})

CancelNotFound(t) ==
  /\ \A side \in Side : \A p \in DOMAIN book[side] : \A k \in DOMAIN book[side][p] :
       ~Holds(book[side], p, k, target[t])
  /\ LeaveCancel(t, book, {})

-----------------------------------------------------------------------------
(* get_snapshot *)

CallSnapshot(t) ==
  /\ Goto(t, "idle", "snapshot_wait")
  /\ UNCHANGED <<book, lockVars, incoming, made, target, seen, historyVars>>

EnterSnapshot(t) ==
  /\ Goto(t, "snapshot_wait", "snapshot_bids")
  /\ LockShared(t)
  /\ UNCHANGED <<book, incoming, made, target, seen, historyVars>>

ReadBids(t) ==
  /\ Goto(t, "snapshot_bids", "snapshot_asks")
  /\ seen' = [seen EXCEPT ![t] = Depth(book["BUY"])]
  /\ UNCHANGED <<book, lockVars, incoming, made, target, historyVars>>

ReadAsks(t) ==
  /\ Goto(t, "snapshot_asks", "idle")
  /\ shown' = [BUY |-> seen[t], SELL |-> Depth(book["SELL"])]
  /\ seen' = [seen EXCEPT ![t] = NoDepth]
  /\ readers' = readers \ {t}
  /\ UNCHANGED <<book, writer, incoming, made, target, placed, tape, cancelled, settled>>

-----------------------------------------------------------------------------
Step(t) ==
  \/ EnterMatch(t)
  \/ MatchStep(t)
  \/ ExitLoop(t)
  \/ Rest(t)
  \/ EnterCancel(t)
  \/ CancelFound(t)
  \/ CancelNotFound(t)
  \/ EnterSnapshot(t)
  \/ ReadBids(t)
  \/ ReadAsks(t)

Call(t) ==
  \/ \E id \in OrderId, r \in Requests : CallMatch(t, id, r)
  \/ \E id \in OrderId : CallCancel(t, id)
  \/ CallSnapshot(t)

Next == \E t \in Thread : Call(t) \/ Step(t)

Spec == Init /\ [][Next]_vars

(* A thread inside a call keeps running; nobody has to call.  Waiting for  *)
(* the lock is only weakly fair: the C++ standard does not promise that a  *)
(* waiting thread ever gets a shared_mutex others keep taking.             *)
FairSpec == Spec /\ \A t \in Thread : WF_vars(Step(t))

-----------------------------------------------------------------------------
(* Properties *)

TradesOf(trades, id) == {tr \in trades : id \in {tr.buy, tr.sell}}

Quantity(trades) == MapThenSumSet(LAMBDA tr : tr.quantity, trades)

Submitting(t) == pc[t] \in {"match_wait", "match", "rest"}

(* Every variable has its type: the two maps hold queues of orders keyed   *)
(* by price, the lock is held by threads, each thread-local variable       *)
(* carries what its thread's place in a call needs.                        *)
TypeOK ==
  /\ IsBook(book)
  /\ writer \in Thread \cup {None}
  /\ readers \in SUBSET Thread
  /\ pc \in [Thread -> Location]
  /\ incoming \in [Thread -> Order \cup {NoOrder}]
  /\ \A t \in Thread : Submitting(t) => incoming[t] \in Order
  /\ made \in [Thread -> SUBSET Trade]
  /\ target \in [Thread -> OrderId \cup {NoId}]
  /\ \A t \in Thread : pc[t] \in {"cancel_wait", "cancel"} => target[t] \in OrderId
  /\ DOMAIN seen = Thread /\ \A t \in Thread : DOMAIN seen[t] \subseteq Price
  /\ placed \in [OrderId -> Order \cup {NoOrder}]
  /\ tape \in SUBSET Trade
  /\ cancelled \in SUBSET OrderId
  /\ IsBook(settled)

(* The book is never crossed: at every moment, the middle of a match       *)
(* included, each bid is below each ask, so that get_spread is positive    *)
(* and no two resting orders could have traded with one another.           *)
NotCrossed ==
  \A bid \in DOMAIN book["BUY"], ask \in DOMAIN book["SELL"] : bid < ask

(* Only live liquidity rests: no level is left empty (orders.front() of an *)
(* empty deque is undefined), and what rests is a LIMIT order, on its own  *)
(* side, at its own price, with a quantity still to trade.                 *)
OnlyOpenOrdersRest ==
  \A side \in Side : \A p \in DOMAIN book[side] :
    /\ book[side][p] # <<>>
    /\ \A k \in DOMAIN book[side][p] :
         LET o == book[side][p][k]
         IN  o.mode = "LIMIT" /\ o.type = side /\ o.price = p /\ Remaining(o) > 0

(* The fills are accounted for: what an order, resting or being matched,   *)
(* says it has filled is the quantity of the trades made with it, those of *)
(* a match still running included; no order trades beyond its quantity.    *)
FillsAreTrades ==
  LET all == tape \cup UNION {made[t] : t \in Thread}
  IN  /\ \A o \in Resting(book) \cup {incoming[t] : t \in {u \in Thread : Submitting(u)}} :
           o.filled = Quantity(TradesOf(all, o.id))
      /\ \A id \in {i \in OrderId : placed[i] # NoOrder} :
           Quantity(TradesOf(all, id)) <= placed[id].quantity

(* Once cancel_order has returned true the order never trades again,       *)
(* whatever the other threads were doing when it was called.               *)
CancelIsFinal ==
  [][\A id \in cancelled : TradesOf(tape', id) = TradesOf(tape, id)]_vars

(* A snapshot is never crossed, although its two sides are read one after  *)
(* the other while other threads are waiting to trade.                     *)
SnapshotNotCrossed ==
  \A bid \in DOMAIN shown["BUY"], ask \in DOMAIN shown["SELL"] : bid < ask

(* The calls are atomic and obey price-time priority: what the lock, the   *)
(* loop and the two maps do is one step of the matching engine per call.   *)
Engine == INSTANCE MatchingEngine WITH
  queue     <- [side \in Side |->
                  [p \in Price |-> IF p \in DOMAIN settled[side] THEN settled[side][p] ELSE <<>>]],
  submitted <- {id \in OrderId :
                  /\ placed[id] # NoOrder
                  /\ \A t \in Thread : Submitting(t) => incoming[t].id # id}

ImplementsEngine == Engine!Spec

(* Whoever gets the lock gives it back: the match loop ends.               *)
LockIsReleased ==
  \A t \in Thread : (writer = t \/ t \in readers) ~> (writer # t /\ t \notin readers)
=============================================================================
