---------------------------- MODULE OrderService ----------------------------
(***************************************************************************)
(* OrderService (src/services/order_service.cpp): place_order,             *)
(* cancel_order and load_pending_orders, for the orders of one card, over  *)
(* an OrderBook in memory and the orders table and the ledger in the       *)
(* database.                                                               *)
(*                                                                         *)
(* main.cpp runs every handler on the one thread of net::io_context{1}, so *)
(* requests follow one another; what can come between two steps of one is  *)
(* a transaction that throws, and a crash.  match_order and cancel_order   *)
(* of the book are one step each (OrderBook shows that they are atomic),   *)
(* and so is execute_trades (Settlement).                                  *)
(*                                                                         *)
(* An order's identifier is its place in the orders table: the UUIDs in    *)
(* the order of created_at.                                                *)
(***************************************************************************)
EXTENDS Matching, Ledger

CONSTANTS
  Opening,       \* the ledger to start from
  Requests,      \* the requests clients make, a subset of Request
  MarketPrices,  \* the values cards.current_market_price may take, NULL being 0
  Cent,          \* the units of price in one hundredth of a gold piece
  NoOrder,       \* no order is being placed
  MaxFaults,     \* bound: the transactions that throw
  MaxCrashes     \* bound: the crashes

ASSUME OpeningLedgerAssumption ==
  /\ IsLedger(Opening) /\ \A u \in User : Opening.gold[u] >= 0 /\ Opening.cards[u] >= 0
  /\ Opening.trades = <<>>
ASSUME FinitePricesAssumption == IsFiniteSet(Price)
ASSUME RequestsAssumption == Requests \subseteq Request
ASSUME IdentifiersAssumption == IsFiniteSet(OrderId) /\ OrderId = 1 .. Cardinality(OrderId)
ASSUME CentAssumption == Cent \in Nat \ {0}
ASSUME NoOrderAssumption == NoOrder \notin Order

VARIABLES
  (* in the database *)
  orders,     \* the orders table: a row for each order, oldest first
  ledger,     \* balances, inventories and the trades table
  (* in memory *)
  book,       \* the OrderBook of the card
  pc,         \* what the request in progress does next
  order,      \* the order being placed, or NoOrder
  trades,     \* the trades match_order returned for it
  target,     \* the order being cancelled, or 0
  (* history *)
  faults,     \* the transactions that have thrown
  crashes,    \* the crashes so far
  asked,      \* the request of each order, by identifier
  cancelled   \* the orders whose cancellation was confirmed

memory  == <<book, pc, order, trades, target>>
history == <<faults, crashes, asked, cancelled>>
vars    == <<orders, ledger, memory, history>>

Status == {"PENDING", "PARTIAL", "FILLED", "CANCELLED"}

Row == [user : User, order : Order, status : Status]

Location == {"idle", "match", "settle", "update", "mark_cancelled", "down"}

Init ==
  /\ orders = <<>>
  /\ ledger = Opening
  /\ book = EmptyQueues
  /\ pc = "idle"
  /\ order = NoOrder
  /\ trades = <<>>
  /\ target = 0
  /\ faults = 0
  /\ crashes = 0
  /\ asked = <<>>
  /\ cancelled = {}

Open(row) == row.status \in {"PENDING", "PARTIAL"}

(* The status match_order leaves an incoming order in.                     *)
StatusOnAnyFill(o) == IF o.filled > 0 THEN "FILLED" ELSE "PENDING"

StatusOf(o) ==
  IF IsFilled(o) THEN "FILLED" ELSE IF o.filled > 0 THEN "PARTIAL" ELSE "PENDING"

(* price DECIMAL(10,2): the column rounds to the nearest cent.             *)
Stored(price) == ((2 * price + Cent) \div (2 * Cent)) * Cent

ASSUME StoredPricesAssumption == \A p \in Price : Stored(p) \in Price

(* The request is over, with a reply or an exception.                      *)
EndRequest == pc' = "idle" /\ order' = NoOrder /\ trades' = <<>> /\ target' = 0

-----------------------------------------------------------------------------
(* place_order *)

RequiredGold(r, market) ==
  CASE r.mode = "LIMIT"  -> Whole(r.price, r.quantity, Scale)
    [] r.mode = "MARKET" -> IF market = 0 THEN r.quantity * 10000
                            ELSE Whole(11 * market, r.quantity, 10 * Scale)

(* validate_buy_order and validate_sell_order, or they throw.              *)
Valid(u, r) ==
  IF r.type = "BUY"
  THEN \E market \in MarketPrices : ledger.gold[u] >= RequiredGold(r, market)
  ELSE ledger.cards[u] >= r.quantity

(* Validation, generate_order_id, and insert_order, which is committed.    *)
Insert(u, r) ==
  LET o == NewOrder(Len(orders) + 1, r)
  IN  /\ pc = "idle"
      /\ o.id \in OrderId
      /\ Valid(u, r)
      /\ orders' = Append(orders, [user |-> u, order |-> [o EXCEPT !.price = Stored(@)],
                                   status |-> "PENDING"])
      /\ asked' = Append(asked, r)

Place(u, r) ==
  /\ Insert(u, r)
  /\ order' = NewOrder(Len(orders) + 1, r)
  /\ pc' = "match"
  /\ UNCHANGED <<ledger, book, trades, target, faults, crashes, cancelled>>

(* The answer to the commit is lost, and the request ends with an error:   *)
(* an open row, of which the book knows nothing.                           *)
PlacedInDoubt(u, r) ==
  /\ Insert(u, r)
  /\ faults < MaxFaults
  /\ faults' = faults + 1
  /\ UNCHANGED <<ledger, memory, crashes, cancelled>>

Match ==
  /\ pc = "match"
  /\ trades' = Executions(book[Opposite(order.type)], order)
  /\ order' = Incoming(book[Opposite(order.type)], order)
  /\ book' = AfterMatch(book, order)
  /\ pc' = IF trades' = <<>> THEN "update" ELSE "settle"
  /\ UNCHANGED <<orders, ledger, target, history>>

(* The trades as TradeService sees them, by user.                          *)
Billed(tr) ==
  [buyer |-> orders[tr.buy].user, seller |-> orders[tr.sell].user,
   buy |-> tr.buy, sell |-> tr.sell, price |-> tr.price, quantity |-> tr.quantity]

Batch == [k \in DOMAIN trades |-> Billed(trades[k])]

Settle ==
  /\ pc = "settle"
  /\ CanSettle(ledger, Batch)
  /\ ledger' = AfterTrades(ledger, Batch)
  /\ pc' = "update"
  /\ UNCHANGED <<orders, book, order, trades, target, history>>

(* execute_trades throws: a buyer has spent the gold, or a seller parted   *)
(* with the cards, since the order was validated.  The book keeps what     *)
(* match_order did to it.                                                  *)
SettleRefusedSwallowed ==
  /\ pc = "settle"
  /\ ~CanSettle(ledger, Batch)
  /\ pc' = "update"
  /\ UNCHANGED <<orders, ledger, book, order, trades, target, history>>

SettleRefused ==
  /\ pc = "settle"
  /\ ~CanSettle(ledger, Batch)
  /\ EndRequest
  /\ UNCHANGED <<orders, ledger, book, history>>

(* update_order_status, and the reply.                                     *)
UpdateStatus ==
  /\ pc = "update"
  /\ orders' = [orders EXCEPT ![order.id].status = StatusOf(order),
                              ![order.id].order.filled = order.filled]
  /\ EndRequest
  /\ UNCHANGED <<ledger, book, history>>

-----------------------------------------------------------------------------
(* cancel_order by the owner of the order.  When the order is closed or    *)
(* not in the book it returns false, and nothing has changed.              *)

Rests(id) == \E o \in Resting(book) : o.id = id

Cancel(id) ==
  /\ pc = "idle"
  /\ id \in DOMAIN orders
  /\ Open(orders[id])
  /\ Rests(id)
  /\ book' = Without(book, id)
  /\ target' = id
  /\ pc' = "mark_cancelled"
  /\ UNCHANGED <<orders, ledger, order, trades, history>>

(* The filled quantity written back is the one read from the row.          *)
MarkCancelled ==
  /\ pc = "mark_cancelled"
  /\ orders' = [orders EXCEPT ![target].status = "CANCELLED"]
  /\ cancelled' = cancelled \cup {target}
  /\ EndRequest
  /\ UNCHANGED <<ledger, book, faults, crashes, asked>>

-----------------------------------------------------------------------------
(* Failures *)

(* A transaction throws without effect.  insert_order's leaves no trace.   *)
(* (update_order_status committed with its answer lost is UpdateStatus or  *)
(* MarkCancelled, but for the reply.)                                      *)
TransactionFails ==
  /\ pc \in {"settle", "update", "mark_cancelled"}
  /\ faults < MaxFaults
  /\ faults' = faults + 1
  /\ EndRequest
  /\ UNCHANGED <<orders, ledger, book, crashes, asked, cancelled>>

(* The batch is committed but the answer is lost, or a callback throws:    *)
(* execute_trades reports a failure.                                       *)
SettledInDoubt ==
  /\ pc = "settle"
  /\ faults < MaxFaults
  /\ faults' = faults + 1
  /\ CanSettle(ledger, Batch)
  /\ ledger' = AfterTrades(ledger, Batch)
  /\ EndRequest
  /\ UNCHANGED <<orders, book, crashes, asked, cancelled>>

Crash ==
  /\ pc # "down"
  /\ crashes < MaxCrashes
  /\ crashes' = crashes + 1
  /\ pc' = "down"
  /\ book' = EmptyQueues
  /\ order' = NoOrder /\ trades' = <<>> /\ target' = 0
  /\ UNCHANGED <<orders, ledger, faults, asked, cancelled>>

LoadedQueueAnyStatus(side, p) ==
  LET rows == Where(orders, LAMBDA row :
                row.order.mode = "LIMIT" /\ row.order.type = side /\ row.order.price = p)
  IN  [k \in DOMAIN rows |-> rows[k].order]

LoadedQueueNewestFirst(side, p) ==
  LET rows == Where(orders, LAMBDA row :
                /\ Open(row)
                /\ row.order.mode = "LIMIT" /\ row.order.type = side /\ row.order.price = p)
  IN  [k \in DOMAIN rows |-> rows[Len(rows) + 1 - k].order]

(* load_pending_orders: the open LIMIT orders, oldest first, as the table  *)
(* has them.                                                               *)
LoadedQueue(side, p) ==
  LET rows == Where(orders, LAMBDA row :
                /\ Open(row)
                /\ row.order.mode = "LIMIT" /\ row.order.type = side /\ row.order.price = p)
  IN  [k \in DOMAIN rows |-> rows[k].order]

Loaded == [side \in Side |-> [p \in Price |-> LoadedQueue(side, p)]]

Restart ==
  /\ pc = "down"
  /\ pc' = "idle"
  /\ book' = Loaded
  /\ UNCHANGED <<orders, ledger, order, trades, target, history>>

(* load_pending_orders catches and logs: the server starts with no orders. *)
RestartUnloaded ==
  /\ pc = "down"
  /\ faults < MaxFaults
  /\ faults' = faults + 1
  /\ pc' = "idle"
  /\ UNCHANGED <<orders, ledger, book, order, trades, target, crashes, asked, cancelled>>

-----------------------------------------------------------------------------
Next ==
  \/ \E u \in User, r \in Requests : Place(u, r)
  \/ \E u \in User, r \in Requests : PlacedInDoubt(u, r)
  \/ Match
  \/ Settle
  \/ SettleRefused
  \/ UpdateStatus
  \/ \E id \in OrderId : Cancel(id)
  \/ MarkCancelled
  \/ TransactionFails
  \/ SettledInDoubt
  \/ Crash
  \/ Restart
  \/ RestartUnloaded

Spec == Init /\ [][Next]_vars
-----------------------------------------------------------------------------
(* Properties *)

TradesWith(id) == Where(ledger.trades, LAMBDA tr : id \in {tr.buy, tr.sell})

(* The quantity of order id that has been settled.                         *)
Settled(id) ==
  LET quantity(tr) == tr.quantity
  IN  SumOver(TradesWith(id), quantity)

(* The types, and what each step of a request needs: an order with its     *)
(* row, or an order to cancel.                                             *)
TypeOK ==
  /\ orders \in Seq(Row)
  /\ IsLedger(ledger)
  /\ book \in [Side -> Queues]
  /\ pc \in Location
  /\ pc \in {"match", "settle", "update"} => order \in Order /\ order.id = Len(orders)
  /\ pc = "mark_cancelled" => target \in DOMAIN orders
  /\ trades # <<>> => pc \in {"settle", "update"}
  /\ Len(asked) = Len(orders)

(* No trade is worse for either side than the limit it asked for; once the *)
(* server has restarted, and read limits back as the column rounded them,  *)
(* it is worse by half a cent at the most.                                 *)
LimitsAreHonoured ==
  LET slack == IF crashes = 0 THEN 0 ELSE Cent
  IN  \A k \in DOMAIN ledger.trades :
        LET tr == ledger.trades[k]
        IN  /\ asked[tr.buy].mode = "LIMIT" => 2 * (tr.price - asked[tr.buy].price) <= slack
            /\ asked[tr.sell].mode = "LIMIT" => 2 * (asked[tr.sell].price - tr.price) <= slack

(* Once a cancellation is confirmed the order never trades again: not from *)
(* the book, and not after a restart that rebuilds it.                     *)
CancelIsFinal ==
  [][\A id \in cancelled : Settled(id)' = Settled(id)]_vars

(* An order the database has closed is in no book, whatever failed while   *)
(* it was being closed.                                                    *)
ClosedOrdersDoNotRest ==
  \A o \in Resting(book) : Open(orders[o.id])

(* First come, first served at a price: within a level the orders stand as *)
(* they were accepted, each once, before and after a restart.              *)
TimePriority ==
  \A side \in Side, p \in Price :
    \A i, j \in DOMAIN book[side][p] : i < j => book[side][p][i].id < book[side][p][j].id

(* A reply tells the truth: the filled quantity a client is sent is in the *)
(* trades table when the status is written.                                *)
RepliesAreSettled == pc = "update" => order.filled = Settled(order.id)

(* As long as the server has not restarted, the book never offers what is  *)
(* already settled, so nobody trades more than was asked for, although     *)
(* settlements fail and the book is not rolled back.                       *)
NeverOfferedTwice ==
  crashes = 0 =>
    /\ \A o \in Resting(book) : o.filled >= Settled(o.id)
    /\ \A id \in DOMAIN orders : Settled(id) <= asked[id].quantity

(* As long as the server has not restarted, the trades of a LIMIT buy,     *)
(* each truncated to whole gold, together cost at most one gold more than  *)
(* the order was validated against: the gold by which the product that is  *)
(* validated may fall short of the whole number that the trades add up to. *)
CostWithinValidation ==
  crashes = 0 =>
    \A id \in DOMAIN orders :
      asked[id].type = "BUY" /\ asked[id].mode = "LIMIT" =>
        SumOver(TradesWith(id), Cost) <= RequiredGold(asked[id], 0) + 1

-----------------------------------------------------------------------------
(* A claim of the repository that does not hold *)

(* "int quantity; // Total quantity requested" (order.hpp): nobody trades  *)
(* more than the total requested, restarts included.                       *)
NeverOverfilled == \A id \in DOMAIN orders : Settled(id) <= asked[id].quantity
=============================================================================
