# Clash Royale Trading: a TLA+ development

The repository is a stock exchange for the cards of a game: players place BUY
and SELL orders for cards, an in-memory order book per card matches them, and
the trades move gold, cards and experience in a PostgreSQL database.  This
directory holds TLA+ models of the back end (`src/backend`) and of the web
client's order book (`src/frontend`), the TLC configurations that check them on
small instances, and proofs, checked by TLAPS, of the properties that matter most.

- [The system](#the-system): components, state, operations, what is hard
- [The models](#the-models): how each module corresponds to the code
- [The runs](#the-runs): what TLC checks, the bounds, the fairness
- [The proofs](#the-proofs): what is proved, from what, and how
- [Where the code and its documentation disagree](#findings)
- [What is not modelled](#what-is-not-modelled) and [the plan](#the-plan)

## The system

### Components

| Component | Code | State | Operations |
|---|---|---|---|
| OrderBook | `core/order_book`, `core/order` | two maps price → deque of orders, under a `shared_mutex` | `match_order`, `add_order`, `cancel_order`, `get_snapshot`, one-value queries |
| OrderService | `services/order_service` | map card → book; the `orders` table | `place_order`, `cancel_order`, `load_pending_orders`, queries |
| TradeService | `services/trade_service` | `users`, `user_inventory`, `trades` | `execute_trade(s)`: debit, credit, transfer, record, award xp, in one transaction |
| UserService | `services/user_service` | reads the same tables | balances, inventory, statistics and rank |
| PostgresClient | `database/postgres_client` | connection | `with_transaction`; candle queries |
| RateLimiter | `api/rate_limiter` | a token bucket per user, under a mutex | `allow`, `retry_after_ms` |
| APIRouter | `api/routes` | none of its own | one handler per route |
| HTTPServer, HTTPSession | `api/http_server` | routes; request and response of a session | accept, read, handle, write, read again |
| WebSocketServer, EventBroadcaster | `api/websocket`, `api/event_broadcaster` | sessions and their subscriptions | subscribe, broadcast |
| PriceAggregationService | `services/price_aggregation_service`, `core/candle` | a candle buffer per card and timeframe | `on_trade`, flush |
| AuthService | `api/auth` | none (tokens are signed) | hash, verify, issue and check tokens |
| DynamicPricingService, AnalyticsService | `services/…` | none; read orders, trades, candles and the book | reference price, measures |
| CardSyncService, ClashRoyaleAPI | `services/card_sync_service`, `external/…` | the `cards` table | periodic download and upsert |
| Web client | `src/frontend` | token, socket, subscriptions | requests, reconnecting socket |

### How they interact

`main.cpp` creates everything, calls `load_pending_orders` through the
constructor of OrderService, and runs one `net::io_context{1}` on the main
thread: the handlers of HTTP and WebSocket sessions follow one another and are
never preempted.  `POST /orders` asks the RateLimiter, then calls
`OrderService::place_order`, which validates the order against the balances,
inserts its row in a transaction, matches it in memory, settles the trades in a
second transaction (TradeService) and updates the row in a third.  TradeService
and OrderService then call the EventBroadcaster back, which writes to the
WebSocket sessions.

What is shared: the database tables (by every service), the order books (by all
requests for a card), the buckets of the RateLimiter.

### What is hard

- The book, and the limiter, are written for several threads: a match takes
  many iterations under the lock, a snapshot reads two maps one after the other,
  `allow` and `retry_after_ms` lock separately.
- Memory and database are updated by different steps of one request.  When the
  settlement throws, the book has already changed and is not rolled back.  When
  the server stops, the book is rebuilt from rows that may be behind.
- Validation reads a balance that nothing reserves: a resting order can be
  matched when its owner can no longer pay.
- One batch may have the same player as buyer and as seller several times.
- A WebSocket session starts a write whether or not one is in progress, and a
  request that trades sends several messages in a row.  What a session is
  subscribed to is recorded twice, under two locks.
- The answer object of a kept-alive HTTP connection is reused and each answer is
  written over the one before; targets are taken apart once to route them and
  again, differently, by each handler.
- The chart is fed after the commit, the VWAP reads what was committed: two
  records of the same trades, by two clocks.
- Numbers: products of doubles are truncated to whole gold and may lie just below
  the whole number they stand for, prices are doubles in memory and
  `DECIMAL(10,2)` in the table, tokens are fractions, Retry-After is in
  seconds, expiries are cut to seconds, accumulators overflow, a number of a
  request that no `int` holds is narrowed.

`PROJECT.json` lists the hazards at their lines with the properties that watch
them.

### What makes it correct

| Component | Correct when |
|---|---|
| OrderBook | calls are atomic and obey price-time priority; the book is not crossed; fills and trades agree; a confirmed cancellation is final; the lock is released |
| TradeService, UserService | a batch is settled entirely or not at all; nobody is in debt; gold and cards are conserved and explained by the trades table; the rank follows the xp; the pages of a player agree |
| OrderService | limits (to half a cent once they were read back) and priority survive failures and restarts; closed orders do not rest; replies are true; nothing is traded twice; a buy costs what it was validated for, to a piece of gold |
| RateLimiter | the rate bound over any stretch of time; Retry-After is enough |
| PriceAggregationService | every candle is that of its period; no trade is missing while nothing fails; closed candles are final |
| AnalyticsService, DynamicPricingService | measures are numbers, are computed of the newest candles with none left out, and do not contradict the chart |
| WebSocketServer | channels and subscriptions agree and follow the requests; events arrive; sessions that go away are forgotten |
| HTTPServer, APIRouter | one route per target; the identifier handled is the one routed; answers are the API's |
| AuthService | a token names its holder and lasts its lifetime |
| Web client | the page shows the book of the selected card and keeps it current |

## The models

Where TLA+ definitions come from which lines is in `map` of `PROJECT.json`.
Some definitions follow or precede the one they resemble, with a suffix that
says how they differ (`CrossesStrictly`, `PutLevelKeepsEmpty`,
`OnCloseSessionOnly` …): they are plausible mistakes, which no specification
uses.  Substituting one for the correct definition makes the property paired
with it in `PROJECT.json` fail; that is how we know the property watches the
code and not the model.

How the modules build on one another:

    Orders ── Matching ── MatchingEngine            Measures   Base64   Routing
      │                        ▲ refines               │         │        │
      ├── OrderBook ───────────┘                       │     Accounts  HttpApi
      └── OrderService                                 │
    Ledger ── AtomicSettlement                         │
      │            ▲ refines                           │
      ├── Settlement ── Reports                        │
      └── OrderService                                 │
    PriceAggregation ── MarketData ────────────────────┘
                            (implements PriceAggregation)
    WebSocketHub        MarketFeed        RateLimiter
    Rows (sums and selections: used by Ledger, Reports, OrderService, PriceAggregation,
          Measures, MarketData)

The proofs are in modules of their own, which extend the module they are about
(`…Proofs`); what several of them need of sums and sequences is in `RowsProofs`.

### Orders, Matching, MatchingEngine

`Orders` is the data: orders, trades, the two maps as functions from the
occupied prices to queues, and the steps on them that `match_order`,
`add_order` and `cancel_order` are made of.  A price is a positive integer in
units small enough to be exact; an order identifier is a value of its own (the
UUID); the card, the timestamps, the trade identifier and the hash are left
out.  MARKET orders have price 0 and cross any level, as in the code.

`Matching` says what price-time priority means without a loop: what each
resting position is given out of an incoming order, computed from the quantity
ahead of it.  `MatchingEngine` is the abstract book built on it, where every
call is one step.

### OrderBook

The concurrent book, any number of threads.  Variables `book` (`bids_`,
`asks_`), `writer`/`readers` (`mutex_`), and for each thread its place in a
call, the order and trades it is matching (`incoming`, `made`), what it cancels
(`target`) and what it has aggregated (`seen`).

| Code | Actions |
|---|---|
| `match_order` | `CallMatch`, `EnterMatch` (unique_lock), `MatchStep` (one iteration), `ExitLoop`, `Rest` (the remainder of a LIMIT order, return) |
| `cancel_order` | `CallCancel`, `EnterCancel`, `CancelFound`, `CancelNotFound` |
| `get_snapshot` | `CallSnapshot`, `EnterSnapshot` (shared_lock), `ReadBids`, `ReadAsks` |

The lock is released by the last step of a call, where the guard leaves its
scope.  `get_order`, `get_best_bid` and the like only read and are left out.
An identifier is submitted once: `generate_order_id` draws UUIDs.

`ImplementsEngine` is the refinement: with `settled`, the book as of the last
release of the lock by a writer, as its queues, every behaviour of OrderBook is
one of MatchingEngine; so each call takes effect at one instant.

### Rows

`Total` and `RowsAt`: a `SELECT SUM` and the places of a `SELECT … WHERE`, over
the rows of a table, which are a sequence.

### Ledger, AtomicSettlement, Settlement, Reports

`Ledger` is what the tables hold of a player's wealth and what a batch of trades
makes of it, by sums over the batch.  Prices are integers, `Scale` to the gold
piece.  One card is enough: a batch concerns one card.

The code multiplies prices and quantities as doubles and truncates the products to
whole gold: for a trade (`total_value`, `Cost`) and for what a buy needs
(`RequiredGold`).  A product that stands for a whole number may be a little less,
as 4.35 * 100 is, and is then truncated to one less.  Which factors those are is
the constant `FallsShort`, any set; `Whole` is the truncation.  The same factors
give the same double everywhere.  A product that does not stand for a whole number
lies further from one than the multiplication errs, so that its truncation is exact.

`Settlement` is `execute_trades` one SQL statement at a time on the
transaction's copy `txn`, with `Commit` publishing it and `Abort`, possible
before every statement, discarding it.  A failed check has no action of its own:
the statement is disabled and only `Abort` remains.  `AtomicSettlement` settles
a batch in one step; `SettlesAtomically` is that Settlement implements it.

`Reports` computes, of Settlement's ledger, what a player's pages show: the
portfolio from `users` and `user_inventory` (`PortfolioValue`), the statistics
partly from `users` and partly from the `trades` table (`TradingStats`).

Nothing else writes between `Begin` and the end: one thread runs everything, so
transactions never overlap and isolation levels do not matter.

### OrderService

`place_order`, `cancel_order` and `load_pending_orders` for one card.  The
book's calls are one step (what OrderBook shows) and so is `execute_trades`
(what Settlement shows).

| Code | Actions |
|---|---|
| `place_order` | `Place` (validate and insert_order, which are `Insert`), `Match`, `Settle` or `SettleRefused`, `UpdateStatus` |
| `cancel_order` | `Cancel` (checks, book), `MarkCancelled` |
| a transaction that throws | `TransactionFails`; `PlacedInDoubt` and `SettledInDoubt` when it was committed, or a callback threw after it |
| the process | `Crash`, then `Restart` (load_pending_orders) or `RestartUnloaded` (its exception is swallowed) |

An order's identifier is its place in the `orders` table, which is the order of
`created_at`.  `cards.current_market_price` is written once, when the card is
first synchronised, and nothing in the repository updates it; the code allows
for a price that moves ("price might move"), so it is chosen anew from
`MarketPrices` at each validation.  Requests rejected by
validation, and cancellations that return false, change nothing and are not
steps.

The insert of an order that was committed without the server learning of it
(`PlacedInDoubt`) leaves an open row that no book knows of, until a restart loads it.

### RateLimiter

`allow` (`AllowFirst`, `Allow`, `Refuse`) and the Retry-After header that
`handle_place_order` computes afterwards, in a separate step (`Tell`), from the
bucket as of its last refill.  Tokens are counted in `Unit` parts and time in
ticks so that every gain is whole; the doubles are taken as exact.

### PriceAggregation, MarketData, Measures

The candles of one card (cards share nothing), for any set of timeframes.
`OnTrade` is the whole of `on_trade` under its mutex: every buffer whose period
is over is written, the write may throw, which `flush_candle` swallows, the
buffer is reset all the same, and the trade is added.  `FlushAll` is
`flush_all_candles`, which nothing calls today; `Restart` empties the buffers.
A buffer is created by the first trade of its card and is empty until then, so
that all of them exist from the start here.  `price_history` is the table, a
row per timeframe and start of period; the rounding of its DECIMAL columns is
left out.  A candle is built step by step here and compared with `CandleOf`,
the first, highest, lowest and last price of a sequence of trades.  The clock,
`std::chrono::system_clock`, is assumed not to be set back.

`MarketData` puts the rest of `execute_trades` around it: `Commit` writes a batch
to the `trades` table with the time of its transaction, `Report` hands the
trades to `on_trade` one by one afterwards, later than the commit or, when a
trade callback throws, not at all; `MarketRestart` forgets what was not
reported.  On both records it defines what the services query: `GetCandles` (the
newest rows up to a limit), `Vwap` (since midnight), `RecentPrices` (the last day).  The prices include 0: an
order for less than half a cent passes `handle_place_order` and is stored as
0.00.

`Measures` holds the formulas: a quotient as the pair of its terms; of a standard
deviation of log returns only whether it is none, some or not a number, which is
what the discount and the volatility can go wrong by.

### WebSocketHub

`WebSocketServer` and its sessions, with the events `main.cpp` has orders and
cancellations broadcast.  `channels` and `subscribed` are the two records of
subscriptions, `writing` and `parked` the state of each stream.

| Code | Actions |
|---|---|
| `WebSocketServer::on_accept`, `WebSocketSession::on_accept` | `Accept`, `OnAccept` |
| `do_read`, `on_read`, `handle_message`, `remove_session` | `OnRead` of the oldest request that is `Unread`: `OnSubscribe`, `OnUnsubscribe`, `OnPing`, `OnMalformed`, `OnClose`, with the answer sent and the next read started |
| `send`, `on_write` | `SendAnswer`, `Broadcast`; `OnWritten` |
| the callbacks of `main.cpp` during a request | `Handler` |
| the client, the network | `Ask`, `Disconnect` |

`send` does not wait for the write in progress.  What Beast then does is external
and modelled from its documentation of suspended operations: the second write is
parked in the stream, a third replaces it, and the string of a parked one is gone
when it is resumed, so that it is sent as it was, garbled, or never.  Handlers run
on one thread, so that each is one step.

### Routing, HttpApi

`Routing` has the route table, `matches_pattern` and `get_route_key` (the choice
among several matches is open, as the map is unordered), and the four ways the
handlers extract an identifier, `AfterLastSlash`, `BetweenLastSlashes` and
`Between`, against `Bound`, what the route's parameter stands for.

`HttpApi` is one kept-alive connection: `OnRead` (read, route, handle, start to
write), `OnWrite`, `OnEnd`.  `response_` is not cleared between requests: each
answer is `Written` over it, OPTIONS sets a status and leaves the body, and a
Retry-After, once set, stays.  Of a body the model keeps its error code.  A
handler is the set of answers it may give, over every answer of its service;
`handle_place_order`'s checks are modelled field by field, with `get<int>()`
narrowing to `Width`.

### Base64, Accounts

`Base64` is the two loops of `auth.cpp` as recursive functions of how far they
came (`Encoding`, `Decoding`), over an `int` that wraps.
`Accounts` is `handle_register`, `handle_login` and `get_user_from_auth`
(`Register`, `Login`, `Use`) over the `users` table, with time in parts of a
second and transactions that throw before or after they commit (`Throw`); a reply
says, as history, whether a transaction of its own request threw.  A
token is its payload: bytes that went through `Encode`.  Which bytes stand for
which claims is the constant `Json`; verifying is looking for the claims whose
bytes the payload decodes to (`Claimed`, `Valid`).  Hashes and signatures are
equality of what they were computed from.

### MarketFeed

The trading page: the client of `lib/websocket.ts` (`OnOpen`, `OnClose`,
`Reconnect`), the effects of `Trading.tsx` (`Select`, `PlaceOrder`, `Loaded`,
`LoadFails`, `OnMessage`), and a server that answers in any order and sends the book of
a subscribed card whenever it changes (`AnswerRequest`, `Change`): what
WebSocketHub would be for one client if no event were lost.

## The runs

Each run answers one question; all pass except those marked *violated*.

| Run | Question | Bounds |
|---|---|---|
| `order_book` | Is the book right, in every interleaving of calls? | 2 threads, 3 orders, 2 prices, quantities 1–2 |
| `order_book_threads` | Can a snapshot mix two states, and is the lock always released? | 3 threads, 2 orders, one price |
| `settlement` | Is a batch atomic, is wealth explained by the trades, and do the pages agree? | 3 players, 2 prices, batches of 2, at most 3 trades in all |
| `order_service` | What survives failures and a restart? | 2 players, 3 orders, limits of a whole gold piece and of one with half a cent, quantities 1–2, 1 fault, 1 crash |
| `order_service_overfill` | *violated*: does an order trade no more than it asked for? | as `order_service` |
| `rate_limiter` | Is the rate bounded, and Retry-After enough? | 1 user, 20 ticks: five times what a token takes |
| `market_data` | Is each candle that of its period, what do failures lose, and do chart and measures fit together? | periods 1 and 2, a day of 2, 4 seconds, prices 0–2, 3 trades, windows of 1 to 3, 1 fault, 1 restart |
| `websocket` | Do subscriptions follow the requests, and is every session that went away forgotten? | 2 clients, 1 card, 1 player, 2 unread requests of one and 1 of the other, 1 burst of events |
| `websocket_lost_event` | *violated*: do events arrive? | as `websocket` |
| `http` | Is every request routed by one route, to a handler that finds its identifier? | 2 requests on a connection, every kind of request and target of up to 4 parts |
| `accounts` | Do tokens name their holder for as long as they should, and are errors faults? | 3 usernames of 3–5 bytes, 2 users, 2 tokens, 1 fault, 9 ticks |
| `market_feed` | *violated*: does the page learn what changes? | 2 cards, 2 changes, 2 loads, 1 of them failing, 1 lost connection |

Why these bounds are enough.

- **OrderBook.** Two prices are what it takes for a book to be crossed or a
  better level to be passed over; quantities 1 and 2 give partial fills of either
  side; three orders give two resting orders for one incoming one to be shared
  between, at one price (time priority) or two (price priority), and one
  cancellation in between.  Two threads show each pair of calls interleaving; a
  third lets two readers overlap a waiting writer.
- **Settlement.** A batch of two whose second trade fails shows what must be
  undone; three trades in all allow a batch after a batch; with two units to the
  gold piece the odd price is truncated, and the even one is among the products of
  doubles that fall short; the opening xp lies one step below a rank; players trade
  with themselves too.
- **OrderService.** Two poor players and three orders let a resting order become
  unaffordable; one fault and one crash give every single failure and every
  failure followed by a restart.  Four units of price make a gold piece and two a
  cent: a limit of 4 is stored as it is, one of 5 is rounded, so that after a
  restart a trade may be half a cent beyond it; and two at 4 fall short of two gold
  pieces, so that a buy validated at one is filled by two trades of one each.
- **RateLimiter.** The bucket repeats itself once it is full again, and twenty
  ticks are enough for it to be emptied and filled more than twice.
- **MarketData.** Three trades reach every way a candle can be opened, extended,
  closed on a boundary or after it; four seconds hold two periods of the longer
  timeframe and two days; a price of 0, 1 or 2 gives returns that rise, fall, are
  equal or have no logarithm; lost and repeated writes need one fault and one
  restart.  Three rows under limits of 1, 2 and 3 let the limit cut off two, one or
  none.
- **WebSocketHub.** Two unread requests, to subscribe and to unsubscribe, show whether
  they are read in the order they were sent; two clients give an entry of `channels_`
  that is shared and then is not, and one of them has two entries to be taken out of;
  a burst is up to four messages to one client, of which three write, park and
  replace.
- **HttpApi.** The answer to a request can only be disturbed by the one before it.
  The targets have doubled and trailing slashes, queries, and identifiers that
  read like a part of a route.  `Width` is 2^12: two numbers on either side of it
  narrow into the bounds and out of them.
- **Accounts.** One fault lets each registration and login be in doubt, and be tried
  again with the same or the other email.  Payloads of six to eight bytes fall on all three places of a
  group of Base64 and overflow an `int` of 15 bits more than once; a second of
  three ticks tells the beginning, the middle and the end of one apart; nine ticks
  outlast a lifetime of six begun at any of them but the last.

The runs other than `order_book` and `order_book_threads` have
`CHECK_DEADLOCK FALSE`: they stop at their bounds (`MaxOrders`, `MaxTrades`,
`MaxClock`, `MaxRequests`, ended connections …), where nothing more may be asked.

Symmetry is used where only safety is checked and the set's members are
interchangeable: threads and order identifiers of OrderBook, players, emails and
passwords.  Order identifiers of OrderService are numbers and have none.

**Fairness.** `LockIsReleased` assumes `WF_vars(Step(t))` for each thread: a thread
inside a call keeps running.  What is checked is that whoever holds the lock
releases it, not that everyone who waits for it gets it: nobody has to call, and
waiting for the lock is only weakly fair, which allows a thread to wait for ever while others keep taking it:
the C++ standard promises no more of a `shared_mutex`.  `DisconnectsAreNoticed`
assumes weak fairness of `OnRead` and `OnWritten` of each client: the
`io_context` runs each handler that is ready, in turn.  Clients need not send,
nor new ones come.

Only OrderBook's type invariant is in a run; those of the other modules document
the variables.  All are proved but that of MarketFeed, which has no theorems: the
property worth stating of it is the one that is violated.

## The proofs

TLAPS checks each of these for all values of the constants, from the constants'
named assumptions only: prices, orders and quantities of the right types,
`Requests` and `Batches` well formed, sentinel values distinct, opening ranks those
of the opening xp, and

- which products of doubles fall short is any set of positive factors
  (`FallsShortAssumption`);
- the trades table is empty at first (what was traded before is in the balances);
- the prices in use are finitely many, and still prices when the column has rounded
  them: the API also takes prices under half a cent, which become 0.00, and the
  theorems about OrderService say nothing of those;
- one rank takes no xp, the one the ladder of `award_xp` ends in with its ELSE
  (`ThresholdAssumption`); any ranks and thresholds otherwise;
- `OrderId` is an initial segment of the numbers, being the places of the `orders`
  table: how long it is bounds the table, at any length;
- the bytes of no two payloads are alike (`JsonAssumption`), and 4096 divides the
  number of values of an `int` (`WidthAssumption`): 2^32 in the program, 2^15 in the
  run;
- the timeframes are finitely many, as `PERIODS` lists them (`PeriodAssumption`), and
  each divides the day, counted in the ticks of the clock (`DayAssumption`).

| Theorem | Says | Along |
|---|---|---|
| `OrderBookProofs!TypeCorrect`, `OpenOrdersOnly` | types; no empty level, only open orders rest | `ShapeInv` |
| `OrderBookProofs!NeverCrossed` | every bid below every ask, always | `BookInv` |
| `OrderBookProofs!SnapshotNeverCrossed` | nor is any snapshot crossed | `SnapshotInv` |
| `OrderBookProofs!CancellationIsFinal` | no trade of an order after its cancellation was confirmed | `CancelInv` |
| `OrderBookProofs!FillsAreExact` | fills are the quantities of the trades; nobody trades beyond their order | `FillsInv` |
| `OrderBookProofs!BookIsTheEngine` | `Spec => ImplementsEngine`: each call takes effect at one instant, with the outcome `Matching` states | `EngineInv` |
| `SettlementProofs!SettlementIsAtomic` | `Spec => SettlesAtomically`: statement by statement, a batch is settled entirely or not at all | `Progress` |
| `SettlementProofs!BalancesAreExplained` | gold, cards and xp are the opening ones changed by the trades table | `Explained` |
| `SettlementProofs!PagesFitTogether` | portfolios and statistics agree with one another | `Explained` |
| `SettlementProofs!NeverOverdrawn` | nobody is in debt | `Inv` |
| `SettlementProofs!RanksFollowXp` | the stored rank is that of the stored xp | `RanksInv` |
| `SettlementProofs!RanksNeverFall` | no step lowers the rank stored with a player | `RanksInv`, `Progress` |
| `SettlementProofs!SettlementTypes` | types; every statement has its trade | `TypeOK` |
| `OrderServiceProofs!CoreHolds` | book, table and request in progress fit together, after any failures and restarts | `Core` |
| `OrderServiceProofs!FirstComeFirstServed`, `ClosedOrdersAreGone` | time priority, in a reloaded book too; a closed order does not rest | `Core` |
| `OrderServiceProofs!LimitsHold`, `LimitsAreExact` | no trade beyond a limit before the first restart, and by more than half a cent after any number of them; none at all, ever, if the column holds every limit | `TradesInv` |
| `OrderServiceProofs!CancellationIsFinal` | what was settled of a cancelled order stays | `TradesInv` |
| `OrderServiceProofs!RepliesAreTrue`, `NothingIsOfferedTwice` | a reply says what was settled; nothing settled is offered again until a restart | `QuantityInv` |
| `OrderServiceProofs!BuysStayWithinValidation` | until a restart, a buy costs at most one gold piece more than was validated, in any number of fills | `QuantityInv`, `WholeIs` |
| `OrderServiceProofs!BookIsUncrossed` | the service's book is not crossed until a restart | `NotCrossed` |
| `OrderServiceProofs!OrderServiceTypes` | types; every step of a request finds its row, and there are trades only to be settled | `Core`, `LedgerInv` |
| `ApiProofs!LimiterTypeCorrect` | buckets between empty and full | `LimiterTypeOK` |
| `ApiProofs!RateBounded` | the rate bound on every stretch | `RateInv` |
| `ApiProofs!RetryAfterSuffices` | waiting as told is enough | `PromiseInv` |
| `ApiProofs!RoutingIsUnambiguous` | no target matches two routes | `OnePattern` |
| `ApiProofs!IdentifiersAreTheRoutes` | of plain targets (no empty part, a query only where the handler expects one, no card named as the part after it) a handler gets the identifier its route names | `Sent` |
| `ApiProofs!HttpTypes` | types; every handler answers with a status and an error code of the API | `TypeOK` |
| `WebSocketHubProofs!TypeCorrect`, `IndexesAgree` | types; the two records of subscriptions agree | `Inv` |
| `WebSocketHubProofs!RequestsAreFollowed` | what a client is subscribed to is what it asked for and the server has read | `RequestsInv` |
| `MarketDataProofs!MarketImplementsAggregation` | `MarketSpec => Spec`: what the candles do under commits and reports is what PriceAggregation says | `pending \in Seq(Bill)` |
| `MarketDataProofs!CandlesAreFinal` | a stored candle is not written again after a trade came after its period | `Inv` |
| `MarketDataProofs!BuffersHoldTheirPeriod`, `RowsHoldTheirPeriod` | the candle in a buffer is that of all trades of its period since the start; a stored one that of the first trades of its period, of one run | `Candles` |
| `MarketDataProofs!NoTradeIsLost` | every trade is charted, until a write fails or the server stops | `Candles` |
| `MarketDataProofs!CandleTypes` | types; a buffer starts on a boundary of its period, not in the future | `Candles` |
| `MarketDataProofs!WindowLeavesNothingOut` | no trade is missing from the oldest candle a query returns, for any limit, to the buffered one | `Candles` |
| `MarketDataProofs!VwapIsWithinCandles` | the VWAP since midnight lies within the day's candles | `Candles`, `Table` |
| `MarketDataProofs!MeasuresAreNumbers` | volatility and discount are numbers, but for the discount after a price of 0.00 | `Candles`, `Table` |
| `AccountsProofs!DecodeEncode` | `base64_decode` undoes `base64_encode`, of any number of bytes, overflow included | `Follows` |
| `AccountsProofs!TokensAreTheirHolders`, `TokensExpire` | a token says who it was issued to, and is good for its lifetime and no longer | `TokensInv` |
| `AccountsProofs!AccountsAreTyped` | types; a username or an email is one user's | `TypeInv` |
| `AccountsProofs!RetriesAreConflicts` | a request is answered with an internal error only when a transaction of its own threw; a retry of what was in doubt is a conflict | `InsertIsNeverRefused` |

**Induction.** What a sum or a selection over a table makes is defined by recursive
functions (`Rows`) and proved by induction stated over sets, not over predicates:
`SetInduction` (a set with 0 and the successors of its members holds the natural
numbers, because the counterexamples would have a least one), and from it
`RowsInduction` over sequences and `SubsetInduction` over finite sets.  A proof by
induction defines the set of the values for which its claim holds.

Why the strengthenings are needed:

- **ShapeInv** adds *Exclusion* to the types and `OnlyOpenOrdersRest`: a thread
  in the middle of `match_order` or `cancel_order` is `writer`, one reading is in
  `readers`, and the two do not occur together.  Without it another thread could
  empty the level a match is about to read the front of.
- **BookInv** (OrderBook) adds *RestCannotCross*: between the loop and the
  insertion, what a LIMIT order would cross is no longer there.  `NotCrossed` alone
  says nothing of the order that is about to rest.
- **SnapshotInv** adds *SeenIsCurrent*: the bids a reader has aggregated are
  still those of the book when it reads the asks, because it holds the lock.
- **CancelInv** says where an order can be.  *RestingInv*: a resting order is the
  one submitted under its identifier, in one place, neither cancelled nor being
  matched; *MadeInv*: trades in the making exist only under the lock, none with a
  cancelled order.  A confirmed cancellation took the order out of its only place.
- **FillsInv** adds *AllInv*: of every two orders that traded, one has nothing left.
  The trades are a set, and a second trade of the same two orders, price and
  quantity would be lost in it; this says there is none.  It further needs, from
  *CancelInv*, that the two orders an iteration fills are the only ones under their
  identifiers.
- **EngineInv** says how far a match has come.  Outside the lock the book is `settled`
  (*BetweenCalls*).  Inside, *InProgress*: there is a quantity given so far to each
  resting place of `settled`, and it explains the levels left, what is filled of the
  incoming order and the trades made; and no place is given anything before those
  with a better price, or earlier at the same price, were given all they had.  When
  the loop ends this leaves one possibility for each place: the part of the incoming
  order that those ahead of it left, up to its own quantity (`Served`), which is the
  engine's `Fill`.  `Fill` is a sum over the places ahead, so that `Served` takes an
  induction along the places in their order.  *SoundBooks*: the levels are finitely
  many; *FromRequests*: the order being matched is, but for its fills, the one
  submitted; *SeenIsDepth*: the bids a reader has aggregated are the engine's at the
  instant it reads the asks, which is the one its snapshot takes effect at.
- **Inv** (Settlement) demands that the transaction's copy be solvent too: it
  may be the next ledger.  **RanksInv** likewise demands that the copy be ranked
  after every statement, which it is because `award_xp` sets both columns at once.
- A rank never falls because a ladder gives the highest rank reached
  (`RankOfIsHighest`, which needs that there is one: `HighestExists`) and the ledger a
  commit publishes has, by *Progress*, the xp of the committed one and the awards of
  the batch.
- **Progress** says, at every statement, what the transaction's copy is: the
  committed ledger after the first *k* - 1 trades and the statements of trade *k* run
  so far; and that everybody could pay and deliver so far.  At the commit the copy is
  what the abstract `Settle` makes of the batch.
- **Explained** says that the committed ledger is what the trades table, settled as
  one batch, would have made of the opening one: batches appended to the table can
  be settled in one go or one after the other (`AfterTrades` of a concatenation).
- **Core** says what is where.  *RowsInv*: the row of an order is the one asked for,
  but for its status, what was filled and the rounding of its price; *BookInv*: an
  order in the book stands on its side and level, has an open row, and comes after
  every order with a smaller identifier; *RequestInv*: what the request in progress
  holds at each `pc`.  Time priority alone is not inductive: that the order about to
  rest is younger than those resting takes *RequestInv*, and the reload takes
  *RowsInv*.
- **TradesInv** adds that the trades on their way to the table are within the limits
  of both orders and with no cancelled one, and that the order being matched is in
  none settled yet.  A reload reads the limit back rounded: the price an order rests at is
  the one asked for, or half a cent away at most (`Near`) once limits were read back,
  and the same again however often (`StoredIsNear`, and a rounded price is rounded to
  itself).  If the column holds every limit (`WholeCents`) nothing is rounded.
- **QuantityInv** adds *Covered*: until a restart, the settled and half-settled
  quantity of a resting order is at most what its entry in the book says is filled.
  It is an inequality because a refused settlement leaves the fills in the book: no
  quantity is offered twice, some may be lost.  What the fills of a buy cost then
  follows from truncation (`WholeIs`): the parts of a product, each truncated, are
  together at most the whole, which may itself have fallen short by one.
- **NotCrossed** (OrderService) holds until a restart, for a reload does not match.
- **RateInv** adds, per user, *Accounted*: the tokens in the bucket together
  with those handed out since any earlier grant do not exceed the capacity and
  the gain since.  `BoundedFor` then follows from tokens not being negative.
- **PromiseInv** adds *Kept*: the tokens in the bucket and the gain until the
  promised instant make a token, also after later refusals moved `last_refill`.
- **Inv** (WebSocketHub) adds *Fresh*: a session that is not open yet has
  subscribed to nothing, so that opening it adds nothing to `channels_`.
- **RequestsInv** adds *LastDecides*: whether a client wants a channel is decided by
  its last unread request about it, and by what it is subscribed to where there is
  none; reading the oldest request then changes nothing of what is wanted.
  *Silent*: a client that is not open has asked for nothing yet.
- **Inv** (MarketData) adds *NoneFromTheFuture* and *BufferIsLast*: no trade has
  come after the period of a candle still in its buffer, so that flushing it does
  not touch a closed one.
- **Candles** adds to that, per timeframe, *Built*: the buffer's candle is that of the
  trades of its period and run, and a buffer without data stands for a run without
  trades; *RowsInv*: the same of stored candles, as a first part of the period;
  *CompleteInv*: until a write fails or the server stops, every period that had a
  trade is in the buffer or complete in the table; *FiniteRows*: the table can be
  ranked by start of period, which is what `GetCandles` does.  A candle is built
  trade by trade, so that *Built* takes the lemma that `CandleOf` of a sequence and
  one more trade is the candle of the sequence, extended.
- **Table** relates the two records: what was committed is what `on_trade` was told,
  followed by what is still to be reported (*Told*), unless a callback threw.  The
  times differ: a trade is charted no earlier than it was committed, so that the
  VWAP's trades are among the day's, and a sum of price times quantity lies between
  the extremes times the sum of quantities.
- **Follows** relates the two loops of Base64 after each byte: the decoder, fed what
  the encoder has written so far, has all bytes but the last, of which two or four
  bits are in the encoder's accumulator and the others in its own, or it has all.
  The three places a byte may have in a group are three lemmas (`FirstOfThree` …)
  about the low twelve bits of the accumulators, which wrapping keeps (`WrapKeeps`):
  no more are ever read.  The induction is over the bytes, after which the padding
  is not in the decoder's table.
- **TokensInv** says that a token's payload encodes what `generate_jwt` wrote of its
  holder's row.  Rows never change, so that this stays; the property itself, about what
  is decoded, would not tell that the holder is a row.  **TypeInv** adds the types:
  what is encoded are bytes again (`EncodeType`), and both SELECTs precede the INSERT.
- **InsertIsNeverRefused**: what the SELECTs of a registration look for is what the
  table's keys forbid, so that no INSERT fails on them and is answered as an internal
  error.
- **OnePattern** compares the routes pairwise: two patterns of a method with the
  same number of parts differ in a literal.

**Only model-checked.** `LockIsReleased` and `DisconnectsAreNoticed`: liveness under
fairness, which is beyond tlapm.  Every safety property of a passing run is a theorem.

## Findings

Each is a run in which TLC finds the claim violated.

1. **`order_service_overfill`.** `place_order` writes the status of the incoming
   order only, so that one filled while it was resting stays PENDING with nothing
   filled.  After a restart it is back in the book and trades more than its
   "Total quantity requested" (`order.hpp`).
2. **`websocket_lost_event`.** A request that trades sends a player several events
   in a row; a third write replaces the second, parked one.  A subscriber that is
   connected does not get it, although `broadcast_to_channel` says "to all
   subscribers".
3. **`market_feed`.** `subscribe()` does nothing unless the socket is open, and
   nothing subscribes again when it opens.  A card is selected while the socket is
   connecting, the subscription is dropped, the socket opens, the request for the
   book is answered, the book changes, and the answer is shown: the page, connected
   and with no request outstanding, shows what the book was and is sent no other, of
   what `README.md` calls a "real-time order book".

Met while modelling, each following from the code at the line and not given a run:

- The row of a filled resting order stays PENDING; `order.hpp:24` says of FILLED
  "Order completely filled" (`order_service.cpp:84`).
- A MARKET order that finds no counterparty stays PENDING, which
  `load_pending_orders` takes for "server crashed mid-match"
  (`order_service.cpp:379`); cancelling it is refused as "already filled or
  cancelled" (`routes.cpp:402`).
- A limit with a fraction of a cent is rounded by its column and may trade up to
  half a cent beyond the limit after a restart (`order_service.cpp:309`); a price
  under half a cent becomes 0.00, and the discount of the reference price then is not a number,
  against "[0.7, 1.0]" (`dynamic_pricing_service.hpp:14`).
- Reloading does not match: two orders left in the table by a failure may be
  loaded as a crossed book.
- A session whose handshake failed stays in `sessions_` (`websocket.cpp:29`).
- Retry-After, once sent, is in every later answer of the connection
  (`routes.cpp:271`, `http_server.cpp:16`).
- A query or a trailing slash becomes part of, or all of, an order's identifier
  (`routes.cpp:449`).
- An unknown route is answered without an error code (`error_codes.hpp:3`); a
  malformed registration is answered as an internal error, 5000
  (`error_codes.hpp:6`).
- A quantity beyond an int is narrowed before it is checked (`routes.cpp:292`): an
  order for 2^32 + 5 is placed for 5, although "quantity cannot exceed 1000 per
  order" (`routes.cpp:320`).
- `loadOrderBook` shows what it is answered whatever card is selected by then
  (`Trading.tsx:129`): of two cards selected in a row, the first one's book, answered
  last, is shown under the second one's name.
- OPTIONS leaves the body of the answer before it in place (`http_server.cpp:128`):
  after an answer with an error code, a preflight on the same connection is answered
  200 with that code, which `error_codes.hpp` has for errors.
- A LIMIT buy of 100 at 4.35 is validated at 434 (`order_service.cpp:275`), and five
  fills of 20 cost 87 each, 435 together (`trade_service.cpp:57`): one gold piece
  more, which is the most it can be.
- The page listens to `trade_executed` and `portfolio_update` but never subscribes
  to their channels (`Trading.tsx:85`).
- `avg_purchase_price` is never written (`user_service.hpp:17`), nor is
  `users.total_trades`.
- Times read as local and written in the session's zone agree only if both are the
  same (`postgres_client.cpp:129`).
- The limiter's map is never pruned (`rate_limiter.hpp:18`), and trade identifiers
  of all books come from one generator, safe on one thread only
  (`order_book.cpp:257`).

## What is not modelled

- **CardSyncService, ClashRoyaleAPI**: a tool of its own that downloads cards and
  upserts each, with a pause between calls: I/O, no state kept.
- **Config, logger, main**: start-up wiring; that one `io_context` runs on one
  thread, and which callback broadcasts what, is in the models.
- **DynamicPricingService**: the table of base prices, the clamped usage rate and the
  supply and demand factor of the last day.  **AnalyticsService**: the spread of a
  snapshot, the order flow imbalance of one and five minutes, the average range.  Each
  is one expression over one query with a window of its own, and says nothing of the
  others.  The candle queries nothing but tests calls; the cost basis, for nothing
  writes what it reads.
- The price of a trade in the `trades` table is `DECIMAL(10,2)` as well; the
  ledger's history keeps the exact price, which the gold moved was computed from.
- The second and further cards: books and inventories of different cards share
  nothing but the gold of their owners, and batches concern one card; for the same
  reason `get_or_create_order_book` is left out.
- Of doubles, what truncation makes of the products of prices and quantities is
  modelled (`FallsShort`); the limiter's tokens and the sums of the measures are taken
  as exact.  The clock of the candles does not go back.
- Formatting, JSON, logging, SHA-256 and HMAC, SQL other than the statements
  named, TCP and TLS; of the web client, presentation and the other pages.

## The plan

The modules were written from the core outwards: OrderBook, Settlement,
OrderService, RateLimiter, PriceAggregation; then what is around them: Reports and
MarketData over the core's states, HttpApi and Accounts in front, WebSocketHub and
MarketFeed behind.  What remains, in order of worth:

1. A lock of OrderService's map of books (`get_or_create_order_book`) composed
   with two books, should the server ever run more than one thread.
2. WebSocketHub composed with MarketFeed, so that the page meets lost events too.
3. CardSync: pacing, retries and the upsert.
