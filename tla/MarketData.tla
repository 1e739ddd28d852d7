----------------------------- MODULE MarketData -----------------------------
(***************************************************************************)
(* The two records of a card's trades, and what is computed from either:   *)
(* the trades table, which execute_trades commits with the time of its     *)
(* transaction, and the candles, which it reports each trade to afterwards *)
(* (src/services/trade_service.cpp, price_aggregation_service.cpp).        *)
(* AnalyticsService and DynamicPricingService query both.                  *)
(*                                                                         *)
(* A price of 0 is one of less than half a cent, which handle_place_order  *)
(* lets pass and the DECIMAL(10,2) columns hold as 0.00.                   *)
(***************************************************************************)
EXTENDS PriceAggregation, Measures

CONSTANTS
  Batches,  \* what one order may trade: sequences of Bill
  Day,      \* the seconds of a day
  Window    \* the candles a measure looks at, and one

Bill == [price : Price, quantity : Quantity]

ASSUME BatchesAssumption == Batches \subseteq Seq(Bill)
ASSUME DayAssumption == Day \in Nat \ {0} /\ \A tf \in Timeframe : Day % Period[tf] = 0
ASSUME WindowAssumption == Window \in Nat \ {0}

VARIABLES
  executed,  \* the trades table: rows with executed_at, oldest first
  pending,   \* the trades committed and not yet reported to on_trade
  missed     \* history: the batches a callback kept from on_trade

market     == <<executed, pending, missed>>
marketVars == <<vars, market>>

MarketInit ==
  /\ Init
  /\ executed = <<>>
  /\ pending = <<>>
  /\ missed = 0

-----------------------------------------------------------------------------
(* execute_trades: the batch is committed; then, unless a trade callback   *)
(* throws, its trades are reported one after another.                      *)
Commit(batch) ==
  /\ pending = <<>>
  /\ Len(executed) + Len(batch) <= MaxTrades
  /\ executed' = executed \o
       [i \in DOMAIN batch |-> [price |-> batch[i].price, quantity |-> batch[i].quantity,
                                executed_at |-> clock]]
  /\ \/ pending' = batch /\ UNCHANGED missed
     \/ /\ missed + faults < MaxFaults
        /\ missed' = missed + 1
        /\ UNCHANGED pending
  /\ UNCHANGED vars

Report ==
  /\ pending # <<>>
  /\ OnTrade(Head(pending).price, Head(pending).quantity)
  /\ pending' = Tail(pending)
  /\ UNCHANGED <<executed, missed>>

MarketRestart ==
  /\ Restart
  /\ pending' = <<>>
  /\ UNCHANGED <<executed, missed>>

MarketNext ==
  \/ \E batch \in Batches : Commit(batch)
  \/ Report
  \/ MarketRestart
  \/ (Tick \/ FlushAll) /\ UNCHANGED market

MarketSpec == MarketInit /\ [][MarketNext]_marketVars

-----------------------------------------------------------------------------
(* Queries *)

(* get_candles(card, tf, limit): the newest rows, newest first             *)
OldestCandles(tf, limit) ==
  LET rows == DOMAIN price_history[tf]
      n    == Min({limit, Cardinality(rows)})
  IN  [i \in 1 .. n |-> CHOOSE p \in rows : Cardinality({q \in rows : q < p}) = n - i]

GetCandles(tf, limit) ==
  LET rows == DOMAIN price_history[tf]
  IN  [i \in 1 .. Min({limit, Cardinality(rows)}) |->
         CHOOSE p \in rows : Cardinality({q \in rows : q > p}) = i - 1]

(* The closing prices of the last Window candles, oldest first             *)
Closes(tf) ==
  LET candles == GetCandles(tf, Window)
  IN  Reverse([i \in DOMAIN candles |-> price_history[tf][candles[i]].close])

(* compute_vwap's rows: the trades since midnight                          *)
RollingSession == Where(executed, LAMBDA tr : tr.executed_at > clock - Day)

Midnight == (clock \div Day) * Day

Session == Where(executed, LAMBDA tr : tr.executed_at >= Midnight)

(* compute_vwap: the terms of its quotient                                 *)
Vwap ==
  LET rows == Session
  IN  <<Total([i \in DOMAIN rows |-> rows[i].price * rows[i].quantity]),
        Total([i \in DOMAIN rows |-> rows[i].quantity])>>

(* volatility_discount's rows: the last 24 hours, those of one transaction *)
(* in the order they were inserted                                         *)
RecentPrices ==
  LET rows == Where(executed, LAMBDA tr : tr.executed_at > clock - Day)
  IN  [i \in DOMAIN rows |-> rows[i].price]

-----------------------------------------------------------------------------
(* Properties *)

(* A timeframe's candles since midnight, the one in its buffer among them  *)
CandlesSinceMidnight(tf) ==
  {price_history[tf][p] : p \in {q \in DOMAIN price_history[tf] :
       q >= Midnight /\ ~(buffers[tf].has_data /\ buffers[tf].period_start = q)}}
    \cup {b.candle : b \in {x \in {buffers[tf]} : x.has_data /\ x.period_start >= Midnight}}

(* The chart and the session's VWAP, which are computed from two records   *)
(* of the trades by two clocks, do not contradict one another: unless a    *)
(* write failed, a callback threw or the server stopped, the VWAP lies     *)
(* within the day's candles, also when a batch is committed before         *)
(* midnight and charted after it.                                          *)
VwapWithinCandles ==
  faults = 0 /\ missed = 0 /\ restarts = 0 /\ pending = <<>> /\ Session # <<>> =>
    LET vwap == Vwap
    IN  \A tf \in Timeframe :
          LET candles == CandlesSinceMidnight(tf)
          IN  /\ candles # {}
              /\ Min({c.low : c \in candles}) * vwap[2] <= vwap[1]
              /\ vwap[1] <= Max({c.high : c \in candles}) * vwap[2]

(* The candles a measure or a chart is given are consecutive, however few  *)
(* of those there are it asks for: unless a write failed or the server     *)
(* stopped, from the oldest of them to the one in the buffer no trade is   *)
(* left out, and each candle is older than the one before it.              *)
WindowIsContiguous ==
  faults = 0 /\ restarts = 0 =>
    \A tf \in Timeframe : \A limit \in 1 .. Window :
      LET all    == GetCandles(tf, limit)
          closed == Where(all, LAMBDA p : p < buffers[tf].period_start)
      IN  \A m \in DOMAIN closed :
            /\ m > 1 => closed[m] < closed[m - 1]
            /\ Total([i \in 1 .. m |-> price_history[tf][closed[i]].trade_count]) =
                 Len(Where(trades, LAMBDA tr :
                       closed[m] <= tr.time /\ tr.time < buffers[tf].period_start))

(* What is computed of a card's prices is a number, whatever they are: the *)
(* volatility always, and prices that vary had an impact; the discount of  *)
(* the reference price unless a price stored as 0.00 follows one that is   *)
(* not.                                                                    *)
MeasuresAreDefined ==
  /\ \A tf \in Timeframe :
       LET closes == Closes(tf)
       IN  /\ Volatility(closes) # "NaN"
           /\ Volatility(closes) = "some" => HasImpact(closes)
  /\ Discount(RecentPrices) = "NaN" =>
       \E i \in 1 .. Len(RecentPrices) - 1 :
         RecentPrices[i] > 0 /\ RecentPrices[i + 1] = 0
=============================================================================
