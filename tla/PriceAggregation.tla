-------------------------- MODULE PriceAggregation --------------------------
(***************************************************************************)
(* PriceAggregationService (src/services/price_aggregation_service.cpp):   *)
(* the candles of one card, built in a CandleBuffer (core/candle.hpp) for  *)
(* each timeframe and written to price_history when a trade comes that     *)
(* belongs to a later period.                                              *)
(*                                                                         *)
(* on_trade holds buffers_mutex_ throughout and is one step, the writes of *)
(* the candles it closes included.  Time is counted in seconds, and does   *)
(* not go back while the server runs.                                      *)
(***************************************************************************)
EXTENDS Rows, FiniteSetsExt, SequencesExt

CONSTANTS
  Period,       \* the seconds of each timeframe: timeframe -> Nat
  Price,        \* the prices trades are struck at
  Quantity,     \* the quantities
  MaxClock,     \* bound: the last second
  MaxTrades,    \* bound: the trades
  MaxFaults,    \* bound: the writes that throw
  MaxRestarts   \* bound: the times the server stops

ASSUME PeriodAssumption == Period \in [DOMAIN Period -> Nat \ {0}] /\ IsFiniteSet(DOMAIN Period)
ASSUME PriceAssumption == Price \subseteq Nat /\ Quantity \subseteq Nat \ {0}

Timeframe == DOMAIN Period

Candle == [open : Nat, high : Nat, low : Nat, close : Nat, volume : Nat, trade_count : Nat]

VARIABLES
  buffers,        \* the CandleBuffer of each timeframe
  price_history,  \* the rows of the table: timeframe -> timestamp -> Candle
  clock,          \* std::chrono::system_clock
  trades,         \* history: the trades so far, with their time and run
  faults,         \* history: the writes that have thrown
  restarts        \* history: the times the server has stopped

vars == <<buffers, price_history, clock, trades, faults, restarts>>

NoCandle == [open |-> 0, high |-> 0, low |-> 0, close |-> 0, volume |-> 0, trade_count |-> 0]

NewBuffer == [has_data |-> FALSE, period_start |-> 0, candle |-> NoCandle]

Init ==
  /\ buffers = [tf \in Timeframe |-> NewBuffer]
  /\ price_history = [tf \in Timeframe |-> <<>>]
  /\ clock = 0
  /\ trades = <<>>
  /\ faults = 0
  /\ restarts = 0

-----------------------------------------------------------------------------
(* CandleBuffer *)

AlignToPeriod(tf, time) == (time \div Period[tf]) * Period[tf]

ShouldFlushLate(tf, b) == b.has_data /\ clock - b.period_start > Period[tf]

ShouldFlush(tf, b) == b.has_data /\ clock - b.period_start >= Period[tf]

ResetKeepingData(b) == b

(* reset() leaves period_start as it is.                                   *)
Reset(b) == [b EXCEPT !.has_data = FALSE, !.candle = NoCandle]

Opened(tf, b, price, quantity) ==
  [has_data     |-> TRUE,
   period_start |-> AlignToPeriod(tf, clock),
   candle       |-> [open |-> price, high |-> price, low |-> price, close |-> price,
                     volume |-> b.candle.volume + quantity,
                     trade_count |-> b.candle.trade_count + 1]]

Extended(b, price, quantity) ==
  LET c == b.candle
  IN  [b EXCEPT !.candle =
         [c EXCEPT !.high = IF price > c.high THEN price ELSE c.high,
                   !.low = IF price < c.low THEN price ELSE c.low,
                   !.close = price,
                   !.volume = c.volume + quantity,
                   !.trade_count = c.trade_count + 1]]

(* update(price, quantity, trade_time)                                     *)
Updated(tf, b, price, quantity) ==
  IF b.has_data THEN Extended(b, price, quantity) ELSE Opened(tf, b, price, quantity)

-----------------------------------------------------------------------------
(* INSERT ... ON CONFLICT (card_id, timeframe, timestamp) DO UPDATE        *)
WithRow(rows, b) ==
  [p \in DOMAIN rows \cup {b.period_start} |->
     IF p = b.period_start THEN b.candle ELSE rows[p]]

(* The candles of the timeframes due are written, except those whose write *)
(* throws, which is caught and logged.                                     *)
Write(due) ==
  \E lost \in SUBSET due :
    /\ faults + Cardinality(lost) <= MaxFaults
    /\ faults' = faults + Cardinality(lost)
    /\ price_history' = [tf \in Timeframe |->
         IF tf \in due \ lost THEN WithRow(price_history[tf], buffers[tf])
         ELSE price_history[tf]]

OnTradeResetFirst(price, quantity) ==
  LET due == {tf \in Timeframe : ShouldFlush(tf, buffers[tf])}
  IN  /\ Len(trades) < MaxTrades
      /\ Write({})
      /\ buffers' = [tf \in Timeframe |->
           Updated(tf, IF tf \in due THEN Reset(buffers[tf]) ELSE buffers[tf], price, quantity)]
      /\ trades' = Append(trades, [price |-> price, quantity |-> quantity,
                                   time |-> clock, run |-> restarts])
      /\ UNCHANGED <<clock, restarts>>

(* on_trade: for each timeframe, the candle that is over is written and    *)
(* the buffer reset; then the trade is added.                              *)
OnTrade(price, quantity) ==
  LET due == {tf \in Timeframe : ShouldFlush(tf, buffers[tf])}
  IN  /\ Len(trades) < MaxTrades
      /\ Write(due)
      /\ buffers' = [tf \in Timeframe |->
           Updated(tf, IF tf \in due THEN Reset(buffers[tf]) ELSE buffers[tf], price, quantity)]
      /\ trades' = Append(trades, [price |-> price, quantity |-> quantity,
                                   time |-> clock, run |-> restarts])
      /\ UNCHANGED <<clock, restarts>>

(* flush_all_candles: the buffers are written and kept.                    *)
FlushAll ==
  /\ \E tf \in Timeframe : buffers[tf].has_data
  /\ Write({tf \in Timeframe : buffers[tf].has_data})
  /\ UNCHANGED <<buffers, clock, trades, restarts>>

Tick ==
  /\ clock < MaxClock
  /\ clock' = clock + 1
  /\ UNCHANGED <<buffers, price_history, trades, faults, restarts>>

(* The server stops, in order or not, and starts again: nothing flushes    *)
(* the buffers.                                                            *)
Restart ==
  /\ restarts < MaxRestarts
  /\ restarts' = restarts + 1
  /\ buffers' = [tf \in Timeframe |-> NewBuffer]
  /\ UNCHANGED <<price_history, clock, trades, faults>>

Next ==
  \/ \E price \in Price, quantity \in Quantity : OnTrade(price, quantity)
  \/ FlushAll
  \/ Tick
  \/ Restart

Spec == Init /\ [][Next]_vars

-----------------------------------------------------------------------------
(* Properties *)

(* What a candle is: the first, highest, lowest and last price of a        *)
(* sequence of trades, their quantity and their number.                    *)
CandleOf(seq) ==
  LET prices == {seq[k].price : k \in DOMAIN seq}
  IN  [open |-> seq[1].price, high |-> Max(prices), low |-> Min(prices),
       close |-> Last(seq).price,
       volume |-> Total([k \in DOMAIN seq |-> seq[k].quantity]),
       trade_count |-> Len(seq)]

(* The trades of one run of the server in the period that starts at p.     *)
TradesIn(tf, p, run) ==
  Where(trades, LAMBDA tr : tr.run = run /\ p <= tr.time /\ tr.time < p + Period[tf])

(* The types; a buffer starts on a boundary of its period.                 *)
TypeOK ==
  /\ DOMAIN buffers = Timeframe
  /\ \A tf \in Timeframe :
       /\ buffers[tf].has_data \in BOOLEAN
       /\ buffers[tf].candle \in Candle
       /\ buffers[tf].period_start % Period[tf] = 0 /\ buffers[tf].period_start <= clock
       /\ \A p \in DOMAIN price_history[tf] : price_history[tf][p] \in Candle
  /\ clock \in Nat

(* A buffer holds the trades of one period and all of them, whatever       *)
(* happened to the candles before it.                                      *)
BuffersAreExact ==
  \A tf \in Timeframe :
    IF buffers[tf].has_data
    THEN buffers[tf].candle = CandleOf(TradesIn(tf, buffers[tf].period_start, restarts))
    ELSE \A k \in DOMAIN trades : trades[k].run # restarts

(* A stored candle is the candle of its period as far as one run of the    *)
(* server had seen it: failed writes and restarts lose candles or parts of *)
(* them, but never mix periods or runs.                                    *)
RowsAreExact ==
  \A tf \in Timeframe : \A p \in DOMAIN price_history[tf] :
    \E run \in 0 .. restarts :
      LET period == TradesIn(tf, p, run)
      IN  \E n \in 1 .. Len(period) : price_history[tf][p] = CandleOf(SubSeq(period, 1, n))

(* As long as no write failed and the server did not stop, no trade is     *)
(* lost: it is in the buffer, or in the stored candle of its period, which *)
(* is complete.                                                            *)
EveryTradeIsCharted ==
  faults = 0 /\ restarts = 0 =>
    \A tf \in Timeframe : \A k \in DOMAIN trades :
      LET p == AlignToPeriod(tf, trades[k].time)
      IN  \/ buffers[tf].has_data /\ buffers[tf].period_start = p
          \/ /\ p \in DOMAIN price_history[tf]
             /\ price_history[tf][p] = CandleOf(TradesIn(tf, p, 0))

(* Once a trade has come after its period, a stored candle is final: no    *)
(* later flush, of this run of the server or another, touches its row.     *)
ClosedCandlesAreFinal ==
  [][\A tf \in Timeframe : \A p \in DOMAIN price_history[tf] :
       (\E k \in DOMAIN trades : trades[k].time >= p + Period[tf]) =>
         price_history'[tf][p] = price_history[tf][p]]_vars
=============================================================================
