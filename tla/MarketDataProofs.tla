-------------------------- MODULE MarketDataProofs --------------------------
(***************************************************************************)
(* For any timeframes, prices, batches and bounds: the candles, in their   *)
(* buffers and in their rows, are those of the trades on_trade was told    *)
(* of, and final once they are over, whatever writes and callbacks fail    *)
(* and whenever the server stops; and what is computed from the candles    *)
(* and from the trades table is defined and does not contradict the other. *)
(***************************************************************************)
EXTENDS MarketData, RowsProofs

-----------------------------------------------------------------------------
(* What finality rests on.  Trades do not come from the future, and none   *)
(* has come after the period of a candle that is still in its buffer:      *)
(* on_trade closes the candle before it adds such a trade.                 *)
BufferType == [has_data : BOOLEAN, period_start : Nat, candle : Candle]

TradeRow == [price : Nat, quantity : Nat, time : Nat, run : Int]

Typed ==
  /\ buffers \in [Timeframe -> BufferType]
  /\ clock \in Nat
  /\ trades \in Seq(TradeRow)

NoneFromTheFuture == \A i \in DOMAIN trades : trades[i].time <= clock

BufferIsLast ==
  \A tf \in Timeframe : buffers[tf].has_data =>
    \A i \in DOMAIN trades : trades[i].time < buffers[tf].period_start + Period[tf]

Inv == Typed /\ NoneFromTheFuture /\ BufferIsLast /\ restarts \in Int

-----------------------------------------------------------------------------
(* The candle of a sequence of trades, and of one trade more *)

Prices(s) == {s[k].price : k \in DOMAIN s}

Quantities == [tr \in TradeRow |-> tr.quantity]

LEMMA TradeRowFields ==
  ASSUME NEW tr \in TradeRow
  PROVE  tr.price \in Nat /\ tr.quantity \in Nat /\ tr.time \in Nat /\ tr.run \in Int
BY DEF TradeRow

LEMMA PricesOfTrades ==
  ASSUME NEW s \in Seq(TradeRow), NEW tr \in TradeRow
  PROVE  /\ Prices(s) \subseteq Nat /\ IsFiniteSet(Prices(s))
         /\ s # <<>> => Prices(s) # {}
         /\ Prices(Append(s, tr)) = Prices(s) \cup {tr.price}
<1>1. /\ Len(s) \in Nat /\ DOMAIN s = 1 .. Len(s)
      /\ \A k \in DOMAIN s : s[k] \in TradeRow
  BY LenProperties, ElementOfSeq
<1>2. Prices(s) \subseteq Nat
  BY <1>1, TradeRowFields DEF Prices
<1>3. IsFiniteSet(Prices(s))
  <2>1. IsFiniteSet(DOMAIN s)
    BY <1>1, FS_Interval
  <2> DEFINE column == [k \in DOMAIN s |-> s[k].price]
  <2>2. column \in Surjection(DOMAIN s, Prices(s))
    BY DEF Prices, Surjection
  <2> HIDE DEF column
  <2> QED
    BY <2>1, <2>2, FS_Surjection
<1>4. s # <<>> => Prices(s) # {}
  BY <1>1, EmptySeq DEF Prices
<1>5. /\ DOMAIN Append(s, tr) = DOMAIN s \cup {Len(s) + 1}
      /\ \A k \in DOMAIN s : Append(s, tr)[k] = s[k]
      /\ Append(s, tr)[Len(s) + 1] = tr
  BY <1>1, AppendProperties
<1>6. Prices(Append(s, tr)) = Prices(s) \cup {tr.price}
  BY <1>5 DEF Prices
<1> QED
  BY <1>2, <1>3, <1>4, <1>6

LEMMA VolumeOfTrades ==
  ASSUME NEW s \in Seq(TradeRow), NEW tr \in TradeRow
  PROVE  /\ CandleOf(s).volume = SumOf(Quantities, s) /\ SumOf(Quantities, s) \in Nat
         /\ SumOf(Quantities, Append(s, tr)) = SumOf(Quantities, s) + tr.quantity
         /\ SumOf(Quantities, <<>>) = 0
<1>1. Quantities \in [TradeRow -> Nat] /\ Quantities \in [TradeRow -> Int]
  BY TradeRowFields DEF Quantities
<1>2. \A k \in DOMAIN s : s[k].quantity = Quantities[s[k]]
  BY ElementOfSeq, LenProperties DEF Quantities
<1>3. [k \in DOMAIN s |-> s[k].quantity] = [k \in DOMAIN s |-> Quantities[s[k]]]
  BY <1>2
<1>4. CandleOf(s).volume = SumOf(Quantities, s)
  BY <1>3 DEF CandleOf, SumOf
<1>5. Quantities[tr] = tr.quantity
  BY DEF Quantities
<1> QED
  BY <1>1, <1>4, <1>5, SumOfNat, SumOfAppend, SumOfNone

(* What a candle is of no trades is never asked.                           *)
LEMMA CandleOfTrades ==
  ASSUME NEW s \in Seq(TradeRow), s # <<>>
  PROVE  CandleOf(s) \in Candle /\ CandleOf(s).trade_count = Len(s)
<1>1. /\ Len(s) \in Nat \ {0} /\ 1 \in DOMAIN s /\ Len(s) \in DOMAIN s
      /\ \A k \in DOMAIN s : s[k] \in TradeRow
  BY LenProperties, ElementOfSeq, EmptySeq
<1>2. s[1].price \in Nat /\ s[Len(s)].price \in Nat
  BY <1>1, TradeRowFields
<1>3. Max(Prices(s)) \in Nat /\ Min(Prices(s)) \in Nat
  BY <1>1, PricesOfTrades, ExtremesExist
<1>4. CandleOf(s).volume \in Nat
  BY <1>1, VolumeOfTrades
<1>5. CandleOf(s) = [open |-> s[1].price, high |-> Max(Prices(s)), low |-> Min(Prices(s)),
                     close |-> s[Len(s)].price, volume |-> CandleOf(s).volume,
                     trade_count |-> Len(s)]
  BY DEF CandleOf, Prices, Last
<1> QED
  BY <1>1, <1>2, <1>3, <1>4, <1>5 DEF Candle

LEMMA CandleOfOne ==
  ASSUME NEW tr \in TradeRow
  PROVE  CandleOf(<<tr>>) =
           [open |-> tr.price, high |-> tr.price, low |-> tr.price, close |-> tr.price,
            volume |-> tr.quantity, trade_count |-> 1]
<1> DEFINE s == <<tr>>
<1>1. s \in Seq(TradeRow) /\ s = Append(<<>>, tr) /\ <<>> \in Seq(TradeRow)
  OBVIOUS
<1>2. Len(s) = 1 /\ s[1] = tr
  OBVIOUS
<1>3. Prices(s) = {tr.price}
  BY <1>1, PricesOfTrades DEF Prices
<1>4. tr.price \in Nat /\ tr.quantity \in Nat
  BY TradeRowFields
<1>5. Max(Prices(s)) = tr.price /\ Min(Prices(s)) = tr.price
  <2>1. IsFiniteSet({tr.price})
    BY FS_Singleton
  <2>2. Max({tr.price}) = tr.price /\ Min({tr.price}) = tr.price
    BY <1>4, <2>1, ExtremeIs
  <2> QED
    BY <1>3, <2>2
<1>6. CandleOf(s).volume = tr.quantity
  <2>1. CandleOf(s).volume = SumOf(Quantities, s)
    BY <1>1, VolumeOfTrades
  <2>2. SumOf(Quantities, Append(<<>>, tr)) = SumOf(Quantities, <<>>) + tr.quantity
        /\ SumOf(Quantities, <<>>) = 0
    BY <1>1, VolumeOfTrades
  <2>3. SumOf(Quantities, s) = SumOf(Quantities, Append(<<>>, tr))
    BY <1>1
  <2> HIDE DEF s
  <2> QED
    BY <1>4, <2>1, <2>2, <2>3
<1>7. CandleOf(s) = [open |-> s[1].price, high |-> Max(Prices(s)), low |-> Min(Prices(s)),
                     close |-> s[Len(s)].price, volume |-> CandleOf(s).volume,
                     trade_count |-> Len(s)]
  BY DEF CandleOf, Prices, Last
<1> QED
  BY <1>2, <1>5, <1>6, <1>7

WithTrade(c, tr) ==
  [open |-> c.open,
   high |-> IF tr.price > c.high THEN tr.price ELSE c.high,
   low |-> IF tr.price < c.low THEN tr.price ELSE c.low,
   close |-> tr.price,
   volume |-> c.volume + tr.quantity,
   trade_count |-> c.trade_count + 1]

(* The candle of the trades so far is all it takes to add one.             *)
LEMMA CandleOfAppend ==
  ASSUME NEW s \in Seq(TradeRow), s # <<>>, NEW tr \in TradeRow
  PROVE  CandleOf(Append(s, tr)) = WithTrade(CandleOf(s), tr)
<1> DEFINE t == Append(s, tr)
           S == Prices(s)
           c == CandleOf(s)
<1>1. t \in Seq(TradeRow) /\ Len(t) = Len(s) + 1 /\ t[1] = s[1] /\ t[Len(t)] = tr
  BY EmptySeq, LenProperties, AppendProperties
<1>2. /\ S \subseteq Nat /\ IsFiniteSet(S) /\ S # {}
      /\ Prices(t) = S \cup {tr.price}
  BY PricesOfTrades
<1>3. tr.price \in Nat /\ tr.quantity \in Nat
  BY TradeRowFields
<1>4. /\ Max(S) \in S /\ \A x \in S : x <= Max(S)
      /\ Min(S) \in S /\ \A x \in S : Min(S) <= x
  BY <1>2, ExtremesExist
<1>5. IsFiniteSet(S \cup {tr.price}) /\ S \cup {tr.price} # {} /\ S \cup {tr.price} \subseteq Nat
  BY <1>2, <1>3, FS_AddElement
<1>6. Max(Prices(t)) = IF tr.price > Max(S) THEN tr.price ELSE Max(S)
  <2> HIDE DEF S
  <2> DEFINE m == IF tr.price > Max(S) THEN tr.price ELSE Max(S)
  <2>1. \A x \in S : x \in Nat
    BY <1>2
  <2>2. m \in S \cup {tr.price} /\ \A x \in S \cup {tr.price} : x <= m
    BY <1>3, <1>4, <2>1
  <2> HIDE DEF m
  <2>3. Max(S \cup {tr.price}) = m
    BY <1>5, <2>2, ExtremeIs
  <2> QED
    BY <1>2, <2>3 DEF m
<1>7. Min(Prices(t)) = IF tr.price < Min(S) THEN tr.price ELSE Min(S)
  <2> HIDE DEF S
  <2> DEFINE m == IF tr.price < Min(S) THEN tr.price ELSE Min(S)
  <2>1. \A x \in S : x \in Nat
    BY <1>2
  <2>2. m \in S \cup {tr.price} /\ \A x \in S \cup {tr.price} : m <= x
    BY <1>3, <1>4, <2>1
  <2> HIDE DEF m
  <2>3. Min(S \cup {tr.price}) = m
    BY <1>5, <2>2, ExtremeIs
  <2> QED
    BY <1>2, <2>3 DEF m
<1>8. CandleOf(t).volume = c.volume + tr.quantity
  BY <1>1, VolumeOfTrades
<1>9. \A q : CandleOf(q) =
        [open |-> q[1].price, high |-> Max(Prices(q)), low |-> Min(Prices(q)),
         close |-> q[Len(q)].price, volume |-> CandleOf(q).volume, trade_count |-> Len(q)]
  BY DEF CandleOf, Prices, Last
<1>10. /\ c.open = s[1].price /\ c.high = Max(S) /\ c.low = Min(S) /\ c.trade_count = Len(s)
  BY <1>9
<1>11. CandleOf(t) =
        [open |-> t[1].price, high |-> Max(Prices(t)), low |-> Min(Prices(t)),
         close |-> t[Len(t)].price, volume |-> CandleOf(t).volume, trade_count |-> Len(t)]
  BY <1>9
<1> HIDE DEF t, S, c
<1>12. CandleOf(t) = WithTrade(c, tr)
  BY <1>1, <1>6, <1>7, <1>8, <1>10, <1>11 DEF WithTrade
<1> QED
  BY <1>12 DEF t, c

-----------------------------------------------------------------------------
(* The period a time lies in                                               *)
LEMMA Aligned ==
  ASSUME NEW n \in Nat, NEW p \in Nat \ {0}
  PROVE  /\ (n \div p) * p \in Nat
         /\ (n \div p) * p <= n
         /\ n < (n \div p) * p + p
<1>1. n \div p \in Nat
  OBVIOUS
<1>2. n = p * (n \div p) + (n % p) /\ n % p \in 0 .. p - 1
  OBVIOUS
<1> QED
  BY <1>1, <1>2

LEMMA AlignToPeriodType ==
  ASSUME NEW tf \in Timeframe, clock \in Nat
  PROVE  /\ AlignToPeriod(tf, clock) \in Nat
         /\ AlignToPeriod(tf, clock) <= clock
         /\ clock < AlignToPeriod(tf, clock) + Period[tf]
<1>1. Period[tf] \in Nat \ {0}
  BY PeriodAssumption DEF Timeframe
<1> QED
  BY <1>1, Aligned DEF AlignToPeriod

LEMMA UpdatedType ==
  ASSUME NEW tf \in Timeframe, NEW b \in BufferType, NEW price \in Nat, NEW quantity \in Nat,
         clock \in Nat
  PROVE  /\ Updated(tf, b, price, quantity) \in BufferType
         /\ Updated(tf, b, price, quantity).period_start =
              IF b.has_data THEN b.period_start ELSE AlignToPeriod(tf, clock)
<1>1. AlignToPeriod(tf, clock) \in Nat
  BY AlignToPeriodType
<1>2. b.candle \in Candle /\ b.has_data \in BOOLEAN /\ b.period_start \in Nat
  BY DEF BufferType
<1>3. Opened(tf, b, price, quantity) \in BufferType
      /\ Opened(tf, b, price, quantity).period_start = AlignToPeriod(tf, clock)
  BY <1>1, <1>2 DEF Opened, BufferType, Candle
<1>4. Extended(b, price, quantity) \in BufferType
      /\ Extended(b, price, quantity).period_start = b.period_start
  <2> DEFINE high == IF price > b.candle.high THEN price ELSE b.candle.high
             low  == IF price < b.candle.low THEN price ELSE b.candle.low
             c    == [b.candle EXCEPT !.high = high, !.low = low, !.close = price,
                                      !.volume = b.candle.volume + quantity,
                                      !.trade_count = b.candle.trade_count + 1]
  <2>1. Extended(b, price, quantity) = [b EXCEPT !.candle = c]
    BY DEF Extended
  <2>2. /\ b.candle.open \in Nat /\ b.candle.volume \in Nat /\ b.candle.trade_count \in Nat
        /\ b.candle.high \in Nat /\ b.candle.low \in Nat
    BY <1>2 DEF Candle
  <2>3. high \in Nat /\ low \in Nat
    BY <2>2
  <2>4. b.candle.volume + quantity \in Nat /\ b.candle.trade_count + 1 \in Nat
    BY <2>2
  <2> HIDE DEF high, low
  <2>5. c \in Candle
    BY <1>2, <2>3, <2>4 DEF Candle
  <2> HIDE DEF c
  <2> QED
    BY <1>2, <2>1, <2>5 DEF BufferType
<1> QED
  BY <1>3, <1>4 DEF Updated

LEMMA ResetType ==
  ASSUME NEW b \in BufferType
  PROVE  Reset(b) \in BufferType /\ ~Reset(b).has_data
<1>1. NoCandle \in Candle
  BY DEF NoCandle, Candle
<1> QED
  BY <1>1 DEF Reset, BufferType

-----------------------------------------------------------------------------
LEMMA InitInv == Init => Inv
<1> SUFFICES ASSUME Init PROVE Inv
  OBVIOUS
<1>1. NoCandle \in Candle
  BY DEF NoCandle, Candle
<1>2. NewBuffer \in BufferType /\ ~NewBuffer.has_data
  BY <1>1 DEF NewBuffer, BufferType
<1>3. Typed
  BY <1>2 DEF Init, Typed
<1> QED
  BY <1>2, <1>3 DEF Init, Inv, NoneFromTheFuture, BufferIsLast

LEMMA OnTradeInv ==
  ASSUME Inv, NEW price \in Nat, NEW quantity \in Nat, OnTrade(price, quantity)
  PROVE  Inv'
<1> DEFINE due == {tf \in Timeframe : ShouldFlush(tf, buffers[tf])}
           before(tf) == IF tf \in due THEN Reset(buffers[tf]) ELSE buffers[tf]
           tr == [price |-> price, quantity |-> quantity, time |-> clock, run |-> restarts]
<1>1. /\ buffers' = [tf \in Timeframe |-> Updated(tf, before(tf), price, quantity)]
      /\ trades' = Append(trades, tr)
      /\ UNCHANGED <<clock, restarts>>
  BY DEF OnTrade
<1>2. /\ clock \in Nat
      /\ restarts \in Int
      /\ \A tf \in Timeframe : buffers[tf] \in BufferType
      /\ trades \in Seq(TradeRow)
  BY DEF Inv, Typed
<1>0. tr \in TradeRow
  BY <1>2 DEF TradeRow
<1>3. \A tf \in Timeframe : before(tf) \in BufferType
  BY <1>2, ResetType
<1>4. \A i \in DOMAIN trades' : trades'[i].time \in Nat /\ trades'[i].time <= clock
  <2> SUFFICES ASSUME NEW i \in DOMAIN trades'
               PROVE  trades'[i].time \in Nat /\ trades'[i].time <= clock
    OBVIOUS
  <2>1. Len(trades) \in Nat /\ Len(trades') = Len(trades) + 1 /\ i \in 1 .. Len(trades')
    BY <1>0, <1>1, <1>2
  <2>2. CASE i = Len(trades')
    <3>1. trades'[i] = tr
      BY <1>0, <1>1, <1>2, <2>1, <2>2
    <3> QED
      BY <1>2, <3>1
  <2>3. CASE i # Len(trades')
    <3>1. i \in DOMAIN trades /\ trades'[i] = trades[i]
      BY <1>0, <1>1, <1>2, <2>1, <2>3
    <3>2. trades[i] \in TradeRow
      BY <1>2, <3>1
    <3> QED
      BY <3>1, <3>2 DEF Inv, NoneFromTheFuture, TradeRow
  <2> QED
    BY <2>2, <2>3
<1>5. Typed'
  <2>1. buffers' \in [Timeframe -> BufferType]
    <3> HIDE DEF before
    <3> QED
      BY <1>1, <1>2, <1>3, UpdatedType
  <2>2. trades' \in Seq(TradeRow)
    BY <1>0, <1>1, <1>2
  <2> QED
    BY <1>1, <1>2, <2>1, <2>2 DEF Typed
<1>6. NoneFromTheFuture'
  BY <1>1, <1>4 DEF NoneFromTheFuture
<1>7. BufferIsLast'
  <2> SUFFICES ASSUME NEW tf \in Timeframe, NEW i \in DOMAIN trades'
               PROVE  trades'[i].time < buffers'[tf].period_start + Period[tf]
    BY DEF BufferIsLast
  <2>1. Period[tf] \in Nat \ {0}
    BY PeriodAssumption DEF Timeframe
  <2>2. trades'[i].time \in Nat /\ trades'[i].time <= clock
    BY <1>4
  <2>3. buffers'[tf].period_start =
          IF before(tf).has_data THEN before(tf).period_start ELSE AlignToPeriod(tf, clock)
    <3> HIDE DEF before
    <3> QED
      BY <1>1, <1>2, <1>3, UpdatedType
  <2>4. CASE ~before(tf).has_data
    BY <1>2, <2>1, <2>2, <2>3, <2>4, AlignToPeriodType
  <2>5. CASE before(tf).has_data
    <3>1. tf \notin due /\ before(tf) = buffers[tf]
      BY <1>2, <2>5, ResetType
    <3>2. clock - buffers[tf].period_start < Period[tf]
      BY <1>2, <2>1, <2>5, <3>1 DEF ShouldFlush, BufferType
    <3> QED
      BY <1>2, <2>1, <2>2, <2>3, <2>5, <3>1, <3>2 DEF BufferType
  <2> QED
    BY <2>4, <2>5
<1> QED
  BY <1>1, <1>2, <1>5, <1>6, <1>7 DEF Inv

LEMMA NextInv == Inv /\ [Next]_vars => Inv'
<1> SUFFICES ASSUME Inv, [Next]_vars PROVE Inv'
  OBVIOUS
<1>1. ASSUME NEW price \in Price, NEW quantity \in Quantity, OnTrade(price, quantity)
      PROVE  Inv'
  BY <1>1, OnTradeInv, PriceAssumption
<1>2. CASE FlushAll
  BY <1>2 DEF FlushAll, Inv, Typed, NoneFromTheFuture, BufferIsLast
<1>3. CASE Tick
  <2>1. clock' = clock + 1 /\ UNCHANGED <<buffers, trades, restarts>>
    BY <1>3 DEF Tick
  <2>2. Typed' /\ BufferIsLast'
    BY <2>1 DEF Inv, Typed, BufferIsLast
  <2>3. NoneFromTheFuture'
    <3> SUFFICES ASSUME NEW i \in DOMAIN trades PROVE trades[i].time <= clock + 1
      BY <2>1 DEF NoneFromTheFuture
    <3>1. trades[i] \in TradeRow
      BY DEF Inv, Typed
    <3>2. clock \in Nat /\ trades[i].time <= clock
      BY DEF Inv, Typed, NoneFromTheFuture
    <3> QED
      BY <3>1, <3>2 DEF TradeRow
  <2> QED
    BY <2>1, <2>2, <2>3 DEF Inv
<1>4. CASE Restart
  <2>1. NoCandle \in Candle
    BY DEF NoCandle, Candle
  <2>2. NewBuffer \in BufferType /\ ~NewBuffer.has_data
    BY <2>1 DEF NewBuffer, BufferType
  <2> QED
    BY <1>4, <2>2 DEF Restart, Inv, Typed, NoneFromTheFuture, BufferIsLast
<1>5. CASE UNCHANGED vars
  BY <1>5 DEF vars, Inv, Typed, NoneFromTheFuture, BufferIsLast
<1> QED
  BY <1>1, <1>2, <1>3, <1>4, <1>5 DEF Next

-----------------------------------------------------------------------------
(* The trades of a period *)

InPeriod(tf, p, run) ==
  {tr \in TradeRow : tr.run = run /\ p <= tr.time /\ tr.time < p + Period[tf]}

TradesOf(s, tf, p, run) == Among(s, InPeriod(tf, p, run))

LEMMA RowsOfPeriod ==
  ASSUME NEW s \in Seq(TradeRow), NEW tf, NEW p, NEW run
  PROVE  Where(s, LAMBDA tr : tr.run = run /\ p <= tr.time /\ tr.time < p + Period[tf])
           = TradesOf(s, tf, p, run)
<1>1. \A i \in DOMAIN s : s[i] \in TradeRow
  BY ElementOfSeq, LenProperties
<1>2. {i \in DOMAIN s : s[i].run = run /\ p <= s[i].time /\ s[i].time < p + Period[tf]}
        = {i \in DOMAIN s : s[i] \in InPeriod(tf, p, run)}
  BY <1>1 DEF InPeriod
<1> QED
  BY <1>2 DEF TradesOf, Where, Among

LEMMA TradesInIs ==
  ASSUME trades \in Seq(TradeRow), NEW tf, NEW p, NEW run
  PROVE  TradesIn(tf, p, run) = TradesOf(trades, tf, p, run)
BY RowsOfPeriod DEF TradesIn

LEMMA TradesOfAppend ==
  ASSUME NEW s \in Seq(TradeRow), NEW tr \in TradeRow, NEW tf, NEW p, NEW run
  PROVE  /\ TradesOf(s, tf, p, run) \in Seq(TradeRow)
         /\ TradesOf(Append(s, tr), tf, p, run) =
              IF tr.run = run /\ p <= tr.time /\ tr.time < p + Period[tf]
              THEN Append(TradesOf(s, tf, p, run), tr)
              ELSE TradesOf(s, tf, p, run)
<1>1. tr \in InPeriod(tf, p, run) <=> tr.run = run /\ p <= tr.time /\ tr.time < p + Period[tf]
  BY DEF InPeriod
<1> QED
  BY <1>1, AmongAppend DEF TradesOf

(* Starts of periods are multiples of the period.                          *)
IsAligned(p, tf) == \E n \in Nat : p = n * Period[tf]

LEMMA MultiplesAreApart ==
  ASSUME NEW a \in Nat, NEW b \in Nat, NEW p \in Nat \ {0}, a < b
  PROVE  a * p + p <= b * p
<1>1. PICK d \in Nat : b = a + 1 + d
  <2>1. b - a - 1 \in Nat /\ b = a + 1 + (b - a - 1)
    OBVIOUS
  <2> QED
    BY <2>1
<1>2. b * p = a * p + p + d * p
  BY <1>1
<1>3. d * p \in Nat /\ a * p \in Nat
  OBVIOUS
<1> QED
  BY <1>2, <1>3

LEMMA AlignedAreApart ==
  ASSUME NEW tf \in Timeframe, NEW p, NEW q, IsAligned(p, tf), IsAligned(q, tf)
  PROVE  /\ p \in Nat /\ q \in Nat
         /\ p < q <=> p + Period[tf] <= q
<1>1. Period[tf] \in Nat \ {0}
  BY PeriodAssumption DEF Timeframe
<1>2. PICK m \in Nat, n \in Nat : p = m * Period[tf] /\ q = n * Period[tf]
  BY DEF IsAligned
<1> DEFINE d == Period[tf]
<1> HIDE DEF d
<1>3. p \in Nat /\ q \in Nat /\ d \in Nat \ {0} /\ p = m * d /\ q = n * d
  BY <1>1, <1>2 DEF d
<1>4. ASSUME p < q PROVE p + d <= q
  <2>1. m < n
    <3> SUFFICES ASSUME n <= m PROVE FALSE
      OBVIOUS
    <3>1. n = m \/ n < m
      OBVIOUS
    <3>2. CASE n = m
      BY <1>3, <1>4, <3>2
    <3>3. CASE n < m
      <4>1. n * d + d <= m * d
        BY <1>3, <3>3, MultiplesAreApart
      <4> QED
        BY <1>3, <1>4, <4>1
    <3> QED
      BY <3>1, <3>2, <3>3
  <2> QED
    BY <1>3, <2>1, MultiplesAreApart
<1> QED
  BY <1>3, <1>4 DEF d

(* The period a time lies in is the only one it lies in.                   *)
LEMMA AlignIs ==
  ASSUME NEW tf \in Timeframe, NEW time \in Nat
  PROVE  /\ IsAligned(AlignToPeriod(tf, time), tf)
         /\ AlignToPeriod(tf, time) <= time
         /\ time < AlignToPeriod(tf, time) + Period[tf]
         /\ \A p : IsAligned(p, tf) /\ p <= time /\ time < p + Period[tf] =>
                     p = AlignToPeriod(tf, time)
<1> DEFINE q == AlignToPeriod(tf, time)
<1>1. Period[tf] \in Nat \ {0}
  BY PeriodAssumption DEF Timeframe
<1>2. time \div Period[tf] \in Nat
  BY <1>1
<1>3. IsAligned(q, tf)
  BY <1>2 DEF IsAligned, AlignToPeriod
<1>4. q \in Nat /\ q <= time /\ time < q + Period[tf]
  BY <1>1, Aligned DEF AlignToPeriod
<1> HIDE DEF q
<1>5. ASSUME NEW p, IsAligned(p, tf), p <= time, time < p + Period[tf]
      PROVE  p = q
  <2>1. p \in Nat /\ (p < q <=> p + Period[tf] <= q) /\ (q < p <=> q + Period[tf] <= p)
    BY <1>3, <1>5, AlignedAreApart
  <2> QED
    BY <1>1, <1>4, <1>5, <2>1
<1> QED
  BY <1>3, <1>4, <1>5 DEF q

-----------------------------------------------------------------------------
(* Buffers.  A buffer with data holds the candle of the trades of its      *)
(* period; one without is new, for this run of the server has seen none.   *)
IsBuilt(b, s, tf, now, run) ==
  /\ b \in BufferType
  /\ IsAligned(b.period_start, tf) /\ b.period_start <= now
  /\ b.has_data =>
       /\ TradesOf(s, tf, b.period_start, run) # <<>>
       /\ b.candle = CandleOf(TradesOf(s, tf, b.period_start, run))
  /\ ~b.has_data => b.candle = NoCandle /\ \A k \in DOMAIN s : s[k].run # run

Built ==
  /\ restarts \in Nat
  /\ \A k \in DOMAIN trades : trades[k].run \in 0 .. restarts
  /\ \A tf \in Timeframe : IsBuilt(buffers[tf], trades, tf, clock, restarts)

Changed(c, high, low, close, volume, count) ==
  [c EXCEPT !.high = high, !.low = low, !.close = close, !.volume = volume,
            !.trade_count = count]

LEMMA CandleExcept ==
  ASSUME NEW c, NEW high, NEW low, NEW close, NEW volume, NEW count,
         c \in Candle, high \in Nat, low \in Nat, close \in Nat, volume \in Nat, count \in Nat
  PROVE  Changed(c, high, low, close, volume, count)
           = [open |-> c.open, high |-> high, low |-> low, close |-> close,
              volume |-> volume, trade_count |-> count]
<1> DEFINE n == [c EXCEPT !.high = high, !.low = low, !.close = close, !.volume = volume,
                          !.trade_count = count]
<1>1. n \in Candle
  BY DEF Candle
<1>2. /\ n.open = c.open /\ n.high = high /\ n.low = low /\ n.close = close
      /\ n.volume = volume /\ n.trade_count = count
  BY DEF Candle
<1> HIDE DEF n
<1>3. n = [open |-> n.open, high |-> n.high, low |-> n.low, close |-> n.close,
           volume |-> n.volume, trade_count |-> n.trade_count]
  BY <1>1 DEF Candle
<1>4. n = [open |-> c.open, high |-> high, low |-> low, close |-> close,
           volume |-> volume, trade_count |-> count]
  BY <1>2, <1>3
<1> QED
  BY <1>4 DEF n, Changed

Unflushed(tf) == IF ShouldFlush(tf, buffers[tf]) THEN Reset(buffers[tf]) ELSE buffers[tf]

LEMMA UpdatedIsBuilt ==
  ASSUME Inv, Built, NEW tf \in Timeframe, NEW price \in Nat, NEW quantity \in Nat,
         NEW tr, tr = [price |-> price, quantity |-> quantity, time |-> clock, run |-> restarts]
  PROVE  /\ IsBuilt(Updated(tf, Unflushed(tf), price, quantity), Append(trades, tr), tf,
                    clock, restarts)
         /\ Updated(tf, Unflushed(tf), price, quantity).has_data
         /\ Updated(tf, Unflushed(tf), price, quantity).period_start = AlignToPeriod(tf, clock)
<1> DEFINE b == buffers[tf]
           c == Unflushed(tf)
           u == Updated(tf, c, price, quantity)
           q == AlignToPeriod(tf, clock)
           s == TradesOf(trades, tf, q, restarts)
           t == TradesOf(Append(trades, tr), tf, q, restarts)
<1>1. /\ clock \in Nat /\ restarts \in Nat /\ trades \in Seq(TradeRow)
      /\ b \in BufferType /\ IsBuilt(b, trades, tf, clock, restarts)
      /\ Period[tf] \in Nat \ {0}
  BY PeriodAssumption DEF Inv, Typed, Built, Timeframe
<1>2. tr \in TradeRow /\ tr.price = price /\ tr.quantity = quantity /\ tr.time = clock
      /\ tr.run = restarts
  BY <1>1 DEF TradeRow
<1>3. c \in BufferType /\ (ShouldFlush(tf, b) => ~c.has_data /\ c.candle = NoCandle)
      /\ (~ShouldFlush(tf, b) => c = b)
  BY <1>1, ResetType DEF Unflushed, Reset, BufferType
<1>4. u \in BufferType /\ u.period_start = IF c.has_data THEN c.period_start ELSE q
  BY <1>1, <1>3, UpdatedType
<1>5. IsAligned(q, tf) /\ q <= clock /\ clock < q + Period[tf]
  BY <1>1, AlignIs
<1>6. s \in Seq(TradeRow) /\ t = Append(s, tr)
  BY <1>1, <1>2, <1>5, TradesOfAppend
<1>7. CASE ~c.has_data
  <2>1. c.candle = NoCandle
    BY <1>1, <1>3, <1>7 DEF IsBuilt
  <2>2. u = [has_data |-> TRUE, period_start |-> q,
             candle |-> [open |-> price, high |-> price, low |-> price, close |-> price,
                         volume |-> quantity, trade_count |-> 1]]
    <3>1. NoCandle.volume + quantity = quantity /\ NoCandle.trade_count + 1 = 1
      BY DEF NoCandle
    <3> HIDE DEF c, q
    <3>2. u = [has_data |-> TRUE, period_start |-> q,
               candle |-> [open |-> price, high |-> price, low |-> price, close |-> price,
                           volume |-> NoCandle.volume + quantity,
                           trade_count |-> NoCandle.trade_count + 1]]
      BY <1>7, <2>1 DEF Updated, Opened, q
    <3> QED
      BY <3>1, <3>2
  <2>3. \A k \in DOMAIN trades : trades[k] \notin InPeriod(tf, q, restarts)
    <3>1. CASE ~b.has_data
      BY <1>1, <3>1 DEF IsBuilt, InPeriod
    <3>2. CASE b.has_data
      <4>1. ShouldFlush(tf, b)
        BY <1>3, <1>7, <3>2
      <4>2. b.period_start + Period[tf] <= clock /\ IsAligned(b.period_start, tf) /\ b.period_start \in Nat
        BY <1>1, <4>1 DEF ShouldFlush, IsBuilt, BufferType
      <4>3. q \in Nat /\ (b.period_start < q <=> b.period_start + Period[tf] <= q)
        BY <1>5, <4>2, AlignedAreApart
      <4>4. b.period_start + Period[tf] <= q
        BY <1>1, <1>5, <4>2, <4>3
      <4> SUFFICES ASSUME NEW k \in DOMAIN trades PROVE ~(q <= trades[k].time)
        BY DEF InPeriod
      <4>5. trades[k].time < b.period_start + Period[tf]
        BY <3>2 DEF Inv, BufferIsLast
      <4>6. trades[k].time \in Nat
        BY <1>1, ElementOfSeq, LenProperties, TradeRowFields
      <4> QED
        BY <1>1, <4>2, <4>3, <4>4, <4>5, <4>6
    <3> QED
      BY <3>1, <3>2
  <2>4. s = <<>>
    BY <1>1, <2>3, AmongNoMatch DEF TradesOf
  <2>5. t = <<tr>>
    BY <1>6, <2>4
  <2>6. u.candle = CandleOf(t) /\ t # <<>> /\ u.has_data /\ u.period_start = q
    <3>1. CandleOf(<<tr>>) = [open |-> price, high |-> price, low |-> price, close |-> price,
                               volume |-> quantity, trade_count |-> 1]
      BY <1>2, CandleOfOne
    <3>2. <<tr>> # <<>>
      OBVIOUS
    <3> HIDE DEF u, t
    <3> QED
      BY <2>2, <2>5, <3>1, <3>2
  <2> QED
    BY <1>4, <1>5, <2>6 DEF IsBuilt
<1>8. CASE c.has_data
  <2>1. c = b /\ b.has_data /\ clock < b.period_start + Period[tf]
    BY <1>1, <1>3, <1>8 DEF ShouldFlush, BufferType
  <2>2. b.period_start = q
    BY <1>1, <2>1, AlignIs DEF IsBuilt
  <2>3. s # <<>> /\ b.candle = CandleOf(s)
    BY <1>1, <2>1, <2>2 DEF IsBuilt
  <2>4. CandleOf(t) = WithTrade(CandleOf(s), tr)
    BY <1>2, <1>6, <2>3, CandleOfAppend
  <2>5. u.has_data /\ u.candle = WithTrade(b.candle, tr)
    <3> DEFINE high == IF price > b.candle.high THEN price ELSE b.candle.high
               low  == IF price < b.candle.low THEN price ELSE b.candle.low
               sum  == b.candle.volume + quantity
               more == b.candle.trade_count + 1
               n    == Changed(b.candle, high, low, price, sum, more)
    <3>1. u = [b EXCEPT !.candle = n]
      BY <2>1 DEF Updated, Extended, Changed
    <3>2. b.candle \in Candle
      BY <1>1 DEF BufferType
    <3>0. sum \in Nat /\ more \in Nat /\ high \in Nat /\ low \in Nat
      BY <3>2 DEF Candle
    <3> HIDE DEF high, low, sum, more
    <3>3. n = [open |-> b.candle.open, high |-> high, low |-> low, close |-> price,
               volume |-> sum, trade_count |-> more]
      <4>1. price \in Nat
        OBVIOUS
      <4>2. Changed(b.candle, high, low, price, sum, more) =
              [open |-> b.candle.open, high |-> high, low |-> low, close |-> price,
               volume |-> sum, trade_count |-> more]
        BY ONLY <3>0, <3>2, <4>1, CandleExcept
      <4> QED
        BY <4>2
    <3> HIDE DEF n
    <3>4. u.candle = n /\ u.has_data
      BY <1>1, <2>1, <3>1 DEF BufferType
    <3> QED
      BY <1>2, <3>3, <3>4 DEF high, low, sum, more, WithTrade
  <2>6. t # <<>>
    BY <1>2, <1>6, AppendProperties, EmptySeq
  <2>7. u.candle = CandleOf(t) /\ u.period_start = q
    BY <1>4, <1>8, <2>1, <2>2, <2>3, <2>4, <2>5
  <2> QED
    BY <1>4, <1>5, <2>5, <2>6, <2>7 DEF IsBuilt
<1> QED
  BY <1>7, <1>8

LEMMA InitBuilt == Init => Built
<1> SUFFICES ASSUME Init PROVE Built
  OBVIOUS
<1>1. /\ restarts = 0 /\ clock = 0 /\ trades = <<>>
      /\ \A tf \in Timeframe : buffers[tf] = NewBuffer
  BY DEF Init
<1>2. NewBuffer \in BufferType /\ ~NewBuffer.has_data /\ NewBuffer.candle = NoCandle
      /\ NewBuffer.period_start = 0
  BY DEF NewBuffer, BufferType, NoCandle, Candle
<1>3. \A tf \in Timeframe : IsAligned(0, tf)
  <2>1. \A tf \in Timeframe : 0 = 0 * Period[tf]
    BY PeriodAssumption DEF Timeframe
  <2> QED
    BY <2>1 DEF IsAligned
<1>4. \A k \in DOMAIN trades : FALSE
  BY <1>1
<1> HIDE DEF NewBuffer
<1> QED
  BY <1>1, <1>2, <1>3, <1>4 DEF Built, IsBuilt

LEMMA OnTradeBuilt ==
  ASSUME Inv, Built, NEW price \in Nat, NEW quantity \in Nat, OnTrade(price, quantity)
  PROVE  Built'
<1> DEFINE tr == [price |-> price, quantity |-> quantity, time |-> clock, run |-> restarts]
<1>1. /\ trades' = Append(trades, tr) /\ UNCHANGED <<clock, restarts>>
      /\ \A tf \in Timeframe : buffers'[tf] = Updated(tf, Unflushed(tf), price, quantity)
  BY DEF OnTrade, Unflushed
<1>2. /\ clock \in Nat /\ restarts \in Nat /\ trades \in Seq(TradeRow)
      /\ tr \in TradeRow /\ tr.run = restarts
  BY DEF Inv, Typed, Built, TradeRow
<1>3. \A tf \in Timeframe : IsBuilt(buffers'[tf], Append(trades, tr), tf, clock, restarts)
  BY <1>1, UpdatedIsBuilt
<1> HIDE DEF tr
<1>4. \A k \in DOMAIN Append(trades, tr) : Append(trades, tr)[k].run \in 0 .. restarts
  <2> SUFFICES ASSUME NEW k \in DOMAIN Append(trades, tr)
               PROVE  Append(trades, tr)[k].run \in 0 .. restarts
    OBVIOUS
  <2>1. (k \in DOMAIN trades /\ Append(trades, tr)[k] = trades[k]) \/ Append(trades, tr)[k] = tr
    BY <1>2, AppendProperties, LenProperties
  <2> QED
    BY <1>2, <2>1 DEF Built
<1> QED
  BY <1>1, <1>2, <1>3, <1>4 DEF Built

LEMMA NextBuilt == Inv /\ Built /\ [Next]_vars => Built'
<1> SUFFICES ASSUME Inv, Built, [Next]_vars PROVE Built'
  OBVIOUS
<1>1. ASSUME NEW price \in Price, NEW quantity \in Quantity, OnTrade(price, quantity)
      PROVE  Built'
  BY <1>1, OnTradeBuilt, PriceAssumption
<1>2. CASE Tick
  <2>1. clock' = clock + 1 /\ UNCHANGED <<buffers, trades, restarts>> /\ clock \in Nat
    BY <1>2 DEF Tick, Inv, Typed
  <2>2. ASSUME NEW tf \in Timeframe
        PROVE  IsBuilt(buffers[tf], trades, tf, clock + 1, restarts)
    <3>1. IsBuilt(buffers[tf], trades, tf, clock, restarts) /\ buffers[tf].period_start \in Nat
      BY DEF Built, IsBuilt, BufferType
    <3> QED
      BY <2>1, <3>1 DEF IsBuilt
  <2> QED
    BY <2>1, <2>2 DEF Built
<1>3. CASE Restart
  <2>1. /\ restarts' = restarts + 1 /\ UNCHANGED <<clock, trades>>
        /\ \A tf \in Timeframe : buffers'[tf] = NewBuffer
    BY <1>3 DEF Restart
  <2>2. /\ restarts \in Nat /\ clock \in Nat /\ trades \in Seq(TradeRow)
        /\ \A k \in DOMAIN trades : trades[k].run \in 0 .. restarts
    <3>1. \A k \in DOMAIN trades : trades[k] \in TradeRow
      BY ElementOfSeq, LenProperties DEF Inv, Typed
    <3> QED
      BY <3>1, TradeRowFields DEF Inv, Typed, Built
  <2>3. \A k \in DOMAIN trades : trades[k].run # restarts + 1 /\ trades[k].run \in 0 .. restarts + 1
    BY <2>2
  <2>4. NewBuffer \in BufferType /\ ~NewBuffer.has_data /\ NewBuffer.candle = NoCandle
        /\ NewBuffer.period_start = 0
    BY DEF NewBuffer, BufferType, NoCandle, Candle
  <2>5. \A tf \in Timeframe : IsAligned(0, tf)
    <3>1. \A tf \in Timeframe : 0 = 0 * Period[tf]
      BY PeriodAssumption DEF Timeframe
    <3> QED
      BY <3>1 DEF IsAligned
  <2> HIDE DEF NewBuffer
  <2>6. \A tf \in Timeframe : IsBuilt(NewBuffer, trades, tf, clock, restarts + 1)
    BY <2>2, <2>3, <2>4, <2>5 DEF IsBuilt
  <2> QED
    BY <2>1, <2>2, <2>3, <2>6 DEF Built
<1>4. CASE FlushAll \/ UNCHANGED vars
  BY <1>4 DEF FlushAll, vars, Built
<1> QED
  BY <1>1, <1>2, <1>3, <1>4 DEF Next

-----------------------------------------------------------------------------
(* Rows.  A stored candle is that of the first trades of its period, in    *)
(* one run of the server.                                                  *)
IsRow(c, s, tf, p, top) ==
  \E run \in 0 .. top : \E n \in 1 .. Len(TradesOf(s, tf, p, run)) :
    c = CandleOf(SubSeq(TradesOf(s, tf, p, run), 1, n))

RowsInv ==
  \A tf \in Timeframe : \A p \in DOMAIN price_history[tf] :
    IsRow(price_history[tf][p], trades, tf, p, restarts)

LEMMA WriteRows ==
  ASSUME NEW due \in SUBSET Timeframe, Write(due),
         NEW tf \in Timeframe, NEW p \in DOMAIN price_history'[tf]
  PROVE  \/ p \in DOMAIN price_history[tf] /\ price_history'[tf][p] = price_history[tf][p]
         \/ /\ tf \in due /\ p = buffers[tf].period_start
            /\ price_history'[tf][p] = buffers[tf].candle
<1>1. PICK lost \in SUBSET due :
        price_history' = [x \in Timeframe |->
          IF x \in due \ lost THEN WithRow(price_history[x], buffers[x]) ELSE price_history[x]]
  BY DEF Write
<1>2. price_history'[tf] =
        IF tf \in due \ lost THEN WithRow(price_history[tf], buffers[tf]) ELSE price_history[tf]
  BY <1>1
<1> QED
  BY <1>2 DEF WithRow

LEMMA FirstTradesStay ==
  ASSUME NEW s \in Seq(TradeRow), NEW tr \in TradeRow, NEW n \in 1 .. Len(s)
  PROVE  n \in 1 .. Len(Append(s, tr)) /\ SubSeq(Append(s, tr), 1, n) = SubSeq(s, 1, n)
<1>1. /\ Len(s) \in Nat /\ Append(s, tr) \in Seq(TradeRow) /\ Len(Append(s, tr)) = Len(s) + 1
      /\ \A i \in 1 .. Len(s) : Append(s, tr)[i] = s[i]
  BY LenProperties, AppendProperties
<1>2. SubSeq(s, 1, n) = [i \in 1 .. n |-> s[i]]
      /\ SubSeq(Append(s, tr), 1, n) = [i \in 1 .. n |-> Append(s, tr)[i]]
  BY <1>1
<1>3. \A i \in 1 .. n : Append(s, tr)[i] = s[i]
  BY <1>1
<1> QED
  BY <1>1, <1>2, <1>3

LEMMA RowStays ==
  ASSUME NEW s \in Seq(TradeRow), NEW tr \in TradeRow, NEW c, NEW tf, NEW p,
         NEW top \in Nat, NEW more \in Nat, top <= more, IsRow(c, s, tf, p, top)
  PROVE  IsRow(c, Append(s, tr), tf, p, more) /\ IsRow(c, s, tf, p, more)
<1>0. PICK run \in 0 .. top :
        \E n \in 1 .. Len(TradesOf(s, tf, p, run)) :
          c = CandleOf(SubSeq(TradesOf(s, tf, p, run), 1, n))
  BY DEF IsRow
<1>1. PICK n \in 1 .. Len(TradesOf(s, tf, p, run)) :
        c = CandleOf(SubSeq(TradesOf(s, tf, p, run), 1, n))
  BY <1>0
<1> DEFINE old == TradesOf(s, tf, p, run)
           new == TradesOf(Append(s, tr), tf, p, run)
<1>2. old \in Seq(TradeRow) /\ (new = old \/ new = Append(old, tr))
  BY TradesOfAppend
<1>3. n \in 1 .. Len(new) /\ SubSeq(new, 1, n) = SubSeq(old, 1, n)
  <2> HIDE DEF old, new
  <2>1. n \in 1 .. Len(old)
    BY <1>1 DEF old
  <2> QED
    BY <1>2, <2>1, FirstTradesStay
<1>4. run \in 0 .. more
  BY <1>1
<1> QED
  BY <1>1, <1>3, <1>4 DEF IsRow

LEMMA BufferIsRow ==
  ASSUME NEW b, NEW s \in Seq(TradeRow), NEW tf, NEW now, NEW run \in Nat,
         IsBuilt(b, s, tf, now, run), b.has_data
  PROVE  IsRow(b.candle, s, tf, b.period_start, run)
<1> DEFINE t == TradesOf(s, tf, b.period_start, run)
<1>1. t # <<>> /\ b.candle = CandleOf(t)
  BY DEF IsBuilt
<1>0. t \in Seq(TradeRow)
  BY RowsAtIsSeq DEF TradesOf, Among
<1>2. Len(t) \in 1 .. Len(t) /\ SubSeq(t, 1, Len(t)) = t
  <2> HIDE DEF t
  <2>1. Len(t) \in Nat \ {0}
    BY <1>0, <1>1, EmptySeq, LenProperties
  <2> QED
    BY <1>0, <2>1
<1>3. run \in 0 .. run
  OBVIOUS
<1> QED
  BY <1>1, <1>2, <1>3 DEF IsRow

LEMMA NextRows == Inv /\ Built /\ RowsInv /\ [Next]_vars => RowsInv'
<1> SUFFICES ASSUME Inv, Built, RowsInv, [Next]_vars,
                    NEW tf \in Timeframe, NEW p \in DOMAIN price_history'[tf]
             PROVE  IsRow(price_history'[tf][p], trades', tf, p, restarts')
  BY DEF RowsInv
<1>1. /\ trades \in Seq(TradeRow) /\ restarts \in Nat /\ clock \in Nat
      /\ IsBuilt(buffers[tf], trades, tf, clock, restarts)
  BY DEF Inv, Typed, Built
<1>2. ASSUME NEW due \in SUBSET {x \in Timeframe : buffers[x].has_data}, Write(due)
      PROVE  IsRow(price_history'[tf][p], trades, tf, p, restarts)
  <2>1. CASE p \in DOMAIN price_history[tf] /\ price_history'[tf][p] = price_history[tf][p]
    BY <2>1 DEF RowsInv
  <2>2. CASE /\ tf \in due /\ p = buffers[tf].period_start
             /\ price_history'[tf][p] = buffers[tf].candle
    BY <1>1, <2>2, BufferIsRow
  <2> QED
    BY <1>2, <2>1, <2>2, WriteRows
<1>3. ASSUME NEW price \in Price, NEW quantity \in Quantity, OnTrade(price, quantity)
      PROVE  IsRow(price_history'[tf][p], trades', tf, p, restarts')
  <2> DEFINE tr == [price |-> price, quantity |-> quantity, time |-> clock, run |-> restarts]
  <2>1. PICK due \in SUBSET {x \in Timeframe : buffers[x].has_data} : Write(due)
    BY <1>3 DEF OnTrade, ShouldFlush
  <2>2. trades' = Append(trades, tr) /\ restarts' = restarts
    BY <1>3 DEF OnTrade
  <2>3. tr \in TradeRow
    BY <1>1, PriceAssumption DEF TradeRow
  <2>4. IsRow(price_history'[tf][p], trades, tf, p, restarts)
    BY <1>2, <2>1
  <2> HIDE DEF tr
  <2> QED
    BY <1>1, <2>2, <2>3, <2>4, RowStays
<1>4. CASE FlushAll
  BY <1>2, <1>4 DEF FlushAll
<1>5. CASE Restart
  <2>1. /\ price_history' = price_history /\ trades' = trades /\ restarts' = restarts + 1
    BY <1>5 DEF Restart
  <2>2. IsRow(price_history[tf][p], trades, tf, p, restarts)
    BY <2>1 DEF RowsInv
  <2>3. [price |-> 0, quantity |-> 0, time |-> 0, run |-> 0] \in TradeRow
    BY DEF TradeRow
  <2>4. restarts + 1 \in Nat /\ restarts <= restarts + 1
    BY <1>1
  <2> QED
    BY <1>1, <2>1, <2>2, <2>3, <2>4, RowStays
<1>6. CASE Tick \/ UNCHANGED vars
  BY <1>6 DEF Tick, vars, RowsInv
<1> QED
  BY <1>3, <1>4, <1>5, <1>6 DEF Next

-----------------------------------------------------------------------------
(* While no write fails and the server does not stop, every trade's period *)
(* is in the buffer or in a row, and every row but the one of the period   *)
(* in the buffer is complete.                                              *)
Complete(tf) ==
  /\ \A k \in DOMAIN trades :
       \/ buffers[tf].has_data /\ buffers[tf].period_start = AlignToPeriod(tf, trades[k].time)
       \/ AlignToPeriod(tf, trades[k].time) \in DOMAIN price_history[tf]
  /\ \A p \in DOMAIN price_history[tf] :
       /\ IsAligned(p, tf)
       /\ buffers[tf].has_data /\ p <= buffers[tf].period_start
       /\ p # buffers[tf].period_start =>
            price_history[tf][p] = CandleOf(TradesOf(trades, tf, p, 0))

CompleteInv ==
  /\ faults \in Nat
  /\ faults = 0 /\ restarts = 0 => \A tf \in Timeframe : Complete(tf)

LEMMA WriteCompletes ==
  ASSUME NEW due \in SUBSET Timeframe, Write(due), faults \in Nat
  PROVE  /\ faults' \in Nat
         /\ faults' = 0 =>
              /\ faults = 0
              /\ \A tf \in Timeframe : price_history'[tf] =
                   IF tf \in due THEN WithRow(price_history[tf], buffers[tf]) ELSE price_history[tf]
<1>1. PICK lost \in SUBSET due :
        /\ faults' = faults + Cardinality(lost)
        /\ price_history' = [x \in Timeframe |->
             IF x \in due \ lost THEN WithRow(price_history[x], buffers[x]) ELSE price_history[x]]
  BY DEF Write
<1>2. IsFiniteSet(lost)
  BY PeriodAssumption, FS_Subset DEF Timeframe
<1>3. Cardinality(lost) \in Nat /\ (Cardinality(lost) = 0 => lost = {})
  BY <1>2, FS_CardinalityType, FS_EmptySet
<1> QED
  BY <1>1, <1>3

LEMMA OnTradeCompletes ==
  ASSUME Inv, Built, CompleteInv, NEW price \in Nat, NEW quantity \in Nat,
         OnTrade(price, quantity), faults' = 0, restarts' = 0, NEW tf \in Timeframe
  PROVE  Complete(tf)'
<1> DEFINE b == buffers[tf]
           q == AlignToPeriod(tf, clock)
           tr == [price |-> price, quantity |-> quantity, time |-> clock, run |-> restarts]
           due == {x \in Timeframe : ShouldFlush(x, buffers[x])}
<1>1. /\ trades' = Append(trades, tr) /\ restarts' = restarts
      /\ buffers'[tf] = Updated(tf, Unflushed(tf), price, quantity)
      /\ Write(due)
  BY DEF OnTrade, Unflushed
<1>2. /\ trades \in Seq(TradeRow) /\ clock \in Nat /\ restarts = 0
      /\ IsBuilt(b, trades, tf, clock, 0) /\ b.period_start \in Nat /\ b.has_data \in BOOLEAN
      /\ Period[tf] \in Nat \ {0}
  BY <1>1, PeriodAssumption DEF Inv, Typed, Built, IsBuilt, BufferType, Timeframe
<1>3. tr \in TradeRow /\ tr.time = clock /\ tr.run = 0
  BY <1>2 DEF TradeRow
<1>4. /\ faults = 0
      /\ price_history'[tf] = IF ShouldFlush(tf, b) THEN WithRow(price_history[tf], b)
                              ELSE price_history[tf]
  BY <1>1, WriteCompletes DEF CompleteInv
<1>5. Complete(tf)
  BY <1>2, <1>4 DEF CompleteInv
<1>6. buffers'[tf].has_data /\ buffers'[tf].period_start = q
  BY <1>1, UpdatedIsBuilt
<1>7. IsAligned(q, tf) /\ q \in Nat /\ q <= clock /\ clock < q + Period[tf]
  <2>1. IsAligned(q, tf) /\ q <= clock /\ clock < q + Period[tf]
    BY <1>2, AlignIs
  <2> QED
    BY <2>1, AlignedAreApart
<1>8. /\ b.period_start <= q
      /\ b.has_data /\ ~ShouldFlush(tf, b) => b.period_start = q
      /\ ShouldFlush(tf, b) => b.has_data /\ b.period_start < q
  <2>1. IsAligned(b.period_start, tf) /\ b.period_start <= clock
    BY <1>2 DEF IsBuilt
  <2>2. q < b.period_start <=> q + Period[tf] <= b.period_start
    BY <1>7, <2>1, AlignedAreApart
  <2>3. b.period_start <= q
    BY <1>2, <1>7, <2>1, <2>2
  <2>4. b.has_data /\ ~ShouldFlush(tf, b) => clock < b.period_start + Period[tf]
    BY <1>2 DEF ShouldFlush
  <2>5. ShouldFlush(tf, b) => b.has_data /\ b.period_start + Period[tf] <= clock
    BY <1>2 DEF ShouldFlush
  <2>6. b.has_data /\ ~ShouldFlush(tf, b) => b.period_start = q
    BY <1>2, <2>1, <2>4, AlignIs
  <2>7. ShouldFlush(tf, b) => b.period_start < q
    BY <1>2, <1>7, <2>3, <2>5
  <2> QED
    BY <2>3, <2>5, <2>6, <2>7
<1> HIDE DEF b, q, tr, due
<1>9. \A p : IsAligned(p, tf) /\ p < q => TradesOf(trades', tf, p, 0) = TradesOf(trades, tf, p, 0)
  <2> SUFFICES ASSUME NEW p, IsAligned(p, tf), p < q
               PROVE  TradesOf(trades', tf, p, 0) = TradesOf(trades, tf, p, 0)
    OBVIOUS
  <2>1. p \in Nat /\ p + Period[tf] <= q
    BY <1>7, AlignedAreApart
  <2>2. ~(clock < p + Period[tf])
    BY <1>2, <1>7, <2>1
  <2> QED
    BY <1>1, <1>2, <1>3, <2>2, TradesOfAppend
<1>10. ASSUME NEW p \in DOMAIN price_history'[tf]
       PROVE  /\ IsAligned(p, tf) /\ p <= q
              /\ p # q => price_history'[tf][p] = CandleOf(TradesOf(trades', tf, p, 0))
  <2>1. CASE p \in DOMAIN price_history[tf] /\ ~(ShouldFlush(tf, b) /\ p = b.period_start)
    <3>1. price_history'[tf][p] = price_history[tf][p]
      BY <1>4, <2>1 DEF WithRow
    <3>2. /\ IsAligned(p, tf) /\ b.has_data /\ p <= b.period_start
          /\ p # b.period_start => price_history[tf][p] = CandleOf(TradesOf(trades, tf, p, 0))
      BY <1>5, <2>1 DEF Complete, b
    <3>3. p \in Nat
      BY <3>2, AlignedAreApart
    <3>4. p <= q
      BY <1>2, <1>7, <1>8, <3>2, <3>3
    <3>5. p # q => p # b.period_start /\ p < q
      BY <1>7, <1>8, <2>1, <3>2, <3>3, <3>4
    <3> QED
      BY <1>9, <3>1, <3>2, <3>4, <3>5
  <2>2. CASE ShouldFlush(tf, b) /\ p = b.period_start
    <3>1. price_history'[tf][p] = b.candle
      BY <1>4, <2>2 DEF WithRow
    <3>2. b.candle = CandleOf(TradesOf(trades, tf, p, 0)) /\ IsAligned(p, tf)
      BY <1>2, <1>8, <2>2 DEF IsBuilt
    <3> QED
      BY <1>2, <1>7, <1>8, <1>9, <2>2, <3>1, <3>2
  <2> QED
    BY <1>4, <2>1, <2>2 DEF WithRow
<1>11. ASSUME NEW k \in DOMAIN trades'
       PROVE  \/ q = AlignToPeriod(tf, trades'[k].time)
              \/ AlignToPeriod(tf, trades'[k].time) \in DOMAIN price_history'[tf]
  <2>1. (k \in DOMAIN trades /\ trades'[k] = trades[k]) \/ trades'[k] = tr
    BY <1>1, <1>2, <1>3, AppendProperties, LenProperties
  <2>2. CASE trades'[k] = tr
    BY <1>3, <2>2 DEF q
  <2>3. CASE k \in DOMAIN trades /\ trades'[k] = trades[k]
    <3> DEFINE p == AlignToPeriod(tf, trades[k].time)
    <3> HIDE DEF p
    <3>1. (b.has_data /\ b.period_start = p) \/ p \in DOMAIN price_history[tf]
      BY <1>5, <2>3 DEF Complete, b, p
    <3>2. p = q \/ p \in DOMAIN price_history'[tf]
      BY <1>4, <1>8, <3>1 DEF WithRow
    <3> QED
      BY <2>3, <3>2 DEF p
  <2> QED
    BY <2>1, <2>2, <2>3
<1> QED
  BY <1>6, <1>10, <1>11 DEF Complete

LEMMA FlushCompletes ==
  ASSUME Inv, Built, CompleteInv, FlushAll, faults' = 0, restarts' = 0, NEW tf \in Timeframe
  PROVE  Complete(tf)'
<1> DEFINE b == buffers[tf]
           due == {x \in Timeframe : buffers[x].has_data}
<1>1. Write(due) /\ UNCHANGED <<buffers, trades, restarts>>
  BY DEF FlushAll
<1>2. /\ faults = 0
      /\ price_history'[tf] = IF b.has_data THEN WithRow(price_history[tf], b)
                              ELSE price_history[tf]
  BY <1>1, WriteCompletes DEF CompleteInv
<1>3. Complete(tf)
  BY <1>1, <1>2 DEF CompleteInv
<1>4. b \in BufferType /\ IsAligned(b.period_start, tf)
  BY DEF Built, IsBuilt
<1>5. b.period_start \in Nat
  BY <1>4 DEF BufferType
<1> HIDE DEF b, due
<1>6. ASSUME NEW p \in DOMAIN price_history'[tf]
      PROVE  /\ IsAligned(p, tf) /\ b.has_data /\ p <= b.period_start
             /\ p # b.period_start => price_history'[tf][p] = CandleOf(TradesOf(trades, tf, p, 0))
  <2>1. CASE p = b.period_start /\ b.has_data
    BY <1>4, <1>5, <2>1
  <2>2. CASE ~(p = b.period_start /\ b.has_data)
    <3>1. p \in DOMAIN price_history[tf] /\ price_history'[tf][p] = price_history[tf][p]
      BY <1>2, <2>2 DEF WithRow
    <3> QED
      BY <1>3, <3>1 DEF Complete, b
  <2> QED
    BY <2>1, <2>2
<1>7. DOMAIN price_history[tf] \subseteq DOMAIN price_history'[tf]
  BY <1>2 DEF WithRow
<1> QED
  BY <1>1, <1>3, <1>6, <1>7 DEF Complete, b

LEMMA NextComplete == Inv /\ Built /\ CompleteInv /\ [Next]_vars => CompleteInv'
<1> SUFFICES ASSUME Inv, Built, CompleteInv, [Next]_vars PROVE CompleteInv'
  OBVIOUS
<1>1. ASSUME NEW price \in Price, NEW quantity \in Quantity, OnTrade(price, quantity)
      PROVE  CompleteInv'
  <2>1. faults' \in Nat
    BY <1>1, WriteCompletes DEF OnTrade, CompleteInv
  <2>2. price \in Nat /\ quantity \in Nat
    BY PriceAssumption
  <2> QED
    BY <1>1, <2>1, <2>2, OnTradeCompletes DEF CompleteInv
<1>2. CASE FlushAll
  <2>1. faults' \in Nat
    BY <1>2, WriteCompletes DEF FlushAll, CompleteInv
  <2> QED
    BY <1>2, <2>1, FlushCompletes DEF CompleteInv
<1>3. CASE Restart
  BY <1>3 DEF Restart, CompleteInv, Built
<1>4. CASE Tick \/ UNCHANGED vars
  BY <1>4 DEF Tick, vars, CompleteInv, Complete
<1> QED
  BY <1>1, <1>2, <1>3, <1>4 DEF Next

(* A timeframe has finitely many rows.                                     *)
FiniteRows ==
  \A tf \in Timeframe :
    IsFiniteSet(DOMAIN price_history[tf]) /\ DOMAIN price_history[tf] \subseteq Nat

LEMMA NextFiniteRows == Inv /\ FiniteRows /\ [Next]_vars => FiniteRows'
<1> SUFFICES ASSUME Inv, FiniteRows, [Next]_vars, NEW tf \in Timeframe
             PROVE  IsFiniteSet(DOMAIN price_history'[tf]) /\ DOMAIN price_history'[tf] \subseteq Nat
  BY DEF FiniteRows
<1>1. ASSUME NEW due \in SUBSET Timeframe, Write(due)
      PROVE  IsFiniteSet(DOMAIN price_history'[tf]) /\ DOMAIN price_history'[tf] \subseteq Nat
  <2>1. \/ price_history'[tf] = price_history[tf]
        \/ price_history'[tf] = WithRow(price_history[tf], buffers[tf])
    BY <1>1 DEF Write
  <2>2. /\ IsFiniteSet(DOMAIN price_history[tf]) /\ DOMAIN price_history[tf] \subseteq Nat
        /\ buffers[tf].period_start \in Nat
    BY DEF FiniteRows, Inv, Typed, BufferType
  <2>3. /\ DOMAIN WithRow(price_history[tf], buffers[tf])
             = DOMAIN price_history[tf] \cup {buffers[tf].period_start}
        /\ IsFiniteSet(DOMAIN price_history[tf] \cup {buffers[tf].period_start})
    BY <2>2, FS_AddElement DEF WithRow
  <2> QED
    BY <2>1, <2>2, <2>3
<1>2. CASE \E price \in Price, quantity \in Quantity : OnTrade(price, quantity)
  BY <1>1, <1>2 DEF OnTrade
<1>3. CASE FlushAll
  BY <1>1, <1>3 DEF FlushAll
<1>4. CASE Tick \/ Restart \/ UNCHANGED vars
  BY <1>4 DEF Tick, Restart, vars, FiniteRows
<1> QED
  BY <1>2, <1>3, <1>4 DEF Next

(* The invariant of the candles                                            *)
Candles == Inv /\ Built /\ RowsInv /\ CompleteInv /\ FiniteRows

LEMMA CandlesHold == Spec => []Candles
<1>1. Init => RowsInv /\ CompleteInv
  BY DEF Init, RowsInv, CompleteInv, Complete
<1>2. Init => FiniteRows
  BY FS_EmptySet DEF Init, FiniteRows
<1>3. Init => Candles
  BY <1>1, <1>2, InitInv, InitBuilt DEF Candles
<1>4. Candles /\ [Next]_vars => Candles'
  BY NextInv, NextBuilt, NextRows, NextComplete, NextFiniteRows DEF Candles
<1> QED
  BY <1>3, <1>4, PTL DEF Spec

-----------------------------------------------------------------------------
(* A write touches the row of a buffer's period, which no trade has passed.*)
LEMMA WriteIsFinal ==
  ASSUME Inv, NEW due \in SUBSET {tf \in Timeframe : buffers[tf].has_data}, Write(due),
         NEW tf \in Timeframe, NEW p \in DOMAIN price_history[tf],
         NEW i \in DOMAIN trades, trades[i].time >= p + Period[tf]
  PROVE  price_history'[tf][p] = price_history[tf][p]
<1>1. PICK lost \in SUBSET due :
        price_history' = [x \in Timeframe |->
          IF x \in due \ lost THEN WithRow(price_history[x], buffers[x]) ELSE price_history[x]]
  BY DEF Write
<1>2. CASE tf \in due \ lost
  <2>1. price_history'[tf] = WithRow(price_history[tf], buffers[tf])
    BY <1>1, <1>2
  <2>2. p # buffers[tf].period_start
    <3> SUFFICES ASSUME p = buffers[tf].period_start PROVE FALSE
      OBVIOUS
    <3>1. trades[i].time < p + Period[tf]
      BY <1>2 DEF Inv, BufferIsLast
    <3>2. p \in Nat /\ trades[i].time \in Nat
      <4>1. buffers[tf] \in BufferType
        BY DEF Inv, Typed
      <4>2. trades[i] \in TradeRow
        BY DEF Inv, Typed
      <4> QED
        BY <4>1, <4>2 DEF BufferType, TradeRow
    <3>3. Period[tf] \in Nat
      BY PeriodAssumption DEF Timeframe
    <3> QED
      BY <3>1, <3>2, <3>3
  <2> QED
    BY <2>1, <2>2 DEF WithRow
<1>3. CASE tf \notin due \ lost
  BY <1>1, <1>3
<1> QED
  BY <1>2, <1>3

Final ==
  \A tf \in Timeframe : \A p \in DOMAIN price_history[tf] :
    (\E k \in DOMAIN trades : trades[k].time >= p + Period[tf]) =>
      price_history'[tf][p] = price_history[tf][p]

LEMMA StepIsFinal == Inv /\ [Next]_vars => [Final]_vars
<1> SUFFICES ASSUME Inv, [Next]_vars,
                    NEW tf \in Timeframe, NEW p \in DOMAIN price_history[tf],
                    NEW i \in DOMAIN trades, trades[i].time >= p + Period[tf]
             PROVE  price_history'[tf][p] = price_history[tf][p]
  BY DEF Final
<1>1. ASSUME NEW price \in Price, NEW quantity \in Quantity, OnTrade(price, quantity)
      PROVE  price_history'[tf][p] = price_history[tf][p]
  <2>1. PICK due \in SUBSET {x \in Timeframe : buffers[x].has_data} : Write(due)
    BY <1>1 DEF OnTrade, ShouldFlush
  <2> QED
    BY <2>1, WriteIsFinal
<1>2. CASE FlushAll
  BY <1>2, WriteIsFinal DEF FlushAll
<1>3. CASE Tick \/ Restart \/ UNCHANGED vars
  BY <1>3 DEF Tick, Restart, vars
<1> QED
  BY <1>1, <1>2, <1>3 DEF Next

-----------------------------------------------------------------------------
(* What is computed of prices                                              *)

Pair == Nat \X Nat

Charged == {r \in Pair : r[2] > 0}   \* the earlier price is above zero
Priced  == {r \in Pair : r[1] > 0 /\ r[2] > 0}

LEMMA RatiosType ==
  ASSUME NEW s \in Seq(Nat)
  PROVE  /\ Ratios(s) \in Seq(Pair)
         /\ \A i \in DOMAIN Ratios(s) :
              i \in 1 .. Len(s) - 1 /\ Ratios(s)[i] = <<s[i + 1], s[i]>>
<1>1. Len(s) \in Nat /\ \A i \in 1 .. Len(s) : s[i] \in Nat
  BY LenProperties, ElementOfSeq
<1>2. CASE Len(s) < 2
  BY <1>2 DEF Ratios
<1>3. CASE ~(Len(s) < 2)
  <2> DEFINE n == Len(s) - 1
             q == [i \in 1 .. n |-> <<s[i + 1], s[i]>>]
  <2>1. n \in Nat /\ Ratios(s) = q
    BY <1>1, <1>3 DEF Ratios
  <2>2. \A i \in 1 .. n : <<s[i + 1], s[i]>> \in Pair
    BY <1>1 DEF Pair
  <2>3. q \in [1 .. n -> Pair]
    BY <2>2
  <2>4. q \in Seq(Pair)
    <3> HIDE DEF q, n
    <3> QED
      BY <2>1, <2>3, SeqDef
  <2> QED
    BY <2>1, <2>4
<1> QED
  BY <1>2, <1>3

LEMMA PositiveIs ==
  ASSUME NEW q \in Seq(Pair)
  PROVE  PositiveEarlier(q) = Among(q, Charged) /\ PositiveBoth(q) = Among(q, Priced)
<1>1. \A i \in DOMAIN q : q[i] \in Pair
  BY ElementOfSeq, LenProperties
<1>2. /\ {i \in DOMAIN q : q[i][2] > 0} = {i \in DOMAIN q : q[i] \in Charged}
      /\ {i \in DOMAIN q : q[i][1] > 0 /\ q[i][2] > 0} = {i \in DOMAIN q : q[i] \in Priced}
  BY <1>1 DEF Charged, Priced
<1> QED
  BY <1>2 DEF PositiveEarlier, PositiveBoth, Where, Among

(* Prices that vary among those above zero vary from one to the next.      *)
LEMMA VolatilityIsDefined ==
  ASSUME NEW s \in Seq(Nat)
  PROVE  Volatility(s) # "NaN" /\ (Volatility(s) = "some" => HasImpact(s))
<1> DEFINE q == Ratios(s)
           both == Among(q, Priced)
           earlier == Among(q, Charged)
<1>1. q \in Seq(Pair) /\ PositiveEarlier(q) = earlier /\ PositiveBoth(q) = both
  BY RatiosType, PositiveIs
<1>2. /\ \A k \in DOMAIN both : both[k] \in Priced /\ \E i \in DOMAIN q : both[k] = q[i]
      /\ \A i \in DOMAIN q : q[i] \in Charged => \E k \in DOMAIN earlier : earlier[k] = q[i]
  BY <1>1, AmongMembers
<1>3. Volatility(s) = IF both = <<>> THEN "none" ELSE Deviation(both)
  BY <1>1 DEF Volatility
<1>4. HasImpact(s) <=> \E i \in DOMAIN earlier : earlier[i][1] # earlier[i][2]
  BY <1>1 DEF HasImpact
<1> HIDE DEF q, both, earlier
<1>5. \A k \in DOMAIN both : /\ both[k][1] \in Nat /\ both[k][2] \in Nat
                             /\ both[k][1] # 0 /\ both[k] \in Charged
  BY <1>2 DEF Priced, Charged, Pair
<1>6. Volatility(s) # "NaN"
  BY <1>3, <1>5 DEF Deviation
<1>7. ASSUME Volatility(s) = "some" PROVE HasImpact(s)
  <2>1. PICK i \in DOMAIN both, j \in DOMAIN both :
          both[i][1] * both[j][2] # both[j][1] * both[i][2]
    BY <1>3, <1>5, <1>7 DEF Deviation
  <2>2. PICK k \in DOMAIN both : both[k][1] # both[k][2]
    <3> SUFFICES ASSUME both[i][1] = both[i][2], both[j][1] = both[j][2] PROVE FALSE
      OBVIOUS
    <3>1. both[i][1] * both[j][2] = both[j][1] * both[i][2]
      BY <1>5
    <3> QED
      BY <2>1, <3>1
  <2>3. PICK m \in DOMAIN earlier : earlier[m] = both[k]
    BY <1>2, <1>5
  <2> QED
    BY <1>4, <2>2, <2>3
<1> QED
  BY <1>6, <1>7

(* A discount is not a number only where a price fell to zero.             *)
LEMMA DiscountIsDefined ==
  ASSUME NEW s \in Seq(Nat), Discount(s) = "NaN"
  PROVE  \E i \in 1 .. Len(s) - 1 : s[i] > 0 /\ s[i + 1] = 0
<1> DEFINE q == Ratios(s)
           earlier == Among(q, Charged)
<1>1. q \in Seq(Pair) /\ PositiveEarlier(q) = earlier
  BY RatiosType, PositiveIs
<1>2. \A k \in DOMAIN earlier :
        earlier[k] \in Charged /\ \E i \in DOMAIN q : earlier[k] = q[i]
  BY <1>1, AmongMembers
<1>3. Discount(s) = IF earlier = <<>> THEN "none" ELSE Deviation(earlier)
  BY <1>1 DEF Discount
<1> HIDE DEF earlier
<1>4. PICK k \in DOMAIN earlier : earlier[k][1] = 0
  BY <1>3 DEF Deviation
<1>5. PICK i \in DOMAIN q : earlier[k] = q[i] /\ q[i][1] = 0 /\ q[i][2] > 0
  BY <1>2, <1>4 DEF Charged
<1>6. i \in 1 .. Len(s) - 1 /\ q[i] = <<s[i + 1], s[i]>>
  BY RatiosType
<1> QED
  BY <1>5, <1>6

-----------------------------------------------------------------------------
(* The newest rows, newest first                                           *)
Newest(rows, limit) ==
  [i \in 1 .. Min({limit, Cardinality(rows)}) |->
     CHOOSE p \in rows : Cardinality({q \in rows : q > p}) = i - 1]

LEMMA NewestAre ==
  ASSUME NEW rows, IsFiniteSet(rows), rows \subseteq Nat, NEW limit \in Nat
  PROVE  /\ Newest(rows, limit) \in Seq(rows)
         /\ \A i, j \in DOMAIN Newest(rows, limit) :
              i < j => Newest(rows, limit)[j] < Newest(rows, limit)[i]
         /\ \A i \in DOMAIN Newest(rows, limit) : \A p \in rows :
              p >= Newest(rows, limit)[i] => \E j \in 1 .. i : Newest(rows, limit)[j] = p
<1> DEFINE n == Min({limit, Cardinality(rows)})
           c == Newest(rows, limit)
           place(p) == Cardinality(Above(rows, p))
<1>1. /\ Cardinality(rows) \in Nat
      /\ \A p \in rows : place(p) \in 0 .. Cardinality(rows) - 1
      /\ \A p, q \in rows : p < q <=> place(q) < place(p)
      /\ \A i \in 1 .. Cardinality(rows) : \E p \in rows : place(p) = i - 1
  BY AboveCounts
<1>2. n \in Nat /\ n <= Cardinality(rows)
  <2> DEFINE S == {limit, Cardinality(rows)}
  <2>1. IsFiniteSet(S)
    <3>1. IsFiniteSet({limit}) /\ S = {limit} \cup {Cardinality(rows)}
      BY FS_Singleton
    <3> QED
      BY <3>1, FS_AddElement
  <2>2. S # {} /\ S \subseteq Nat /\ Cardinality(rows) \in S
    BY <1>1
  <2> HIDE DEF S
  <2>3. Min(S) \in S /\ Min(S) <= Cardinality(rows)
    BY <2>1, <2>2, ExtremesExist
  <2> QED
    BY <2>2, <2>3 DEF S
<1>3. c = [i \in 1 .. n |-> CHOOSE p \in rows : place(p) = i - 1]
  BY DEF Newest, Above
<1> HIDE DEF n, place, c
<1>4. \A p \in rows : p \in Nat /\ place(p) \in Nat
  BY <1>1
<1>5. \A i \in 1 .. n : c[i] \in rows /\ place(c[i]) = i - 1
  <2> SUFFICES ASSUME NEW i \in 1 .. n PROVE c[i] \in rows /\ place(c[i]) = i - 1
    OBVIOUS
  <2>1. i \in 1 .. Cardinality(rows)
    BY <1>1, <1>2
  <2>2. \E p \in rows : place(p) = i - 1
    BY <1>1, <2>1
  <2>3. c[i] = CHOOSE p \in rows : place(p) = i - 1
    BY <1>3
  <2> QED
    BY <2>2, <2>3
<1>6. c \in Seq(rows) /\ DOMAIN c = 1 .. n
  <2>1. c \in [1 .. n -> rows]
    BY <1>3, <1>5
  <2> QED
    BY <1>2, <2>1, SeqDef
<1>7. ASSUME NEW i \in 1 .. n, NEW j \in 1 .. n, i < j
      PROVE  c[j] < c[i]
  <2>1. place(c[i]) < place(c[j])
    BY <1>2, <1>5, <1>7
  <2> QED
    BY <1>1, <1>5, <2>1
<1>8. ASSUME NEW i \in 1 .. n, NEW p \in rows, p >= c[i]
      PROVE  \E j \in 1 .. i : c[j] = p
  <2>1. c[i] \in rows /\ c[i] \in Nat /\ p \in Nat /\ place(c[i]) = i - 1 /\ place(p) \in Nat
    BY <1>4, <1>5
  <2>2. ~(p < c[i])
    BY <1>8, <2>1
  <2>3. ~(i - 1 < place(p))
    BY <1>1, <2>1, <2>2
  <2>4. PICK j \in 1 .. i : j = place(p) + 1
    BY <1>2, <2>1, <2>3
  <2>5. j \in 1 .. n /\ place(p) = j - 1
    BY <1>2, <2>1, <2>4
  <2>6. c[j] \in rows /\ place(c[j]) = place(p)
    BY <1>5, <2>5
  <2>7. c[j] \in Nat
    BY <1>4, <2>6
  <2>10. \A x \in Nat : ~(x < x)
    OBVIOUS
  <2>8. ~(c[j] < p) /\ ~(p < c[j])
    BY <1>1, <2>1, <2>6, <2>10
  <2>9. c[j] = p
    BY <2>1, <2>7, <2>8
  <2> QED
    BY <2>9
<1> QED
  BY <1>6, <1>7, <1>8 DEF c

LEMMA ReverseType ==
  ASSUME NEW S, NEW s \in Seq(S)
  PROVE  Reverse(s) \in Seq(S)
<1>1. Len(s) \in Nat /\ \A i \in 1 .. Len(s) : s[i] \in S
  BY LenProperties, ElementOfSeq
<1>2. Reverse(s) \in [1 .. Len(s) -> S]
  BY <1>1 DEF Reverse
<1> QED
  BY <1>1, <1>2, SeqDef

(* The closing prices read from the rows                                   *)
LEMMA RowType ==
  ASSUME Inv, RowsInv, NEW tf \in Timeframe, NEW p \in DOMAIN price_history[tf]
  PROVE  price_history[tf][p] \in Candle
<1>1. trades \in Seq(TradeRow) /\ IsRow(price_history[tf][p], trades, tf, p, restarts)
  BY DEF Inv, Typed, RowsInv
<1>2. PICK run \in 0 .. restarts :
        \E n \in 1 .. Len(TradesOf(trades, tf, p, run)) :
          price_history[tf][p] = CandleOf(SubSeq(TradesOf(trades, tf, p, run), 1, n))
  BY <1>1 DEF IsRow
<1> DEFINE t == TradesOf(trades, tf, p, run)
<1>3. t \in Seq(TradeRow)
  BY <1>1, RowsAtIsSeq DEF TradesOf, Among
<1>4. PICK n \in 1 .. Len(t) : price_history[tf][p] = CandleOf(SubSeq(t, 1, n))
  BY <1>2
<1> HIDE DEF t
<1>5. SubSeq(t, 1, n) \in Seq(TradeRow) /\ SubSeq(t, 1, n) # <<>>
  <2>1. n \in Nat /\ n # 0 /\ n \in 1 .. Len(t) /\ Len(t) \in Nat
    BY <1>3, LenProperties
  <2>2. SubSeq(t, 1, n) \in Seq(TradeRow) /\ Len(SubSeq(t, 1, n)) = n
    BY <1>3, <2>1, SubSeqProperties
  <2> QED
    BY <2>1, <2>2, EmptySeq
<1> QED
  BY <1>4, <1>5, CandleOfTrades

LEMMA ClosesType ==
  ASSUME Inv, RowsInv, FiniteRows, NEW tf \in Timeframe
  PROVE  Closes(tf) \in Seq(Nat)
<1> DEFINE rows == DOMAIN price_history[tf]
           c == GetCandles(tf, Window)
           closes == [i \in DOMAIN c |-> price_history[tf][c[i]].close]
<1>1. c = Newest(rows, Window)
  BY DEF GetCandles, Newest
<1>2. c \in Seq(rows)
  BY <1>1, NewestAre, WindowAssumption DEF FiniteRows
<1>3. \A p \in rows : price_history[tf][p].close \in Nat
  BY RowType DEF Candle
<1>4. Closes(tf) = Reverse(closes)
  BY DEF Closes
<1> HIDE DEF c, rows
<1>5. Len(c) \in Nat /\ DOMAIN c = 1 .. Len(c) /\ \A i \in DOMAIN c : c[i] \in rows
  BY <1>2, LenProperties, ElementOfSeq
<1>6. closes \in [1 .. Len(c) -> Nat]
  BY <1>3, <1>5
<1>7. closes \in Seq(Nat)
  BY <1>5, <1>6, SeqDef
<1> QED
  BY <1>4, <1>7, ReverseType

-----------------------------------------------------------------------------
(* Composed with the commits, the service sees calls of on_trade as it     *)
(* does by itself: a commit changes nothing of it, and a trade reported is *)
(* one of a committed batch.                                               *)
LEMMA MarketStep ==
  ASSUME pending \in Seq(Bill), [MarketNext]_marketVars
  PROVE  [Next]_vars /\ (pending \in Seq(Bill))'
<1>1. ASSUME NEW batch \in Batches, Commit(batch)
      PROVE  UNCHANGED vars /\ (pending \in Seq(Bill))'
  <2>1. batch \in Seq(Bill)
    BY BatchesAssumption
  <2> QED
    BY <1>1, <2>1 DEF Commit
<1>2. CASE Report
  <2>1. Head(pending) \in Bill /\ Tail(pending) \in Seq(Bill)
    BY <1>2 DEF Report
  <2>2. Head(pending).price \in Price /\ Head(pending).quantity \in Quantity
    BY <2>1 DEF Bill
  <2>3. OnTrade(Head(pending).price, Head(pending).quantity) /\ pending' = Tail(pending)
    BY <1>2 DEF Report
  <2>4. Next
    BY <2>2, <2>3 DEF Next
  <2> QED
    BY <2>1, <2>3, <2>4
<1>3. CASE MarketRestart
  BY <1>3 DEF MarketRestart, Next
<1>4. CASE (Tick \/ FlushAll) /\ UNCHANGED market
  BY <1>4 DEF market, Next
<1>5. CASE UNCHANGED marketVars
  BY <1>5 DEF marketVars, market
<1> QED
  BY <1>1, <1>2, <1>3, <1>4, <1>5 DEF MarketNext

(* The candles of a market are those of the service alone: whatever        *)
(* execute_trades commits and reports, and whichever callbacks throw, the  *)
(* PriceAggregationService's steps are those of its own specification.     *)
THEOREM MarketImplementsAggregation == MarketSpec => Spec
<1>1. MarketInit => Init /\ pending \in Seq(Bill)
  BY DEF MarketInit
<1>2. pending \in Seq(Bill) /\ [MarketNext]_marketVars => [Next]_vars /\ (pending \in Seq(Bill))'
  BY MarketStep
<1> QED
  BY <1>1, <1>2, PTL DEF MarketSpec, Spec

(* A stored candle is final once a trade has come after its period:        *)
(* neither on_trade nor flush_all_candles of this run of the server, nor   *)
(* any after a restart, replaces its row, for any timeframes and trades.   *)
THEOREM CandlesAreFinal == MarketSpec => ClosedCandlesAreFinal
<1>1. Spec => ClosedCandlesAreFinal
  BY InitInv, NextInv, StepIsFinal, PTL DEF Spec, ClosedCandlesAreFinal, Final
<1> QED
  BY <1>1, MarketImplementsAggregation, PTL

(* A buffer always holds the trades of one period and all of them, for any *)
(* timeframes and trades, whatever happened to the candles before it.      *)
THEOREM BuffersHoldTheirPeriod == MarketSpec => []BuffersAreExact
<1>1. Candles => BuffersAreExact
  <2> SUFFICES ASSUME Candles, NEW tf \in Timeframe
               PROVE  IF buffers[tf].has_data
                      THEN buffers[tf].candle = CandleOf(TradesIn(tf, buffers[tf].period_start, restarts))
                      ELSE \A k \in DOMAIN trades : trades[k].run # restarts
    BY DEF BuffersAreExact
  <2>1. IsBuilt(buffers[tf], trades, tf, clock, restarts) /\ trades \in Seq(TradeRow)
    BY DEF Candles, Built, Inv, Typed
  <2>2. TradesIn(tf, buffers[tf].period_start, restarts)
          = TradesOf(trades, tf, buffers[tf].period_start, restarts)
    BY <2>1, TradesInIs
  <2> QED
    BY <2>1, <2>2 DEF IsBuilt
<1> QED
  BY <1>1, CandlesHold, MarketImplementsAggregation, PTL

(* A stored candle never mixes periods or runs of the server, whichever    *)
(* writes fail and whenever the server stops.                              *)
THEOREM RowsHoldTheirPeriod == MarketSpec => []RowsAreExact
<1>1. Candles => RowsAreExact
  <2> SUFFICES ASSUME Candles, NEW tf \in Timeframe, NEW p \in DOMAIN price_history[tf]
               PROVE  \E run \in 0 .. restarts :
                        \E n \in 1 .. Len(TradesIn(tf, p, run)) :
                          price_history[tf][p] = CandleOf(SubSeq(TradesIn(tf, p, run), 1, n))
    BY DEF RowsAreExact
  <2>1. trades \in Seq(TradeRow) /\ IsRow(price_history[tf][p], trades, tf, p, restarts)
    BY DEF Candles, Inv, Typed, RowsInv
  <2>2. \A run : TradesIn(tf, p, run) = TradesOf(trades, tf, p, run)
    BY <2>1, TradesInIs
  <2> QED
    BY <2>1, <2>2 DEF IsRow
<1> QED
  BY <1>1, CandlesHold, MarketImplementsAggregation, PTL

(* As long as no write failed and the server did not stop, every trade     *)
(* on_trade was told of is in the chart.                                   *)
THEOREM NoTradeIsLost == MarketSpec => []EveryTradeIsCharted
<1>1. Candles => EveryTradeIsCharted
  <2> SUFFICES ASSUME Candles, faults = 0, restarts = 0,
                      NEW tf \in Timeframe, NEW k \in DOMAIN trades,
                      NEW p, p = AlignToPeriod(tf, trades[k].time)
               PROVE  \/ buffers[tf].has_data /\ buffers[tf].period_start = p
                      \/ /\ p \in DOMAIN price_history[tf]
                         /\ price_history[tf][p] = CandleOf(TradesIn(tf, p, 0))
    BY DEF EveryTradeIsCharted
  <2>1. Complete(tf) /\ trades \in Seq(TradeRow)
    BY DEF Candles, CompleteInv, Inv, Typed
  <2>2. \A run : TradesIn(tf, p, run) = TradesOf(trades, tf, p, run)
    BY <2>1, TradesInIs
  <2> QED
    BY <2>1, <2>2 DEF Complete
<1> QED
  BY <1>1, CandlesHold, MarketImplementsAggregation, PTL

-----------------------------------------------------------------------------
(* The two records of the trades.  Unless a callback threw or the server   *)
(* stopped, the trades table holds those on_trade was told of and then     *)
(* those it is still to be told of, each no later than it was told of.     *)
Executed == [price : Nat, quantity : Nat, executed_at : Nat]

TableTyped ==
  /\ executed \in Seq(Executed)
  /\ \A k \in DOMAIN executed : executed[k].executed_at <= clock
  /\ pending \in Seq(Bill)
  /\ missed \in Nat

SameTrade(row, tr) == row.price = tr.price /\ row.quantity = tr.quantity

Told ==
  missed = 0 /\ restarts = 0 =>
    /\ Len(executed) = Len(trades) + Len(pending)
    /\ \A k \in DOMAIN trades :
         SameTrade(executed[k], trades[k]) /\ executed[k].executed_at <= trades[k].time
    /\ \A i \in DOMAIN pending : SameTrade(executed[Len(trades) + i], pending[i])

Table == TableTyped /\ Told

LEMMA BillType ==
  ASSUME NEW b \in Bill
  PROVE  b.price \in Nat /\ b.quantity \in Nat /\ b.price \in Price /\ b.quantity \in Quantity
BY PriceAssumption DEF Bill

LEMMA CommitKeepsTable ==
  ASSUME Inv, Table, restarts \in Nat, NEW batch \in Batches, Commit(batch)
  PROVE  Table'
<1> DEFINE new == [i \in DOMAIN batch |-> [price |-> batch[i].price,
                      quantity |-> batch[i].quantity, executed_at |-> clock]]
<1>1. /\ batch \in Seq(Bill) /\ Len(batch) \in Nat /\ DOMAIN batch = 1 .. Len(batch)
      /\ \A i \in DOMAIN batch : batch[i] \in Bill
  BY BatchesAssumption, LenProperties, ElementOfSeq
<1>2. /\ executed \in Seq(Executed) /\ trades \in Seq(TradeRow) /\ clock \in Nat
      /\ pending = <<>> /\ pending \in Seq(Bill) /\ missed \in Nat
  BY DEF Table, TableTyped, Inv, Typed, Commit
<1>3. /\ executed' = executed \o new /\ UNCHANGED <<trades, clock, restarts>>
      /\ \/ pending' = batch /\ missed' = missed
         \/ pending' = pending /\ missed' = missed + 1
  BY DEF Commit, vars
<1>4. new \in Seq(Executed) /\ Len(new) = Len(batch)
      /\ \A i \in 1 .. Len(batch) : SameTrade(new[i], batch[i]) /\ new[i].executed_at = clock
  <2>1. \A i \in DOMAIN batch : new[i] \in Executed
    BY <1>1, <1>2, BillType DEF Executed
  <2>2. new \in [1 .. Len(batch) -> Executed]
    BY <1>1, <2>1
  <2>3. new \in Seq(Executed)
    BY <1>1, <2>2, SeqDef
  <2> QED
    BY <1>1, <2>3 DEF SameTrade
<1> HIDE DEF new
<1>5. /\ executed' \in Seq(Executed) /\ Len(executed) \in Nat
      /\ Len(executed') = Len(executed) + Len(batch)
      /\ \A k \in 1 .. Len(executed) : executed'[k] = executed[k]
      /\ \A i \in 1 .. Len(batch) : executed'[Len(executed) + i] = new[i]
  <2>1. Len(executed) \in Nat /\ Len(batch) \in Nat /\ executed' = executed \o new
    BY <1>1, <1>2, <1>3, LenProperties
  <2>2. /\ executed \o new \in Seq(Executed)
        /\ Len(executed \o new) = Len(executed) + Len(batch)
        /\ \A i \in 1 .. Len(executed) + Len(batch) :
             (executed \o new)[i] = IF i <= Len(executed) THEN executed[i]
                                    ELSE new[i - Len(executed)]
    <3>1. \A s, t \in Seq(Executed) :
            /\ s \o t \in Seq(Executed) /\ Len(s \o t) = Len(s) + Len(t)
            /\ \A i \in 1 .. Len(s) + Len(t) :
                 (s \o t)[i] = IF i <= Len(s) THEN s[i] ELSE t[i - Len(s)]
      BY ConcatProperties
    <3>2. executed \in Seq(Executed) /\ new \in Seq(Executed) /\ Len(new) = Len(batch)
      BY <1>2, <1>4
    <3> QED
      BY <3>1, <3>2, ZenonT(60)
  <2>3. \A k \in 1 .. Len(executed) : k \in 1 .. Len(executed) + Len(batch) /\ k <= Len(executed)
    BY <2>1
  <2>4. \A i \in 1 .. Len(batch) :
          /\ Len(executed) + i \in 1 .. Len(executed) + Len(batch)
          /\ ~(Len(executed) + i <= Len(executed)) /\ (Len(executed) + i) - Len(executed) = i
    BY <2>1
  <2> QED
    BY <2>1, <2>2, <2>3, <2>4
<1>6. TableTyped'
  <2>1. \A k \in DOMAIN executed' : executed'[k].executed_at <= clock
    <3> SUFFICES ASSUME NEW k \in DOMAIN executed' PROVE executed'[k].executed_at <= clock
      OBVIOUS
    <3>1. k \in 1 .. Len(executed) \/ \E i \in 1 .. Len(batch) : k = Len(executed) + i
      <4>1. k \in 1 .. Len(executed) + Len(batch)
        BY <1>5
      <4>2. k \in 1 .. Len(executed) \/ k - Len(executed) \in 1 .. Len(batch)
        BY <1>1, <1>5, <4>1
      <4> QED
        BY <1>1, <1>5, <4>1, <4>2
    <3>2. CASE k \in 1 .. Len(executed)
      BY <1>2, <1>5, <3>2 DEF Table, TableTyped
    <3>3. CASE \E i \in 1 .. Len(batch) : k = Len(executed) + i
      BY <1>2, <1>4, <1>5, <3>3
    <3> QED
      BY <3>1, <3>2, <3>3
  <2>2. pending' \in Seq(Bill) /\ missed' \in Nat /\ clock' = clock
    <3>1. batch \in Seq(Bill) /\ missed \in Nat /\ missed + 1 \in Nat /\ pending \in Seq(Bill)
      BY <1>1, <1>2
    <3> QED
      BY <1>3, <3>1
  <2> QED
    BY <1>5, <2>1, <2>2 DEF TableTyped
<1>7. Told'
  <2> SUFFICES ASSUME missed' = 0, restarts = 0
               PROVE  /\ Len(executed') = Len(trades) + Len(pending')
                      /\ \A k \in DOMAIN trades : SameTrade(executed'[k], trades[k])
                                                 /\ executed'[k].executed_at <= trades[k].time
                      /\ \A i \in DOMAIN pending' :
                           SameTrade(executed'[Len(trades) + i], pending'[i])
    BY <1>3 DEF Told
  <2>1. pending' = batch /\ missed = 0
    BY <1>2, <1>3
  <2>2. /\ Len(executed) = Len(trades) /\ Len(trades) \in Nat /\ DOMAIN trades = 1 .. Len(trades)
        /\ \A k \in DOMAIN trades :
             SameTrade(executed[k], trades[k]) /\ executed[k].executed_at <= trades[k].time
    BY <1>2, <2>1, LenProperties, EmptySeq DEF Table, Told
  <2> QED
    BY <1>1, <1>4, <1>5, <2>1, <2>2
<1> QED
  BY <1>6, <1>7 DEF Table

LEMMA ReportKeepsTable ==
  ASSUME Inv, Table, Report
  PROVE  Table'
<1> DEFINE b == Head(pending)
           tr == [price |-> b.price, quantity |-> b.quantity, time |-> clock, run |-> restarts]
<1>1. /\ executed \in Seq(Executed) /\ trades \in Seq(TradeRow) /\ clock \in Nat
      /\ pending \in Seq(Bill) /\ pending # <<>> /\ restarts \in Int
  BY DEF Table, TableTyped, Inv, Typed, Report
<1>2. /\ b \in Bill /\ b = pending[1] /\ Tail(pending) \in Seq(Bill)
      /\ Len(pending) \in Nat \ {0} /\ Len(Tail(pending)) = Len(pending) - 1
      /\ \A i \in 1 .. Len(pending) - 1 : Tail(pending)[i] = pending[i + 1]
  BY <1>1, HeadTailProperties, LenProperties, EmptySeq
<1>3. /\ trades' = Append(trades, tr) /\ pending' = Tail(pending)
      /\ UNCHANGED <<executed, missed, clock, restarts>>
  BY DEF Report, OnTrade
<1>4. tr \in TradeRow
  BY <1>1, <1>2, BillType DEF TradeRow
<1>5. /\ trades' \in Seq(TradeRow) /\ Len(trades) \in Nat /\ Len(trades') = Len(trades) + 1
      /\ DOMAIN trades = 1 .. Len(trades) /\ DOMAIN trades' = 1 .. Len(trades) + 1
      /\ \A k \in 1 .. Len(trades) : trades'[k] = trades[k]
      /\ trades'[Len(trades) + 1] = tr
  BY <1>1, <1>3, <1>4, AppendProperties, LenProperties
<1>6. TableTyped'
  BY <1>1, <1>2, <1>3 DEF Table, TableTyped
<1>7. Told'
  <2> SUFFICES ASSUME missed = 0, restarts = 0
               PROVE  /\ Len(executed) = Len(trades') + Len(pending')
                      /\ \A k \in DOMAIN trades' : SameTrade(executed[k], trades'[k])
                                                  /\ executed[k].executed_at <= trades'[k].time
                      /\ \A i \in DOMAIN pending' :
                           SameTrade(executed[Len(trades') + i], pending'[i])
    BY <1>3 DEF Told
  <2>1. /\ Len(executed) = Len(trades) + Len(pending)
        /\ \A k \in DOMAIN trades :
             SameTrade(executed[k], trades[k]) /\ executed[k].executed_at <= trades[k].time
        /\ \A i \in 1 .. Len(pending) : SameTrade(executed[Len(trades) + i], pending[i])
    BY <1>1, LenProperties DEF Table, Told
  <2>2. Len(executed) = Len(trades') + Len(pending')
    BY <1>2, <1>3, <1>5, <2>1
  <2>3. ASSUME NEW k \in DOMAIN trades'
        PROVE  SameTrade(executed[k], trades'[k]) /\ executed[k].executed_at <= trades'[k].time
    <3>1. CASE k \in 1 .. Len(trades)
      BY <1>5, <2>1, <3>1
    <3>2. CASE k = Len(trades) + 1
      <4>1. SameTrade(executed[k], b)
        BY <1>2, <2>1, <3>2
      <4>2. SameTrade(executed[k], tr)
        BY <4>1 DEF SameTrade
      <4>3. k \in DOMAIN executed
        BY <1>1, <1>2, <1>5, <2>1, <3>2, LenProperties
      <4>4. executed[k].executed_at <= clock /\ tr.time = clock
        BY <4>3 DEF Table, TableTyped
      <4> HIDE DEF tr
      <4> QED
        BY <1>5, <3>2, <4>2, <4>4
    <3> QED
      BY <1>5, <3>1, <3>2
  <2>4. ASSUME NEW i \in DOMAIN pending'
        PROVE  SameTrade(executed[Len(trades') + i], pending'[i])
    <3>1. i \in 1 .. Len(pending) - 1 /\ pending'[i] = pending[i + 1]
      BY <1>2, <1>3, LenProperties
    <3> DEFINE m == Len(pending)
               n == Len(trades)
    <3>2. m \in Nat /\ n \in Nat /\ Len(trades') = n + 1 /\ i \in 1 .. m - 1
      BY <1>2, <1>5, <3>1
    <3> HIDE DEF m, n
    <3>3. i + 1 \in 1 .. m /\ (n + 1) + i = n + (i + 1)
      BY <3>2
    <3>4. i + 1 \in 1 .. Len(pending) /\ Len(trades') + i = Len(trades) + (i + 1)
      BY <3>2, <3>3 DEF m, n
    <3> QED
      BY <2>1, <3>1, <3>4
  <2> QED
    BY <2>2, <2>3, <2>4
<1> QED
  BY <1>6, <1>7 DEF Table

LEMMA NextTable == Inv /\ Built /\ Table /\ [MarketNext]_marketVars => Table'
<1> SUFFICES ASSUME Inv, Built, Table, [MarketNext]_marketVars PROVE Table'
  OBVIOUS
<1>1. restarts \in Nat
  BY DEF Built
<1>2. ASSUME NEW batch \in Batches, Commit(batch) PROVE Table'
  BY <1>1, <1>2, CommitKeepsTable
<1>3. CASE Report
  BY <1>3, ReportKeepsTable
<1>4. CASE MarketRestart
  <2>1. /\ restarts' = restarts + 1 /\ pending' = <<>>
        /\ UNCHANGED <<clock, trades, executed, missed>>
    BY <1>4 DEF MarketRestart, Restart
  <2> QED
    BY <1>1, <2>1 DEF Table, TableTyped, Told
<1>5. CASE (Tick \/ FlushAll) /\ UNCHANGED market
  <2>1. /\ UNCHANGED <<trades, executed, pending, missed, restarts>>
        /\ clock' = clock \/ clock' = clock + 1
    BY <1>5 DEF Tick, FlushAll, market
  <2>2. clock \in Nat /\ \A k \in DOMAIN executed : executed[k].executed_at \in Nat
    <3>1. clock \in Nat /\ \A k \in DOMAIN executed : executed[k] \in Executed
      BY ElementOfSeq, LenProperties DEF Inv, Typed, Table, TableTyped
    <3> QED
      BY <3>1 DEF Executed
  <2>3. TableTyped'
    BY <2>1, <2>2 DEF Table, TableTyped
  <2> QED
    BY <2>1, <2>3 DEF Table, Told
<1>6. CASE UNCHANGED marketVars
  BY <1>6 DEF marketVars, vars, market, Table, TableTyped, Told
<1> QED
  BY <1>2, <1>3, <1>4, <1>5, <1>6 DEF MarketNext

LEMMA TableHolds == MarketSpec => [](Candles /\ Table)
<1>1. MarketInit => Table
  BY DEF MarketInit, Init, Table, TableTyped, Told
<1>2. Candles => Inv /\ Built
  BY DEF Candles
<1> QED
  BY <1>1, <1>2, NextTable, CandlesHold, MarketImplementsAggregation, PTL DEF MarketSpec

-----------------------------------------------------------------------------
(* The rows of the trades table that a query asks for *)
Since(from) == {tr \in Executed : tr.executed_at >= from}

After(from) == {tr \in Executed : tr.executed_at > from}

LEMMA QueriesAre ==
  ASSUME Table
  PROVE  /\ Session = Among(executed, Since(Midnight))
         /\ \A x : Where(executed, LAMBDA tr : tr.executed_at > x) = Among(executed, After(x))
<1>1. \A k \in DOMAIN executed : executed[k] \in Executed
  BY ElementOfSeq, LenProperties DEF Table, TableTyped
<1>2. {i \in DOMAIN executed : executed[i].executed_at >= Midnight}
        = {i \in DOMAIN executed : executed[i] \in Since(Midnight)}
  BY <1>1 DEF Since
<1>3. \A x : {i \in DOMAIN executed : executed[i].executed_at > x}
               = {i \in DOMAIN executed : executed[i] \in After(x)}
  BY <1>1 DEF After
<1>4. Session = Among(executed, Since(Midnight))
  BY <1>2 DEF Session, Where, Among
<1>5. \A x : Where(executed, LAMBDA tr : tr.executed_at > x) = Among(executed, After(x))
  BY <1>3 DEF Where, Among
<1> QED
  BY <1>4, <1>5

LEMMA RecentPricesType ==
  ASSUME Table
  PROVE  RecentPrices \in Seq(Nat)
<1> DEFINE rows == Among(executed, After(clock - Day))
<1>1. rows \in Seq(Executed)
  BY RowsAtIsSeq DEF Among, Table, TableTyped
<1>2. RecentPrices = [i \in DOMAIN rows |-> rows[i].price]
  BY QueriesAre DEF RecentPrices
<1> HIDE DEF rows
<1>3. Len(rows) \in Nat /\ DOMAIN rows = 1 .. Len(rows) /\ \A i \in DOMAIN rows : rows[i].price \in Nat
  <2>1. \A i \in DOMAIN rows : rows[i] \in Executed
    BY <1>1, LenProperties, ElementOfSeq
  <2> QED
    BY <1>1, <2>1, LenProperties DEF Executed
<1>4. RecentPrices \in [1 .. Len(rows) -> Nat]
  BY <1>2, <1>3
<1> QED
  BY <1>3, <1>4, SeqDef

(* What AnalyticsService and DynamicPricingService compute of a card's     *)
(* candles and trades is a number, for any of them, except the discount    *)
(* after a price that fell to 0.00.                                        *)
THEOREM MeasuresAreNumbers == MarketSpec => []MeasuresAreDefined
<1>1. Candles /\ Table => MeasuresAreDefined
  <2> SUFFICES ASSUME Candles, Table PROVE MeasuresAreDefined
    OBVIOUS
  <2>1. \A tf \in Timeframe : Closes(tf) \in Seq(Nat)
    BY ClosesType DEF Candles
  <2>2. RecentPrices \in Seq(Nat)
    BY RecentPricesType
  <2> QED
    BY <2>1, <2>2, VolatilityIsDefined, DiscountIsDefined DEF MeasuresAreDefined
<1> QED
  BY <1>1, TableHolds, PTL
-----------------------------------------------------------------------------
(* A mean of prices lies between the lowest and the highest *)
Amounts == [tr \in Executed |-> tr.price * tr.quantity]

Sizes == [tr \in Executed |-> tr.quantity]

LEMMA ScaledOrder ==
  ASSUME NEW a \in Nat, NEW b \in Nat, NEW q \in Nat, a <= b
  PROVE  a * q <= b * q
<1>1. PICK d \in Nat : b = a + d
  <2>1. b - a \in Nat /\ b = a + (b - a)
    OBVIOUS
  <2> QED
    BY <2>1
<1>2. b * q = a * q + d * q /\ d * q \in Nat /\ a * q \in Nat
  BY <1>1
<1> QED
  BY <1>2

LEMMA ScaledSum ==
  ASSUME NEW x \in Nat, NEW Q \in Int, NEW A \in Int, NEW q \in Nat, NEW a \in Nat
  PROVE  /\ x * Q <= A /\ x * q <= a => x * (Q + q) <= A + a
         /\ A <= x * Q /\ a <= x * q => A + a <= x * (Q + q)
<1>1. x * (Q + q) = x * Q + x * q /\ x * Q \in Int /\ x * q \in Int
  OBVIOUS
<1> QED
  BY <1>1

LEMMA MeanLiesWithin ==
  ASSUME NEW rows \in Seq(Executed), NEW low \in Nat, NEW high \in Nat,
         \A i \in DOMAIN rows : low <= rows[i].price /\ rows[i].price <= high
  PROVE  /\ low * SumOf(Sizes, rows) <= SumOf(Amounts, rows)
         /\ SumOf(Amounts, rows) <= high * SumOf(Sizes, rows)
<1> DEFINE T == {tr \in Executed : low <= tr.price /\ tr.price <= high}
           P == {s \in Seq(T) : /\ low * SumOf(Sizes, s) <= SumOf(Amounts, s)
                                /\ SumOf(Amounts, s) <= high * SumOf(Sizes, s)}
<1>1. \A tr \in T : /\ tr \in Executed /\ tr.price \in Nat /\ tr.quantity \in Nat
                    /\ low <= tr.price /\ tr.price <= high
                    /\ tr.price * tr.quantity \in Nat
                    /\ Sizes[tr] = tr.quantity /\ Amounts[tr] = tr.price * tr.quantity
  BY DEF Executed, Sizes, Amounts
<1>2. Sizes \in [Executed -> Int] /\ Amounts \in [Executed -> Int]
  BY DEF Executed, Sizes, Amounts
<1> DEFINE F == [tr \in T |-> Sizes[tr]]
<1>3. rows \in Seq(T)
  BY LenProperties, ElementOfSeq, SeqDef
<1>4. \A s \in Seq(T) : s \in Seq(Executed)
  BY LenProperties, ElementOfSeq, SeqDef
<1> HIDE DEF T
<1>5. <<>> \in P
  BY EmptySeq, SumOfNone
<1>6. ASSUME NEW s \in P \cap Seq(T), NEW tr \in T
      PROVE  Append(s, tr) \in P
  <2>1. s \in Seq(Executed) /\ tr \in Executed /\ Append(s, tr) \in Seq(T)
    BY <1>1, <1>4, AppendProperties
  <2>2. /\ SumOf(Sizes, s) \in Int /\ SumOf(Sizes, Append(s, tr)) = SumOf(Sizes, s) + Sizes[tr]
        /\ SumOf(Amounts, s) \in Int
        /\ SumOf(Amounts, Append(s, tr)) = SumOf(Amounts, s) + Amounts[tr]
    BY <1>2, <2>1, SumOfAppend
  <2>3. /\ low * SumOf(Sizes, s) <= SumOf(Amounts, s)
        /\ SumOf(Amounts, s) <= high * SumOf(Sizes, s)
    OBVIOUS
  <2>4. low * tr.quantity <= tr.price * tr.quantity /\ tr.price * tr.quantity <= high * tr.quantity
    BY <1>1, ScaledOrder
  <2>5. \A x, q, a \in Nat : \A Q, A \in Int :
          /\ x * Q <= A /\ x * q <= a => x * (Q + q) <= A + a
          /\ A <= x * Q /\ a <= x * q => A + a <= x * (Q + q)
    BY ScaledSum
  <2>6. /\ low * SumOf(Sizes, Append(s, tr)) <= SumOf(Amounts, Append(s, tr))
        /\ SumOf(Amounts, Append(s, tr)) <= high * SumOf(Sizes, Append(s, tr))
    <3> DEFINE a == tr.price * tr.quantity
    <3>1. a \in Nat /\ Amounts[tr] = a /\ low * tr.quantity <= a /\ a <= high * tr.quantity
      BY <1>1, <2>4
    <3> HIDE DEF a
    <3> QED
      BY <1>1, <2>2, <2>3, <2>5, <3>1, SMTT(60)
  <2> QED
    BY <2>1, <2>6
<1>7. Seq(T) \subseteq P
  <2> HIDE DEF P
  <2> QED
    BY <1>5, <1>6, RowsInduction
<1> QED
  BY <1>3, <1>7

-----------------------------------------------------------------------------
(* The day starts where a period of each timeframe does *)
LEMMA MultipleOfMultiple ==
  ASSUME NEW m \in Nat, NEW k \in Nat, NEW d \in Nat
  PROVE  m * (d * k) = (m * k) * d /\ m * k \in Nat
OBVIOUS

LEMMA MidnightIs ==
  ASSUME clock \in Nat, NEW tf \in Timeframe
  PROVE  IsAligned(Midnight, tf) /\ Midnight \in Nat
<1> DEFINE d == Period[tf]
           m == clock \div Day
           k == Day \div d
<1>1. d \in Nat \ {0} /\ Day \in Nat \ {0} /\ Day % d = 0
  BY PeriodAssumption, DayAssumption DEF Timeframe
<1>2. m \in Nat /\ k \in Nat /\ Day = d * k
  <2> HIDE DEF d
  <2>1. Day = d * (Day \div d) + (Day % d)
    BY <1>1
  <2> QED
    BY <1>1, <2>1
<1>3. Midnight = m * Day
  BY DEF Midnight
<1> HIDE DEF d, m, k
<1>4. Midnight = (m * k) * d /\ m * k \in Nat
  BY <1>1, <1>2, <1>3, MultipleOfMultiple
<1>5. (m * k) * d \in Nat
  BY <1>1, <1>4
<1> QED
  BY <1>4, <1>5 DEF IsAligned, d

LEMMA CandleBounds ==
  ASSUME NEW s \in Seq(TradeRow), NEW k \in DOMAIN s
  PROVE  CandleOf(s).low <= s[k].price /\ s[k].price <= CandleOf(s).high
<1>1. s # <<>> /\ s[k].price \in Prices(s)
  BY EmptySeq DEF Prices
<1>2. Prices(s) # {} /\ Prices(s) \subseteq Nat /\ IsFiniteSet(Prices(s))
  <2>1. s[k] \in TradeRow
    BY ElementOfSeq, LenProperties
  <2> QED
    BY <1>1, <2>1, PricesOfTrades
<1>3. Min(Prices(s)) <= s[k].price /\ Max(Prices(s)) >= s[k].price
  BY <1>1, <1>2, ExtremesExist
<1>4. Max(Prices(s)) \in Nat /\ s[k].price \in Nat
  BY <1>1, <1>2, ExtremesExist
<1>5. CandleOf(s).low = Min(Prices(s)) /\ CandleOf(s).high = Max(Prices(s))
  BY DEF CandleOf, Prices
<1> QED
  BY <1>3, <1>4, <1>5

LEMMA InCandleOfPeriod ==
  ASSUME NEW s \in Seq(TradeRow), NEW tf, NEW p, NEW k \in DOMAIN s, s[k] \in InPeriod(tf, p, 0)
  PROVE  /\ CandleOf(TradesOf(s, tf, p, 0)).low <= s[k].price
         /\ s[k].price <= CandleOf(TradesOf(s, tf, p, 0)).high
<1> DEFINE t == TradesOf(s, tf, p, 0)
<1>1. t \in Seq(TradeRow)
  BY RowsAtIsSeq DEF TradesOf, Among
<1>2. PICK j \in DOMAIN t : t[j] = s[k]
  BY AmongMembers DEF TradesOf
<1> HIDE DEF t
<1>3. CandleOf(t).low <= t[j].price /\ t[j].price <= CandleOf(t).high
  BY <1>1, CandleBounds
<1> QED
  BY <1>2, <1>3 DEF t

(* The session's trades are in the day's candles.                          *)
LEMMA TradeIsInCandle ==
  ASSUME Candles, Table, faults = 0, missed = 0, restarts = 0, pending = <<>>,
         NEW tf \in Timeframe, NEW k \in DOMAIN executed, executed[k].executed_at >= Midnight
  PROVE  \E c \in CandlesSinceMidnight(tf) :
           c.low <= executed[k].price /\ executed[k].price <= c.high
<1> DEFINE p == AlignToPeriod(tf, trades[k].time)
           b == buffers[tf]
<1>1. /\ trades \in Seq(TradeRow) /\ clock \in Nat /\ executed \in Seq(Executed)
      /\ IsBuilt(b, trades, tf, clock, 0) /\ Complete(tf)
  BY DEF Candles, Inv, Typed, Built, CompleteInv, Table, TableTyped
<1>2. k \in DOMAIN trades
  <2>1. Len(executed) = Len(trades) + 0 /\ Len(trades) \in Nat
    BY <1>1, EmptySeq, LenProperties DEF Table, Told
  <2> QED
    BY <1>1, <2>1, LenProperties
<1>3. trades[k] \in TradeRow /\ trades[k].time \in Nat /\ trades[k].run = 0
  <2>1. trades[k] \in TradeRow
    BY <1>1, <1>2, ElementOfSeq, LenProperties
  <2>2. trades[k].run \in 0 .. 0
    BY <1>2 DEF Candles, Built
  <2> QED
    BY <2>1, <2>2, TradeRowFields
<1>4. /\ executed[k].price = trades[k].price
      /\ executed[k].executed_at <= trades[k].time
      /\ executed[k].executed_at \in Nat
  <2>1. SameTrade(executed[k], trades[k]) /\ executed[k].executed_at <= trades[k].time
    BY <1>2 DEF Table, Told
  <2>2. executed[k] \in Executed
    BY <1>1, ElementOfSeq, LenProperties
  <2> QED
    BY <2>1, <2>2 DEF SameTrade, Executed
<1>5. /\ IsAligned(p, tf) /\ p \in Nat /\ p <= trades[k].time
      /\ trades[k].time < p + Period[tf]
  <2>1. IsAligned(p, tf) /\ p <= trades[k].time /\ trades[k].time < p + Period[tf]
    BY <1>3, AlignIs
  <2> HIDE DEF p
  <2> QED
    BY <2>1, AlignedAreApart
<1>6. trades[k] \in InPeriod(tf, p, 0)
  BY <1>3, <1>5 DEF InPeriod
<1>7. p >= Midnight
  <2> HIDE DEF p
  <2>1. Midnight \in Nat /\ IsAligned(Midnight, tf) /\ Period[tf] \in Nat \ {0}
    BY <1>1, MidnightIs, PeriodAssumption DEF Timeframe
  <2>2. p < Midnight <=> p + Period[tf] <= Midnight
    BY <1>5, <2>1, AlignedAreApart
  <2>3. Midnight <= trades[k].time
    BY <1>3, <1>4, <2>1
  <2> QED
    BY <1>3, <1>5, <2>1, <2>2, <2>3
<1>8. /\ (b.has_data /\ b.period_start = p) \/ p \in DOMAIN price_history[tf]
      /\ p \in DOMAIN price_history[tf] /\ ~(b.has_data /\ b.period_start = p) =>
           price_history[tf][p] = CandleOf(TradesOf(trades, tf, p, 0))
  BY <1>1, <1>2 DEF Complete
<1> HIDE DEF p, b
<1>9. CASE b.has_data /\ b.period_start = p
  <2>1. b.candle \in CandlesSinceMidnight(tf)
    BY <1>7, <1>9 DEF CandlesSinceMidnight, b
  <2>2. b.candle = CandleOf(TradesOf(trades, tf, p, 0))
    BY <1>1, <1>9 DEF IsBuilt
  <2> QED
    BY <1>1, <1>2, <1>4, <1>6, <2>1, <2>2, InCandleOfPeriod
<1>10. CASE ~(b.has_data /\ b.period_start = p)
  <2>1. price_history[tf][p] \in CandlesSinceMidnight(tf)
    BY <1>7, <1>8, <1>10 DEF CandlesSinceMidnight, b
  <2>2. price_history[tf][p] = CandleOf(TradesOf(trades, tf, p, 0))
    BY <1>8, <1>10
  <2> QED
    BY <1>1, <1>2, <1>4, <1>6, <2>1, <2>2, InCandleOfPeriod
<1> QED
  BY <1>9, <1>10

LEMMA DaysCandles ==
  ASSUME Candles, NEW tf \in Timeframe
  PROVE  IsFiniteSet(CandlesSinceMidnight(tf)) /\ CandlesSinceMidnight(tf) \subseteq Candle
<1> DEFINE rows == {q \in DOMAIN price_history[tf] :
                      q >= Midnight /\ ~(buffers[tf].has_data /\ buffers[tf].period_start = q)}
           bufs == {x \in {buffers[tf]} : x.has_data /\ x.period_start >= Midnight}
           old == {price_history[tf][p] : p \in rows}
           new == {b.candle : b \in bufs}
<1>1. CandlesSinceMidnight(tf) = old \cup new
  BY DEF CandlesSinceMidnight
<1>2. old \subseteq Candle
  BY RowType DEF Candles
<1>3. new \subseteq Candle
  BY DEF Candles, Inv, Typed, BufferType
<1>4. IsFiniteSet(rows) /\ IsFiniteSet(bufs)
  <2>1. rows \subseteq DOMAIN price_history[tf] /\ bufs \subseteq {buffers[tf]}
    OBVIOUS
  <2>2. IsFiniteSet(DOMAIN price_history[tf]) /\ IsFiniteSet({buffers[tf]})
    BY FS_Singleton DEF Candles, FiniteRows
  <2> HIDE DEF rows, bufs
  <2> QED
    BY <2>1, <2>2, FS_Subset
<1> HIDE DEF rows, bufs
<1>5. IsFiniteSet(old)
  <2> DEFINE f == [p \in rows |-> price_history[tf][p]]
  <2>1. f \in Surjection(rows, old)
    BY DEF Surjection
  <2> HIDE DEF f, old
  <2> QED
    BY <1>4, <2>1, FS_Surjection
<1>6. IsFiniteSet(new)
  <2> DEFINE f == [b \in bufs |-> b.candle]
  <2>1. f \in Surjection(bufs, new)
    BY DEF Surjection
  <2> HIDE DEF f, new
  <2> QED
    BY <1>4, <2>1, FS_Surjection
<1> HIDE DEF old, new
<1>7. IsFiniteSet(old \cup new)
  BY <1>5, <1>6, FS_Union
<1> QED
  BY <1>1, <1>2, <1>3, <1>7

LEMMA BoundsOfCandles ==
  ASSUME NEW S, IsFiniteSet(S), S \subseteq Candle, S # {}
  PROVE  /\ Min({c.low : c \in S}) \in Nat /\ Max({c.high : c \in S}) \in Nat
         /\ \A c \in S : /\ c.low \in Nat /\ c.high \in Nat
                         /\ Min({d.low : d \in S}) <= c.low /\ c.high <= Max({d.high : d \in S})
<1> DEFINE lows == {c.low : c \in S}
           highs == {c.high : c \in S}
<1>1. \A c \in S : c.low \in Nat /\ c.high \in Nat
  BY DEF Candle
<1>2. IsFiniteSet(lows)
  <2> DEFINE f == [c \in S |-> c.low]
  <2>1. f \in Surjection(S, lows)
    BY DEF Surjection
  <2> HIDE DEF f, lows
  <2> QED
    BY <2>1, FS_Surjection
<1>3. IsFiniteSet(highs)
  <2> DEFINE f == [c \in S |-> c.high]
  <2>1. f \in Surjection(S, highs)
    BY DEF Surjection
  <2> HIDE DEF f, highs
  <2> QED
    BY <2>1, FS_Surjection
<1>4. /\ lows # {} /\ highs # {} /\ lows \subseteq Nat /\ highs \subseteq Nat
      /\ \A c \in S : c.low \in lows /\ c.high \in highs
  BY <1>1
<1> HIDE DEF lows, highs
<1>5. /\ Min(lows) \in Nat /\ \A x \in lows : Min(lows) <= x
      /\ Max(highs) \in Nat /\ \A x \in highs : Max(highs) >= x
  BY <1>2, <1>3, <1>4, ExtremesExist
<1>6. \A c \in S : Min(lows) <= c.low /\ c.high <= Max(highs)
  BY <1>1, <1>4, <1>5
<1> QED
  BY <1>1, <1>5, <1>6 DEF lows, highs

(* The VWAP of the session lies within the day's candles, for any          *)
(* timeframes that divide the day, unless a write failed, a callback threw *)
(* or the server stopped: the two records, which execute_trades and        *)
(* on_trade keep by two clocks, do not contradict one another.             *)
THEOREM VwapIsWithinCandles == MarketSpec => []VwapWithinCandles
<1>1. Candles /\ Table => VwapWithinCandles
  <2> SUFFICES ASSUME Candles, Table, faults = 0, missed = 0, restarts = 0, pending = <<>>,
                      Session # <<>>, NEW tf \in Timeframe
               PROVE  LET candles == CandlesSinceMidnight(tf)
                      IN  /\ candles # {}
                          /\ Min({c.low : c \in candles}) * Vwap[2] <= Vwap[1]
                          /\ Vwap[1] <= Max({c.high : c \in candles}) * Vwap[2]
    BY DEF VwapWithinCandles
  <2> DEFINE S == CandlesSinceMidnight(tf)
             low == Min({c.low : c \in S})
             high == Max({c.high : c \in S})
             rows == Session
  <2>1. executed \in Seq(Executed) /\ rows = Among(executed, Since(Midnight))
    BY QueriesAre DEF Table, TableTyped
  <2>2. rows \in Seq(Executed)
    BY <2>1, RowsAtIsSeq DEF Among
  <2>3. \A i \in DOMAIN rows : \E k \in DOMAIN executed :
          rows[i] = executed[k] /\ executed[k].executed_at >= Midnight
    <3> SUFFICES ASSUME NEW i \in DOMAIN rows
                 PROVE  \E k \in DOMAIN executed :
                          rows[i] = executed[k] /\ executed[k].executed_at >= Midnight
      OBVIOUS
    <3> HIDE DEF rows
    <3>1. rows[i] \in Since(Midnight) /\ \E k \in DOMAIN executed : rows[i] = executed[k]
      BY <2>1, AmongMembers
    <3> QED
      BY <3>1 DEF Since
  <2>4. Vwap = <<SumOf(Amounts, rows), SumOf(Sizes, rows)>>
    <3>1. \A i \in DOMAIN rows : rows[i] \in Executed
      BY <2>2, ElementOfSeq, LenProperties
    <3>2. /\ [i \in DOMAIN rows |-> rows[i].price * rows[i].quantity]
               = [i \in DOMAIN rows |-> Amounts[rows[i]]]
          /\ [i \in DOMAIN rows |-> rows[i].quantity] = [i \in DOMAIN rows |-> Sizes[rows[i]]]
      BY <3>1 DEF Amounts, Sizes
    <3> QED
      BY <3>2 DEF Vwap, SumOf
  <2>5. rows # <<>>
    OBVIOUS
  <2>6. IsFiniteSet(S) /\ S \subseteq Candle
    BY DaysCandles
  <2>7. \A k \in DOMAIN executed : executed[k].executed_at >= Midnight =>
          \E c \in S : c.low <= executed[k].price /\ executed[k].price <= c.high
    BY TradeIsInCandle
  <2> HIDE DEF rows, S
  <2>8. \A i \in DOMAIN rows : \E c \in S : c.low <= rows[i].price /\ rows[i].price <= c.high
    BY <2>3, <2>7
  <2>9. S # {}
    BY <2>2, <2>5, <2>8, EmptySeq, LenProperties
  <2>10. /\ low \in Nat /\ high \in Nat
         /\ \A c \in S : c.low \in Nat /\ c.high \in Nat /\ low <= c.low /\ c.high <= high
    BY <2>6, <2>9, BoundsOfCandles
  <2> HIDE DEF low, high
  <2>11. \A i \in DOMAIN rows : low <= rows[i].price /\ rows[i].price <= high
    <3> SUFFICES ASSUME NEW i \in DOMAIN rows
                 PROVE  low <= rows[i].price /\ rows[i].price <= high
      OBVIOUS
    <3>1. rows[i] \in Executed
      BY <2>2, ElementOfSeq, LenProperties
    <3>2. rows[i].price \in Nat
      BY <3>1 DEF Executed
    <3>3. PICK c \in S : c.low <= rows[i].price /\ rows[i].price <= c.high
      BY <2>8
    <3> QED
      BY <2>10, <3>2, <3>3
  <2>12. /\ low * SumOf(Sizes, rows) <= SumOf(Amounts, rows)
         /\ SumOf(Amounts, rows) <= high * SumOf(Sizes, rows)
    BY <2>2, <2>10, <2>11, MeanLiesWithin
  <2> QED
    BY <2>4, <2>9, <2>12 DEF S, low, high
<1> QED
  BY <1>1, TableHolds, PTL

-----------------------------------------------------------------------------
(* The candles before the one in the buffer *)
Before(all, end) == RowsAt(all, {i \in DOMAIN all : all[i] < end})

LastOnes(c, rows, end) ==
  \A m \in DOMAIN c :
    /\ c[m] < end
    /\ \A j \in 1 .. m - 1 : c[m] < c[j]
    /\ \A p \in rows : p >= c[m] /\ p < end => \E j \in 1 .. m : c[j] = p

LEMMA ClosedAre ==
  ASSUME NEW rows, IsFiniteSet(rows), rows \subseteq Nat, NEW limit \in Nat, NEW end \in Nat
  PROVE  /\ Before(Newest(rows, limit), end) \in Seq(rows)
         /\ LastOnes(Before(Newest(rows, limit), end), rows, end)
<1> DEFINE all == Newest(rows, limit)
           I == {i \in DOMAIN all : all[i] < end}
           c == Before(all, end)
<1>1. /\ all \in Seq(rows)
      /\ \A i, j \in DOMAIN all : i < j => all[j] < all[i]
      /\ \A i \in DOMAIN all : \A p \in rows : p >= all[i] => \E j \in 1 .. i : all[j] = p
  BY NewestAre
<1>2. c = RowsAt(all, I)
  BY DEF Before
<1>3. \A i : i \in I <=> i \in DOMAIN all /\ all[i] < end
  OBVIOUS
<1> HIDE DEF all, I, c
<1>4. /\ c \in Seq(rows) /\ Len(c) \in Nat /\ DOMAIN c = 1 .. Len(c)
      /\ Len(all) \in Nat /\ DOMAIN all = 1 .. Len(all)
  BY <1>1, <1>2, RowsAtIsSeq, LenProperties
<1>5. PICK pos : IsFoundAt(pos, all, I, c)
  BY <1>1, <1>2, RowsAtPlaces
<1>6. /\ \A m \in 1 .. Len(c) : pos[m] \in I /\ pos[m] \in 1 .. Len(all) /\ c[m] = all[pos[m]]
      /\ \A j, k \in 1 .. Len(c) : j < k => pos[j] < pos[k]
      /\ \A i \in I : \E k \in 1 .. Len(c) : pos[k] = i
  BY <1>3, <1>4, <1>5 DEF IsFoundAt
<1>7. \A j, k \in 1 .. Len(c) : pos[k] <= pos[j] => k <= j
  <2> SUFFICES ASSUME NEW j \in 1 .. Len(c), NEW k \in 1 .. Len(c), pos[k] <= pos[j]
               PROVE  k <= j
    OBVIOUS
  <2>1. pos[j] \in Nat /\ pos[k] \in Nat /\ j \in Nat /\ k \in Nat
    BY <1>4, <1>6
  <2>2. j < k => pos[j] < pos[k]
    BY <1>6
  <2> QED
    BY <2>1, <2>2
<1>8. ASSUME NEW m \in DOMAIN c, NEW j \in 1 .. m - 1
      PROVE  c[m] < c[j]
  <2>1. j \in 1 .. Len(c) /\ m \in 1 .. Len(c) /\ j < m
    BY <1>4
  <2> QED
    BY <1>1, <1>4, <1>6, <2>1
<1>9. ASSUME NEW m \in DOMAIN c, NEW p \in rows, p >= c[m], p < end
      PROVE  \E j \in 1 .. m : c[j] = p
  <2>1. m \in 1 .. Len(c) /\ pos[m] \in DOMAIN all /\ p >= all[pos[m]]
    BY <1>4, <1>6, <1>9
  <2>2. PICK i \in 1 .. pos[m] : all[i] = p
    BY <1>1, <2>1
  <2>3. i \in I
    BY <1>3, <1>4, <1>9, <2>1, <2>2
  <2>4. PICK k \in 1 .. Len(c) : pos[k] = i
    BY <1>6, <2>3
  <2>5. k <= m /\ c[k] = p
    BY <1>6, <1>7, <2>1, <2>2, <2>4
  <2> QED
    BY <1>4, <2>1, <2>4, <2>5
<1>10. \A m \in DOMAIN c : c[m] < end
  BY <1>3, <1>4, <1>6
<1> QED
  BY <1>4, <1>8, <1>9, <1>10 DEF c, all, LastOnes

(* The trades between two times                                            *)
Between(from, to) == {tr \in TradeRow : from <= tr.time /\ tr.time < to}

CountBetween(s, from, to) == Len(Among(s, Between(from, to)))

NoneBetween(s, from, to) == \A k \in DOMAIN s : s[k] \notin Between(from, to)

LEMMA CountIsNat ==
  ASSUME NEW s \in Seq(TradeRow), NEW from, NEW to
  PROVE  CountBetween(s, from, to) \in Nat
<1>1. Among(s, Between(from, to)) \in Seq(TradeRow)
  BY RowsAtIsSeq DEF Among
<1> QED
  BY <1>1, LenProperties DEF CountBetween

(* The trades of two stretches, and none between them, are counted one     *)
(* stretch after the other.                                                *)
LEMMA TwoStretches ==
  ASSUME NEW s, NEW t1, NEW t3, NEW t2, NEW t4, s \in Seq(TradeRow),
         t1 \in Nat, t3 \in Nat, t2 \in Nat, t4 \in Nat,
         t1 <= t2, t2 <= t3, t3 <= t4, NoneBetween(s, t2, t3)
  PROVE  CountBetween(s, t1, t4) = CountBetween(s, t1, t2) + CountBetween(s, t3, t4)
<1>1. \A t \in Nat : /\ ~(t < t2 /\ t3 <= t)
                     /\ (t1 <= t /\ t < t2) \/ (t2 <= t /\ t < t3) \/ (t3 <= t /\ t < t4)
                          <=> t1 <= t /\ t < t4
  OBVIOUS
<1>2. \A tr \in TradeRow : tr.time \in Nat
  BY TradeRowFields
<1>3. Between(t1, t2) \cap Between(t3, t4) = {}
  BY <1>1, <1>2 DEF Between
<1>4. \A i \in DOMAIN s : s[i] \in Between(t1, t2) \cup Between(t3, t4) <=> s[i] \in Between(t1, t4)
  <2> SUFFICES ASSUME NEW i \in DOMAIN s
               PROVE  s[i] \in Between(t1, t2) \cup Between(t3, t4) <=> s[i] \in Between(t1, t4)
    OBVIOUS
  <2>1. s[i] \in TradeRow
    BY ElementOfSeq, LenProperties
  <2>2. s[i].time \in Nat
    BY <1>2, <2>1
  <2>3. \A from, to : s[i] \in Between(from, to) <=> from <= s[i].time /\ s[i].time < to
    BY <2>1 DEF Between
  <2>4. ~(t2 <= s[i].time /\ s[i].time < t3)
    BY <2>3 DEF NoneBetween
  <2> QED
    BY <1>1, <2>2, <2>3, <2>4
<1>5. Among(s, Between(t1, t2) \cup Between(t3, t4)) = Among(s, Between(t1, t4))
  BY <1>4, AmongSame
<1> DEFINE R == Between(t1, t2)
           Q == Between(t3, t4)
<1> HIDE DEF R, Q
<1>6. /\ Len(Among(s, R)) \in Nat /\ Len(Among(s, Q)) \in Nat
      /\ Len(Among(s, R \cup Q)) = Len(Among(s, R)) + Len(Among(s, Q))
  <2>1. R \cap Q = {}
    BY <1>3 DEF R, Q
  <2>2. \A q \in Seq(TradeRow) :
          /\ Len(Among(q, R)) \in Nat /\ Len(Among(q, Q)) \in Nat
          /\ Len(Among(q, R \cup Q)) = Len(Among(q, R)) + Len(Among(q, Q))
    BY ONLY <2>1, AmongEither
  <2> QED
    BY <2>2
<1>7. Len(Among(s, R \cup Q)) = CountBetween(s, t1, t4)
  BY <1>5 DEF R, Q, CountBetween
<1>8. CountBetween(s, t1, t2) = Len(Among(s, R)) /\ CountBetween(s, t3, t4) = Len(Among(s, Q))
  BY DEF R, Q, CountBetween
<1> QED
  BY <1>6, <1>7, <1>8

(* Stretches of d seconds, later ones first, before a time, and no trade   *)
(* between one and the next: their trades are those since the last began.  *)
SumFirst(f, m) == Total([i \in 1 .. m |-> f[i]])

AreStretches(s, n, d, e, f) ==
  \A m \in 1 .. n :
    /\ e[m] + d <= e[m - 1]
    /\ NoneBetween(s, e[m] + d, e[m - 1])
    /\ f[m] = CountBetween(s, e[m], e[m] + d)

AddUp(s, n, e, f) ==
  \A m \in 0 .. n : e[m] <= e[0] /\ SumFirst(f, m) = CountBetween(s, e[m], e[0])

LEMMA StretchesAddUp ==
  ASSUME NEW s, NEW n, NEW d, NEW e, NEW f, s \in Seq(TradeRow), n \in Nat, d \in Nat,
         e \in [0 .. n -> Nat], f \in [1 .. n -> Int],
         AreStretches(s, n, d, e, f)
  PROVE  AddUp(s, n, e, f)
<1> DEFINE Sum(m) == SumFirst(f, m)
           N == {m \in Nat : m <= n => /\ e[m] <= e[0]
                                       /\ Sum(m) = CountBetween(s, e[m], e[0])}
<1>0. \A m \in 0 .. n : e[m] \in Nat
  OBVIOUS
<1>3. \A t1, t2, t3, t4 \in Nat :
        t1 <= t2 /\ t2 <= t3 /\ t3 <= t4 /\ NoneBetween(s, t2, t3) =>
          CountBetween(s, t1, t4) = CountBetween(s, t1, t2) + CountBetween(s, t3, t4)
  BY TwoStretches
<1>1. 0 \in N
  <2>1. 0 \in 0 .. n /\ e[0] \in Nat /\ e[0] <= e[0]
    OBVIOUS
  <2>2. \A k \in DOMAIN s : s[k] \notin Between(e[0], e[0])
    BY <2>1, TradeRowFields DEF Between
  <2>3. Among(s, Between(e[0], e[0])) = <<>>
    BY <2>2, AmongNoMatch
  <2>4. [i \in 1 .. 0 |-> f[i]] = <<>>
    OBVIOUS
  <2>5. Sum(0) = 0
    BY <2>4, TotalEmpty DEF SumFirst
  <2> HIDE DEF Sum
  <2> QED
    BY <2>1, <2>3, <2>5, EmptySeq DEF CountBetween
<1>2. ASSUME NEW m \in N \cap Nat PROVE m + 1 \in N
  <2> SUFFICES ASSUME m + 1 <= n
               PROVE  /\ e[m + 1] <= e[0]
                      /\ Sum(m + 1) = CountBetween(s, e[m + 1], e[0])
    OBVIOUS
  <2> DEFINE a == e[m + 1]
             b == e[m]
             top == e[0]
  <2>1. /\ a \in Nat /\ b \in Nat /\ top \in Nat
        /\ b <= top /\ Sum(m) = CountBetween(s, b, top)
    BY <1>0
  <2>2. /\ a + d <= b
        /\ NoneBetween(s, a + d, b)
        /\ f[m + 1] = CountBetween(s, a, a + d)
    <3>1. m + 1 \in 1 .. n /\ (m + 1) - 1 = m
      OBVIOUS
    <3> QED
      BY <3>1 DEF AreStretches
  <2>3. Sum(m + 1) = Sum(m) + f[m + 1]
    <3> DEFINE g == [i \in 1 .. m + 1 |-> f[i]]
    <3>1. g \in [1 .. m + 1 -> Int]
      OBVIOUS
    <3>2. Total([i \in 1 .. m + 1 |-> g[i]]) = Total([i \in 1 .. m |-> g[i]]) + g[m + 1]
      <4> HIDE DEF g
      <4> QED
        BY <3>1, TotalOfMore
    <3>3. /\ [i \in 1 .. m + 1 |-> g[i]] = [i \in 1 .. m + 1 |-> f[i]]
          /\ [i \in 1 .. m |-> g[i]] = [i \in 1 .. m |-> f[i]] /\ g[m + 1] = f[m + 1]
      OBVIOUS
    <3> QED
      BY <3>2, <3>3 DEF SumFirst
  <2> HIDE DEF a, b, top, Sum, N
  <2>4. a <= top
    BY <2>1, <2>2
  <2>5. PICK c : c = a + d /\ c \in Nat /\ a <= c
    BY <2>1
  <2>6. c <= b /\ NoneBetween(s, c, b)
    BY <2>2, <2>5
  <2>7. CountBetween(s, a, top) = CountBetween(s, a, c) + CountBetween(s, b, top)
    BY <1>3, <2>1, <2>5, <2>6
  <2>8. CountBetween(s, a, c) \in Nat /\ CountBetween(s, b, top) \in Nat
    BY CountIsNat
  <2>9. Sum(m + 1) = CountBetween(s, a, top)
    BY <2>1, <2>2, <2>3, <2>5, <2>7, <2>8
  <2> QED
    BY <2>4, <2>9 DEF a, top
<1>4. Nat \subseteq N
  <2> HIDE DEF N
  <2> QED
    BY <1>1, <1>2, SetInduction
<1> QED
  BY <1>4 DEF AddUp

LEMMA WhereBetween ==
  ASSUME trades \in Seq(TradeRow), NEW from, NEW to
  PROVE  Len(Where(trades, LAMBDA tr : from <= tr.time /\ tr.time < to))
           = CountBetween(trades, from, to)
<1>1. \A i \in DOMAIN trades : trades[i] \in TradeRow
  BY ElementOfSeq, LenProperties
<1>2. {i \in DOMAIN trades : from <= trades[i].time /\ trades[i].time < to}
        = {i \in DOMAIN trades : trades[i] \in Between(from, to)}
  BY <1>1 DEF Between
<1> QED
  BY <1>2 DEF Where, Among, CountBetween

(* A complete row counts the trades of its period.                         *)
LEMMA RowCounts ==
  ASSUME Candles, faults = 0, restarts = 0, NEW tf \in Timeframe,
         NEW p \in DOMAIN price_history[tf], p # buffers[tf].period_start
  PROVE  price_history[tf][p].trade_count = CountBetween(trades, p, p + Period[tf])
<1>1. trades \in Seq(TradeRow) /\ Complete(tf) /\ \A k \in DOMAIN trades : trades[k].run \in 0 .. 0
  BY DEF Candles, Inv, Typed, CompleteInv, Built
<1>2. price_history[tf][p] = CandleOf(TradesOf(trades, tf, p, 0))
  BY <1>1 DEF Complete
<1>3. price_history[tf][p].trade_count = Len(Among(trades, InPeriod(tf, p, 0)))
  BY <1>2 DEF CandleOf, TradesOf
<1>4. \A k \in DOMAIN trades : trades[k] \in InPeriod(tf, p, 0)
                                 <=> trades[k] \in Between(p, p + Period[tf])
  BY <1>1, ElementOfSeq, LenProperties DEF InPeriod, Between
<1>5. Among(trades, InPeriod(tf, p, 0)) = Among(trades, Between(p, p + Period[tf]))
  BY <1>4, AmongSame
<1> QED
  BY <1>3, <1>5 DEF CountBetween

LEMMA ClosedAddUp ==
  ASSUME Candles, faults = 0, restarts = 0, NEW tf \in Timeframe, NEW limit \in 1 .. Window,
         NEW closed, closed = Before(Newest(DOMAIN price_history[tf], limit), buffers[tf].period_start)
  PROVE  \A m \in DOMAIN closed :
           /\ m > 1 => closed[m] < closed[m - 1]
           /\ Total([i \in 1 .. m |-> price_history[tf][closed[i]].trade_count])
                = CountBetween(trades, closed[m], buffers[tf].period_start)
<1> DEFINE rows == DOMAIN price_history[tf]
           end == buffers[tf].period_start
           d == Period[tf]
           n == Len(closed)
           e == [m \in 0 .. n |-> IF m = 0 THEN end ELSE closed[m]]
           f == [m \in 1 .. n |-> price_history[tf][closed[m]].trade_count]
<1>1. /\ trades \in Seq(TradeRow) /\ Complete(tf)
      /\ IsAligned(end, tf) /\ end \in Nat /\ d \in Nat \ {0}
  BY PeriodAssumption DEF Candles, Inv, Typed, CompleteInv, Built, IsBuilt, BufferType, Timeframe
<1>2. /\ IsFiniteSet(rows) /\ rows \subseteq Nat /\ \A p \in rows : IsAligned(p, tf)
      /\ \A p \in rows : price_history[tf][p].trade_count \in Nat
  BY <1>1, RowType DEF Candles, FiniteRows, Complete, Candle
<1>3. /\ closed \in Seq(rows)
      /\ \A m \in DOMAIN closed :
           /\ closed[m] < end
           /\ \A j \in 1 .. m - 1 : closed[m] < closed[j]
           /\ \A p \in rows : p >= closed[m] /\ p < end => \E j \in 1 .. m : closed[j] = p
  <2>1. limit \in Nat /\ closed = Before(Newest(rows, limit), end)
    BY WindowAssumption
  <2> HIDE DEF rows, end
  <2>2. closed \in Seq(rows) /\ LastOnes(closed, rows, end)
    BY <1>1, <1>2, <2>1, ClosedAre
  <2> QED
    BY <2>2 DEF LastOnes
<1>4. \A p \in rows : p # end => price_history[tf][p].trade_count = CountBetween(trades, p, p + d)
  BY RowCounts
<1>5. \A k \in DOMAIN trades : \E p \in Nat :
        /\ IsAligned(p, tf) /\ p <= trades[k].time /\ trades[k].time < p + d
        /\ p = end \/ p \in rows
  <2> SUFFICES ASSUME NEW k \in DOMAIN trades
               PROVE  \E p \in Nat : /\ IsAligned(p, tf) /\ p <= trades[k].time
                                     /\ trades[k].time < p + d /\ (p = end \/ p \in rows)
    OBVIOUS
  <2> DEFINE p == AlignToPeriod(tf, trades[k].time)
  <2>1. trades[k] \in TradeRow
    BY <1>1, ElementOfSeq, LenProperties
  <2>2. IsAligned(p, tf) /\ p <= trades[k].time /\ trades[k].time < p + d
    BY <2>1, TradeRowFields, AlignIs
  <2>3. p = end \/ p \in rows
    BY <1>1 DEF Complete
  <2> HIDE DEF p
  <2>4. p \in Nat
    BY <2>2, AlignedAreApart
  <2> QED
    BY <2>2, <2>3, <2>4
<1> HIDE DEF rows, end, d
<1>6. n \in Nat /\ DOMAIN closed = 1 .. n /\ \A m \in 1 .. n : closed[m] \in rows /\ closed[m] \in Nat
  BY <1>2, <1>3, LenProperties, ElementOfSeq
<1>7. e \in [0 .. n -> Nat] /\ f \in [1 .. n -> Int]
  BY <1>1, <1>2, <1>6
<1>8. AreStretches(trades, n, d, e, f)
  <2> SUFFICES ASSUME NEW m \in 1 .. n
               PROVE  /\ e[m] + d <= e[m - 1]
                      /\ NoneBetween(trades, e[m] + d, e[m - 1])
                      /\ f[m] = CountBetween(trades, e[m], e[m] + d)
    BY DEF AreStretches
  <2> DEFINE q == closed[m]
             r == IF m - 1 = 0 THEN end ELSE closed[m - 1]
  <2>1. e[m] = q /\ e[m - 1] = r /\ f[m] = price_history[tf][q].trade_count
    BY <1>6
  <2>2. q \in rows /\ q \in Nat /\ IsAligned(q, tf) /\ q < end
    BY <1>2, <1>3, <1>6
  <2>3. r \in Nat /\ IsAligned(r, tf) /\ q < r /\ r <= end
    <3>1. CASE m = 1
      BY <1>1, <2>2, <3>1
    <3>2. CASE m # 1
      <4>1. m - 1 \in 1 .. n /\ m - 1 \in 1 .. m - 1 /\ m \in DOMAIN closed /\ m - 1 # 0
        BY <1>6, <3>2
      <4>2. closed[m - 1] \in rows /\ closed[m - 1] \in Nat /\ closed[m] < closed[m - 1]
            /\ closed[m - 1] < end
        BY <1>3, <1>6, <4>1
      <4> QED
        BY <1>1, <1>2, <4>1, <4>2
    <3> QED
      BY <3>1, <3>2
  <2>4. \A p \in rows : q < p /\ p < end => r <= p
    <3> SUFFICES ASSUME NEW p \in rows, q < p, p < end PROVE r <= p
      OBVIOUS
    <3>1. p \in Nat
      BY <1>2
    <3>2. PICK j \in 1 .. m : closed[j] = p
      BY <1>3, <1>6, <2>2, <3>1
    <3>3. j \in 1 .. m - 1
      BY <1>6, <2>2, <3>1, <3>2
    <3>4. m - 1 # 0 /\ m - 1 \in 1 .. n /\ r = closed[m - 1] /\ (j = m - 1 \/ j \in 1 .. (m - 1) - 1)
      BY <1>6, <3>3
    <3>5. j \in 1 .. (m - 1) - 1 => closed[m - 1] < closed[j]
      BY <1>3, <1>6, <3>4
    <3> QED
      BY <2>3, <3>1, <3>2, <3>4, <3>5
  <2> HIDE DEF q, r
  <2>5. q + d <= r
    BY <1>1, <2>2, <2>3, AlignedAreApart DEF d
  <2>6. NoneBetween(trades, q + d, r)
    <3> SUFFICES ASSUME NEW k \in DOMAIN trades, trades[k] \in Between(q + d, r) PROVE FALSE
      BY DEF NoneBetween
    <3>1. q + d <= trades[k].time /\ trades[k].time < r /\ trades[k].time \in Nat
      BY TradeRowFields DEF Between
    <3>2. PICK p \in Nat : /\ IsAligned(p, tf) /\ p <= trades[k].time /\ trades[k].time < p + d
                           /\ p = end \/ p \in rows
      BY <1>5
    <3>3. q < p /\ p < r /\ p < end
      BY <1>1, <2>2, <2>3, <3>1, <3>2
    <3>4. r <= p
      BY <1>1, <2>4, <3>2, <3>3
    <3> QED
      BY <2>3, <3>2, <3>3, <3>4
  <2>7. price_history[tf][q].trade_count = CountBetween(trades, q, q + d)
    BY <1>1, <1>4, <2>2
  <2> QED
    BY <2>1, <2>5, <2>6, <2>7
<1>9. ASSUME NEW m \in DOMAIN closed
      PROVE  Total([i \in 1 .. m |-> price_history[tf][closed[i]].trade_count])
               = CountBetween(trades, closed[m], end)
  <2>1. m \in 0 .. n /\ m \in 1 .. n /\ e[m] = closed[m] /\ e[0] = end
    BY <1>6
  <2>2. [i \in 1 .. m |-> f[i]] = [i \in 1 .. m |-> price_history[tf][closed[i]].trade_count]
    BY <1>6, <2>1
  <2>3. PICK F, E, k, w : F = f /\ E = e /\ k = n /\ w = d
    OBVIOUS
  <2>4. /\ trades \in Seq(TradeRow) /\ k \in Nat /\ w \in Nat
        /\ E \in [0 .. k -> Nat] /\ F \in [1 .. k -> Int]
        /\ AreStretches(trades, k, w, E, F)
    BY <1>1, <1>6, <1>7, <1>8, <2>3
  <2>5. AddUp(trades, k, E, F)
    BY ONLY <2>4, StretchesAddUp
  <2>6. Total([i \in 1 .. m |-> F[i]]) = CountBetween(trades, E[m], E[0])
    BY <2>1, <2>3, <2>5 DEF SumFirst, AddUp
  <2> QED
    BY <2>1, <2>2, <2>3, <2>6
<1>10. ASSUME NEW m \in DOMAIN closed, m > 1
       PROVE  closed[m] < closed[m - 1]
  <2>1. m - 1 \in 1 .. m - 1
    BY <1>6, <1>10
  <2> QED
    BY <1>3, <2>1
<1> QED
  BY <1>9, <1>10 DEF end

(* The candles a measure or a chart is given leave no trade out, from the  *)
(* oldest of them to the one in the buffer, for any timeframes, trades and *)
(* limit, unless a write failed or the server stopped.                     *)
THEOREM WindowLeavesNothingOut == MarketSpec => []WindowIsContiguous
<1>1. Candles => WindowIsContiguous
  <2> SUFFICES ASSUME Candles, faults = 0, restarts = 0, NEW tf \in Timeframe,
                      NEW limit \in 1 .. Window
               PROVE  LET all    == GetCandles(tf, limit)
                          closed == Where(all, LAMBDA p : p < buffers[tf].period_start)
                      IN  \A m \in DOMAIN closed :
                            /\ m > 1 => closed[m] < closed[m - 1]
                            /\ Total([i \in 1 .. m |-> price_history[tf][closed[i]].trade_count]) =
                                 Len(Where(trades, LAMBDA tr :
                                       closed[m] <= tr.time /\ tr.time < buffers[tf].period_start))
    BY DEF WindowIsContiguous
  <2> DEFINE all    == GetCandles(tf, limit)
             closed == Where(all, LAMBDA p : p < buffers[tf].period_start)
             end    == buffers[tf].period_start
  <2>1. all = Newest(DOMAIN price_history[tf], limit)
    BY DEF GetCandles, Newest
  <2>2. closed = Before(all, end)
    BY DEF Where, Before
  <2>3. \A from, to : Len(Where(trades, LAMBDA tr : from <= tr.time /\ tr.time < to))
                       = CountBetween(trades, from, to)
    BY WhereBetween DEF Candles, Inv, Typed
  <2> HIDE DEF all, closed
  <2>4. \A m \in DOMAIN closed :
          /\ m > 1 => closed[m] < closed[m - 1]
          /\ Total([i \in 1 .. m |-> price_history[tf][closed[i]].trade_count])
               = CountBetween(trades, closed[m], end)
    BY <2>1, <2>2, ClosedAddUp
  <2>5. \A m \in DOMAIN closed :
          Len(Where(trades, LAMBDA tr : closed[m] <= tr.time /\ tr.time < end))
            = CountBetween(trades, closed[m], end)
    BY <2>3
  <2> QED
    BY <2>4, <2>5 DEF all, closed
<1> QED
  BY <1>1, CandlesHold, MarketImplementsAggregation, PTL

-----------------------------------------------------------------------------
(* The types *)

LEMMA Division ==
  ASSUME NEW n \in Nat, NEW d \in Nat \ {0}
  PROVE  /\ n \div d \in Nat /\ (n \div d) * d \in Nat
         /\ (n % d) \in 0 .. d - 1 /\ n = (n \div d) * d + (n % d)
<1>1. n \div d \in Nat
  OBVIOUS
<1>2. n = d * (n \div d) + (n % d) /\ (n % d) \in 0 .. d - 1
  OBVIOUS
<1> QED
  BY <1>1, <1>2

LEMMA AlignedLeavesNothing ==
  ASSUME NEW tf \in Timeframe, NEW p, IsAligned(p, tf)
  PROVE  p % Period[tf] = 0
<1> DEFINE d == Period[tf]
           q == (p \div d) * d
           r == p % d
<1>1. d \in Nat \ {0}
  BY PeriodAssumption DEF Timeframe
<1>2. p \in Nat
  <2>1. \A n \in Nat : n * d \in Nat
    BY <1>1
  <2> QED
    BY <2>1 DEF IsAligned
<1>3. p \div d \in Nat /\ q \in Nat /\ r \in 0 .. d - 1 /\ p = q + r
  <2> HIDE DEF d
  <2> QED
    BY <1>1, <1>2, Division
<1>4. IsAligned(q, tf)
  BY <1>3 DEF IsAligned
<1>5. q < p => q + d <= p
  BY <1>4, AlignedAreApart
<1> HIDE DEF d, q, r
<1>6. r = 0
  BY <1>1, <1>2, <1>3, <1>5
<1> QED
  BY <1>6 DEF d, r

LEMMA RowIsCandle ==
  ASSUME NEW c, NEW s \in Seq(TradeRow), NEW tf, NEW p, NEW run \in Nat, IsRow(c, s, tf, p, run)
  PROVE  c \in Candle
<1>1. PICK r \in 0 .. run : \E n \in 1 .. Len(TradesOf(s, tf, p, r)) :
                            c = CandleOf(SubSeq(TradesOf(s, tf, p, r), 1, n))
  BY DEF IsRow
<1> DEFINE t == TradesOf(s, tf, p, r)
<1>2. PICK n \in 1 .. Len(t) : c = CandleOf(SubSeq(t, 1, n))
  BY <1>1
<1>3. t \in Seq(TradeRow)
  BY RowsAtIsSeq DEF TradesOf, Among
<1> HIDE DEF t
<1> DEFINE first == SubSeq(t, 1, n)
<1>4. first \in Seq(TradeRow) /\ Len(first) = n /\ n # 0
  <2>1. n \in Nat \ {0} /\ \A i \in 1 .. n : t[i] \in TradeRow
    BY <1>3, LenProperties, ElementOfSeq
  <2>2. first \in Seq(TradeRow) /\ Len(first) = IF 1 <= n THEN n - 1 + 1 ELSE 0
    BY <2>1, SubSeqProperties
  <2> QED
    BY <2>1, <2>2
<1> HIDE DEF first
<1>5. first # <<>>
  BY <1>4, EmptySeq
<1> QED
  BY <1>2, <1>4, <1>5, CandleOfTrades DEF first

(* Whatever is traded, written and restarted, buffers and rows hold        *)
(* candles, and a buffer starts on a boundary of its timeframe that has    *)
(* come, for any timeframes.                                               *)
THEOREM CandleTypes == MarketSpec => []TypeOK
<1>1. Candles => TypeOK
  <2> SUFFICES ASSUME Candles PROVE TypeOK
    OBVIOUS
  <2>1. /\ buffers \in [Timeframe -> BufferType] /\ clock \in Nat /\ trades \in Seq(TradeRow)
        /\ restarts \in Nat
    BY DEF Candles, Inv, Typed, Built
  <2>2. ASSUME NEW tf \in Timeframe
        PROVE  /\ buffers[tf].has_data \in BOOLEAN /\ buffers[tf].candle \in Candle
               /\ buffers[tf].period_start % Period[tf] = 0 /\ buffers[tf].period_start <= clock
               /\ \A p \in DOMAIN price_history[tf] : price_history[tf][p] \in Candle
    <3>1. buffers[tf].has_data \in BOOLEAN /\ buffers[tf].candle \in Candle
      BY <2>1 DEF BufferType
    <3>2. IsAligned(buffers[tf].period_start, tf) /\ buffers[tf].period_start <= clock
      BY DEF Candles, Built, IsBuilt
    <3>3. \A p \in DOMAIN price_history[tf] : IsRow(price_history[tf][p], trades, tf, p, restarts)
      BY DEF Candles, RowsInv
    <3> QED
      BY <2>1, <3>1, <3>2, <3>3, AlignedLeavesNothing, RowIsCandle
  <2> QED
    BY <2>1, <2>2 DEF TypeOK
<1> QED
  BY <1>1, CandlesHold, MarketImplementsAggregation, PTL
=============================================================================
