-------------------------- MODULE SettlementProofs --------------------------
(***************************************************************************)
(* For all players, ledgers and batches: a settlement is carried out       *)
(* entirely or not at all, nobody is ever in debt, the trades table        *)
(* explains every balance, the reports agree with it and with one another, *)
(* and the rank stored with a player is that of its xp.                    *)
(***************************************************************************)
EXTENDS Reports, RowsProofs

-----------------------------------------------------------------------------
(* A ledger in which nobody is in debt.                                    *)
Solvent(l) ==
  /\ l = [gold |-> l.gold, cards |-> l.cards, xp |-> l.xp, level |-> l.level, trades |-> l.trades]
  /\ l.gold \in [User -> Nat]
  /\ l.cards \in [User -> Nat]

(* The transaction's copy must be solvent as well as the committed ledger, *)
(* for it may be committed; and a statement must have a trade to settle.   *)
Inv ==
  /\ Solvent(db)
  /\ Solvent(txn)
  /\ pc # "idle" => batch \in Seq(Bill) /\ k \in 1 .. Len(batch)

(* Cut off to whole gold, a product of doubles is a whole number no        *)
(* greater than the product, though it may fall short of it.               *)
LEMMA WholeIs ==
  ASSUME NEW price \in Nat, NEW quantity \in Nat
  PROVE  /\ Whole(price, quantity, Scale) \in Nat
         /\ Scale * Whole(price, quantity, Scale) <= price * quantity
         /\ price * quantity \in Nat
<1> DEFINE short == IF <<price, quantity, Scale>> \in FallsShort THEN 1 ELSE 0
<1>1. price * quantity - short \in Nat /\ price * quantity \in Nat /\ short \in {0, 1}
  <2>1. CASE <<price, quantity, Scale>> \in FallsShort
    <3>1. price \in Nat \ {0} /\ quantity \in Nat \ {0}
      BY <2>1, FallsShortAssumption
    <3>2. PICK a \in Nat : price = a + 1
      <4>1. price - 1 \in Nat
        BY <3>1
      <4> QED
        BY <4>1
    <3>3. PICK b \in Nat : quantity = b + 1
      <4>1. quantity - 1 \in Nat
        BY <3>1
      <4> QED
        BY <4>1
    <3>4. price * quantity = a * b + a + b + 1 /\ a * b \in Nat
      BY <3>2, <3>3
    <3> QED
      BY <2>1, <3>4
  <2>2. CASE <<price, quantity, Scale>> \notin FallsShort
    BY <2>2
  <2> QED
    BY <2>1, <2>2
<1>2. PICK value \in Nat : value = price * quantity - short
  BY <1>1
<1>3. Whole(price, quantity, Scale) = value \div Scale
  BY <1>2 DEF Whole
<1> HIDE DEF short
<1>4. value \div Scale \in Nat /\ Scale * (value \div Scale) <= value
  BY ScaleAssumption
<1>5. value <= price * quantity
  BY <1>1, <1>2
<1>6. Scale * (value \div Scale) \in Nat
  BY <1>4, ScaleAssumption
<1> QED
  BY <1>1, <1>3, <1>4, <1>5, <1>6

LEMMA CostIsNat ==
  ASSUME NEW tr \in Bill
  PROVE  Cost(tr) \in Nat /\ tr.quantity \in Nat /\ tr.buyer \in User /\ tr.seller \in User
<1>1. tr.price \in Nat /\ tr.quantity \in Nat /\ tr.buyer \in User /\ tr.seller \in User
  BY DEF Bill
<1> QED
  BY <1>1, WholeIs DEF Cost

LEMMA InitInv == Init => Inv
<1> SUFFICES ASSUME Init PROVE Inv
  OBVIOUS
<1>1. IsLedger(db) /\ \A u \in User : db.gold[u] >= 0 /\ db.cards[u] >= 0
  BY OpeningAssumption DEF Init
<1>2. db.gold \in [User -> Nat] /\ db.cards \in [User -> Nat]
  BY <1>1 DEF IsLedger
<1> QED
  BY <1>1, <1>2 DEF Init, Inv, IsLedger, Solvent

LEMMA NextInv == Inv /\ [Next]_vars => Inv'
<1> SUFFICES ASSUME Inv, [Next]_vars PROVE Inv'
  OBVIOUS
<1> DEFINE tr == Trade
           cost == Cost(tr)
           quantity == tr.quantity
<1>1. ASSUME pc # "idle"
      PROVE  cost \in Nat /\ quantity \in Nat /\ tr.buyer \in User /\ tr.seller \in User
  <2>1. tr \in Bill
    BY <1>1 DEF Inv, Trade
  <2> QED
    BY <2>1, CostIsNat
<1>2. ASSUME NEW b \in Batches, Begin(b)
      PROVE  Inv'
  <2>1. b \in Seq(Bill) /\ 1 \in 1 .. Len(b)
    BY <1>2, BatchesAssumption DEF Begin
  <2> QED
    BY <1>2, <2>1 DEF Begin, Goto, Inv, Solvent
<1>3. CASE Debit
  <2>1. pc # "idle" /\ txn.gold[tr.buyer] >= cost
    BY <1>3 DEF Debit, Goto
  <2> DEFINE gold == [txn.gold EXCEPT ![tr.buyer] = @ - cost]
  <2>2. txn.gold \in [User -> Nat] /\ tr.buyer \in User /\ cost \in Nat
    BY <1>1, <2>1 DEF Inv, Solvent
  <2>3. gold \in [User -> Nat]
    <3> HIDE DEF cost, tr
    <3>1. txn.gold[tr.buyer] - cost \in Nat
      BY <2>1, <2>2
    <3> QED
      BY <2>2, <3>1
  <2>4. txn' = [txn EXCEPT !.gold = gold]
    BY <1>3 DEF Debit, Inv, Solvent
  <2>5. Solvent(txn')
    <3> HIDE DEF gold
    <3> QED
      BY <2>3, <2>4 DEF Inv, Solvent
  <2> QED
    BY <1>3, <2>5 DEF Debit, Goto, Inv
<1>4. CASE Credit
  <2>1. pc # "idle"
    BY <1>4 DEF Credit, Goto
  <2> DEFINE gold == [txn.gold EXCEPT ![tr.seller] = @ + cost]
  <2>2. txn.gold \in [User -> Nat] /\ tr.seller \in User /\ cost \in Nat
    BY <1>1, <2>1 DEF Inv, Solvent
  <2>3. gold \in [User -> Nat]
    <3> HIDE DEF cost, tr
    <3>1. txn.gold[tr.seller] + cost \in Nat
      BY <2>2
    <3> QED
      BY <2>2, <3>1
  <2>4. txn' = [txn EXCEPT !.gold = gold]
    BY <1>4 DEF Credit, Inv, Solvent
  <2>5. Solvent(txn')
    <3> HIDE DEF gold
    <3> QED
      BY <2>3, <2>4 DEF Inv, Solvent
  <2> QED
    BY <1>4, <2>5 DEF Credit, Goto, Inv
<1>5. CASE Transfer
  <2>1. pc # "idle" /\ txn.cards[tr.seller] >= quantity
    BY <1>5 DEF Transfer, Goto
  <2> DEFINE cards == [u \in User |-> txn.cards[u] + (IF u = tr.buyer THEN quantity ELSE 0)
                                                  - (IF u = tr.seller THEN quantity ELSE 0)]
  <2>2. txn.cards \in [User -> Nat] /\ quantity \in Nat
    BY <1>1, <2>1 DEF Inv, Solvent
  <2>3. cards \in [User -> Nat]
    <3> HIDE DEF quantity, tr
    <3> QED
      BY <2>1, <2>2
  <2>4. txn' = [txn EXCEPT !.cards = cards]
    BY <1>5 DEF Transfer, Inv, Solvent
  <2>5. Solvent(txn')
    <3> HIDE DEF cards
    <3> QED
      BY <2>3, <2>4 DEF Inv, Solvent
  <2> QED
    BY <1>5, <2>5 DEF Transfer, Goto, Inv
<1>6. ASSUME NEW trades, txn' = [txn EXCEPT !.trades = trades]
      PROVE  Solvent(txn')
  BY <1>6 DEF Inv, Solvent
<1>7. CASE Record
  <2>1. txn' = [txn EXCEPT !.trades = Append(txn.trades, Trade)]
    BY <1>7 DEF Record
  <2>2. Solvent(txn')
    BY <1>6, <2>1
  <2> QED
    BY <1>7, <2>2 DEF Record, Goto, Inv
<1>8. ASSUME NEW u, txn' = Awarded(txn, u)
      PROVE  Solvent(txn')
  <2> DEFINE xp == [txn.xp EXCEPT ![u] = @ + TradeXp]
             level == [txn.level EXCEPT ![u] = RankOf(txn.xp[u] + TradeXp)]
  <2>1. txn' = [txn EXCEPT !.xp = xp, !.level = level]
    BY <1>8 DEF Awarded, Inv, Solvent
  <2> HIDE DEF xp, level
  <2> QED
    BY <2>1 DEF Inv, Solvent
<1>9. CASE AwardBuyer
  <2>1. Solvent(txn')
    BY <1>8, <1>9 DEF AwardBuyer
  <2> QED
    BY <1>9, <2>1 DEF AwardBuyer, Goto, Inv
<1>10. CASE AwardSeller
  <2>1. Solvent(txn')
    BY <1>8, <1>10 DEF AwardSeller
  <2>2. pc' # "idle" => batch' \in Seq(Bill) /\ k' \in 1 .. Len(batch')
    BY <1>10 DEF AwardSeller, Advance, Inv
  <2> QED
    BY <1>10, <2>1, <2>2 DEF AwardSeller, Inv
<1>11. CASE Commit
  BY <1>11 DEF Commit, Close, Inv
<1>12. CASE Abort
  BY <1>12 DEF Abort, Close, Inv
<1>13. CASE UNCHANGED vars
  BY <1>13 DEF vars, Inv, Solvent
<1> QED
  BY <1>2, <1>3, <1>4, <1>5, <1>7, <1>9, <1>10, <1>11, <1>12, <1>13 DEF Next

(* Nobody is ever in debt, whatever the batches and whenever they fail.    *)
THEOREM NeverOverdrawn == Spec => []NoOverdraft
<1>1. Inv => NoOverdraft
  BY DEF Inv, Solvent, NoOverdraft
<1> QED
  BY <1>1, InitInv, NextInv, PTL DEF Spec

-----------------------------------------------------------------------------
(* A ledger whose ranks are those of the xp.                               *)
Ranked(l) ==
  /\ l = [gold |-> l.gold, cards |-> l.cards, xp |-> l.xp, level |-> l.level, trades |-> l.trades]
  /\ l.xp \in [User -> Nat]
  /\ l.level = [u \in User |-> RankOf(l.xp[u])]

(* The transaction's copy is ranked at every statement, for award_xp sets  *)
(* both columns at once.                                                   *)
RanksInv == Ranked(db) /\ Ranked(txn)

LEMMA RanksInit == Init => RanksInv
<1> SUFFICES ASSUME Init PROVE RanksInv
  OBVIOUS
<1>1. IsLedger(db) /\ \A u \in User : db.level[u] = RankOf(db.xp[u])
  BY OpeningAssumption, OpeningRanksAssumption DEF Init
<1>2. db.level = [u \in User |-> RankOf(db.xp[u])]
  BY <1>1 DEF IsLedger
<1> QED
  BY <1>1, <1>2 DEF Init, RanksInv, Ranked, IsLedger

LEMMA AwardedIsRanked ==
  ASSUME NEW l, Ranked(l), NEW u
  PROVE  Ranked(Awarded(l, u))
<1> DEFINE xp == [l.xp EXCEPT ![u] = @ + TradeXp]
           level == [l.level EXCEPT ![u] = RankOf(l.xp[u] + TradeXp)]
           all == [gold |-> l.gold, cards |-> l.cards, xp |-> xp, level |-> level,
                   trades |-> l.trades]
<1>1. Awarded(l, u) = all
  <2>1. Awarded(l, u) = [l EXCEPT !.xp = xp, !.level = level]
    BY DEF Awarded, Ranked
  <2> HIDE DEF xp, level
  <2> QED
    BY <2>1 DEF Ranked
<1>2. xp \in [User -> Nat]
  <2>1. l.xp \in [User -> Nat] /\ \A v \in User : l.xp[v] + TradeXp \in Nat
    BY XpAssumption DEF Ranked
  <2> QED
    BY <2>1
<1>3. level = [v \in User |-> RankOf(xp[v])]
  BY DEF Ranked
<1> HIDE DEF xp, level
<1> QED
  BY <1>1, <1>2, <1>3 DEF Ranked

LEMMA RanksNext == RanksInv /\ [Next]_vars => RanksInv'
<1> SUFFICES ASSUME RanksInv, [Next]_vars PROVE RanksInv'
  OBVIOUS
<1>1. ASSUME NEW b \in Batches, Begin(b)
      PROVE  RanksInv'
  BY <1>1 DEF Begin, RanksInv
<1>2. ASSUME NEW gold, txn' = [txn EXCEPT !.gold = gold]
      PROVE  Ranked(txn')
  BY <1>2 DEF RanksInv, Ranked
<1>3. CASE Debit
  <2>1. txn' = [txn EXCEPT !.gold = [txn.gold EXCEPT ![Trade.buyer] = @ - Cost(Trade)]]
    BY <1>3 DEF Debit, RanksInv, Ranked
  <2> QED
    BY <1>2, <1>3, <2>1 DEF Debit, RanksInv
<1>4. CASE Credit
  <2>1. txn' = [txn EXCEPT !.gold = [txn.gold EXCEPT ![Trade.seller] = @ + Cost(Trade)]]
    BY <1>4 DEF Credit, RanksInv, Ranked
  <2> QED
    BY <1>2, <1>4, <2>1 DEF Credit, RanksInv
<1>5. ASSUME NEW cards, txn' = [txn EXCEPT !.cards = cards]
      PROVE  Ranked(txn')
  BY <1>5 DEF RanksInv, Ranked
<1>6. CASE Transfer
  <2>1. \E cards : txn' = [txn EXCEPT !.cards = cards]
    BY <1>6 DEF Transfer
  <2> QED
    BY <1>5, <1>6, <2>1 DEF Transfer, RanksInv
<1>7. ASSUME NEW trades, txn' = [txn EXCEPT !.trades = trades]
      PROVE  Ranked(txn')
  BY <1>7 DEF RanksInv, Ranked
<1>8. CASE Record
  <2>1. txn' = [txn EXCEPT !.trades = Append(txn.trades, Trade)]
    BY <1>8 DEF Record
  <2> QED
    BY <1>7, <1>8, <2>1 DEF Record, RanksInv
<1>9. CASE AwardBuyer
  BY <1>9, AwardedIsRanked DEF AwardBuyer, RanksInv
<1>10. CASE AwardSeller
  BY <1>10, AwardedIsRanked DEF AwardSeller, RanksInv
<1>11. CASE Commit \/ Abort
  BY <1>11 DEF Commit, Abort, Close, RanksInv
<1>12. CASE UNCHANGED vars
  BY <1>12 DEF vars, RanksInv
<1> QED
  BY <1>1, <1>3, <1>4, <1>6, <1>8, <1>9, <1>10, <1>11, <1>12 DEF Next

(* The rank stored with a player is always the one its xp stands for, for  *)
(* any table of ranks, although award_xp is the only statement that knows  *)
(* the two belong together.                                                *)
THEOREM RanksFollowXp == Spec => []LevelFollowsXp
<1>1. RanksInv => LevelFollowsXp
  BY DEF RanksInv, Ranked, LevelFollowsXp
<1> QED
  BY <1>1, RanksInit, RanksNext, PTL DEF Spec

-----------------------------------------------------------------------------
(* What one more trade adds to the sums of the ledger                      *)

(* Trades that move whole amounts.                                         *)
Moves(T) == \A tr \in T : Cost(tr) \in Int /\ tr.quantity \in Int

LEMMA BillsMove == Moves(Bill)
BY CostIsNat DEF Moves

LEMMA CostsAppend ==
  ASSUME NEW T, Moves(T), NEW ts \in Seq(T), NEW tr \in T
  PROVE  /\ Total([i \in DOMAIN ts |-> Cost(ts[i])]) \in Int
         /\ Total([i \in DOMAIN Append(ts, tr) |-> Cost(Append(ts, tr)[i])])
              = Total([i \in DOMAIN ts |-> Cost(ts[i])]) + Cost(tr)
<1> DEFINE F == [x \in T |-> Cost(x)]
           more == Append(ts, tr)
<1>1. F \in [T -> Int] /\ \A x \in T : F[x] = Cost(x)
  BY DEF Moves
<1>2. /\ \A i \in DOMAIN ts : ts[i] \in T
      /\ more \in Seq(T) /\ \A i \in DOMAIN more : more[i] \in T
  BY AppendProperties, LenProperties, ElementOfSeq
<1> HIDE DEF F, more
<1>3. [i \in DOMAIN ts |-> Cost(ts[i])] = [i \in DOMAIN ts |-> F[ts[i]]]
  BY <1>1, <1>2
<1>4. [i \in DOMAIN more |-> Cost(more[i])] = [i \in DOMAIN more |-> F[more[i]]]
  BY <1>1, <1>2
<1>5. /\ Total([i \in DOMAIN ts |-> F[ts[i]]]) \in Int
      /\ Total([i \in DOMAIN more |-> F[more[i]]]) = Total([i \in DOMAIN ts |-> F[ts[i]]]) + F[tr]
  BY <1>1, ColumnAppend, ZenonT(60) DEF more
<1> QED
  BY <1>1, <1>3, <1>4, <1>5 DEF more

LEMMA QuantitiesAppend ==
  ASSUME NEW T, Moves(T), NEW ts \in Seq(T), NEW tr \in T
  PROVE  /\ Total([i \in DOMAIN ts |-> ts[i].quantity]) \in Int
         /\ Total([i \in DOMAIN Append(ts, tr) |-> Append(ts, tr)[i].quantity])
              = Total([i \in DOMAIN ts |-> ts[i].quantity]) + tr.quantity
<1> DEFINE F == [x \in T |-> x.quantity]
           more == Append(ts, tr)
<1>1. F \in [T -> Int] /\ \A x \in T : F[x] = x.quantity
  BY DEF Moves
<1>2. /\ \A i \in DOMAIN ts : ts[i] \in T
      /\ more \in Seq(T) /\ \A i \in DOMAIN more : more[i] \in T
  BY AppendProperties, LenProperties, ElementOfSeq
<1> HIDE DEF F, more
<1>3. [i \in DOMAIN ts |-> ts[i].quantity] = [i \in DOMAIN ts |-> F[ts[i]]]
  BY <1>1, <1>2
<1>4. [i \in DOMAIN more |-> more[i].quantity] = [i \in DOMAIN more |-> F[more[i]]]
  BY <1>1, <1>2
<1>5. /\ Total([i \in DOMAIN ts |-> F[ts[i]]]) \in Int
      /\ Total([i \in DOMAIN more |-> F[more[i]]]) = Total([i \in DOMAIN ts |-> F[ts[i]]]) + F[tr]
  BY <1>1, ColumnAppend DEF more
<1> QED
  BY <1>1, <1>3, <1>4, <1>5 DEF more

LEMMA BoughtAppend ==
  ASSUME NEW T, NEW ts \in Seq(T), NEW tr \in T, NEW u
  PROVE  /\ BoughtBy(u, ts) \in Seq(T)
         /\ BoughtBy(u, Append(ts, tr)) =
              IF tr.buyer = u THEN Append(BoughtBy(u, ts), tr) ELSE BoughtBy(u, ts)
<1> DEFINE more == Append(ts, tr)
           n == Len(ts)
           I == {i \in DOMAIN ts : ts[i].buyer = u}
           J == {i \in DOMAIN more : more[i].buyer = u}
<1>1. /\ n \in Nat /\ DOMAIN ts = 1 .. n /\ DOMAIN more = 1 .. n + 1
      /\ more[n + 1] = tr /\ \A i \in 1 .. n : more[i] = ts[i]
  BY AppendProperties, LenProperties
<1>2. BoughtBy(u, ts) = RowsAt(ts, I) /\ BoughtBy(u, more) = RowsAt(more, J)
  BY DEF BoughtBy, Where
<1>3. (n + 1 \in J <=> tr.buyer = u) /\ \A i \in 1 .. n : i \in I <=> i \in J
  <2> HIDE DEF more, n
  <2> QED
    BY <1>1
<1> HIDE DEF I, J
<1>4. RowsAt(more, J) = IF n + 1 \in J THEN Append(RowsAt(ts, I), tr) ELSE RowsAt(ts, I)
  BY <1>3, RowsAtAppend
<1> QED
  BY <1>2, <1>3, <1>4, RowsAtIsSeq

LEMMA SoldAppend ==
  ASSUME NEW T, NEW ts \in Seq(T), NEW tr \in T, NEW u
  PROVE  /\ SoldBy(u, ts) \in Seq(T)
         /\ SoldBy(u, Append(ts, tr)) =
              IF tr.seller = u THEN Append(SoldBy(u, ts), tr) ELSE SoldBy(u, ts)
<1> DEFINE more == Append(ts, tr)
           n == Len(ts)
           I == {i \in DOMAIN ts : ts[i].seller = u}
           J == {i \in DOMAIN more : more[i].seller = u}
<1>1. /\ n \in Nat /\ DOMAIN ts = 1 .. n /\ DOMAIN more = 1 .. n + 1
      /\ more[n + 1] = tr /\ \A i \in 1 .. n : more[i] = ts[i]
  BY AppendProperties, LenProperties
<1>2. SoldBy(u, ts) = RowsAt(ts, I) /\ SoldBy(u, more) = RowsAt(more, J)
  BY DEF SoldBy, Where
<1>3. (n + 1 \in J <=> tr.seller = u) /\ \A i \in 1 .. n : i \in I <=> i \in J
  <2> HIDE DEF more, n
  <2> QED
    BY <1>1
<1> HIDE DEF I, J
<1>4. RowsAt(more, J) = IF n + 1 \in J THEN Append(RowsAt(ts, I), tr) ELSE RowsAt(ts, I)
  BY <1>3, RowsAtAppend
<1> QED
  BY <1>2, <1>3, <1>4, RowsAtIsSeq

LEMMA FlowsOfNothing ==
  ASSUME NEW u
  PROVE  GoldFlow(u, <<>>) = 0 /\ CardFlow(u, <<>>) = 0 /\ Sides(u, <<>>) = 0
<1>1. BoughtBy(u, <<>>) = <<>> /\ SoldBy(u, <<>>) = <<>>
  BY RowsAtEmpty DEF BoughtBy, SoldBy, Where
<1>2. SumOver(<<>>, Cost) = 0
  <2>1. [i \in DOMAIN <<>> |-> Cost(<<>>[i])] = <<>>
    OBVIOUS
  <2> QED
    BY <2>1, TotalEmpty DEF SumOver
<1>3. Total([i \in DOMAIN <<>> |-> <<>>[i].quantity]) = 0
  <2>1. [i \in DOMAIN <<>> |-> <<>>[i].quantity] = <<>>
    OBVIOUS
  <2> QED
    BY <2>1, TotalEmpty
<1>4. GoldFlow(u, <<>>) = 0 - 0
  BY <1>1, <1>2 DEF GoldFlow
<1>5. CardFlow(u, <<>>) = 0 - 0
  BY <1>1, <1>3 DEF CardFlow, SumOver
<1> QED
  BY <1>1, <1>4, <1>5 DEF Sides

LEMMA FlowsAppend ==
  ASSUME NEW T, Moves(T), NEW ts \in Seq(T), NEW tr \in T, NEW u
  PROVE  /\ GoldFlow(u, ts) \in Int /\ CardFlow(u, ts) \in Int /\ Sides(u, ts) \in Nat
         /\ GoldFlow(u, Append(ts, tr)) =
              GoldFlow(u, ts) + (IF tr.seller = u THEN Cost(tr) ELSE 0)
                              - (IF tr.buyer = u THEN Cost(tr) ELSE 0)
         /\ CardFlow(u, Append(ts, tr)) =
              CardFlow(u, ts) + (IF tr.buyer = u THEN tr.quantity ELSE 0)
                              - (IF tr.seller = u THEN tr.quantity ELSE 0)
         /\ Sides(u, Append(ts, tr)) =
              Sides(u, ts) + (IF tr.buyer = u THEN 1 ELSE 0) + (IF tr.seller = u THEN 1 ELSE 0)
<1> DEFINE more == Append(ts, tr)
           bought == BoughtBy(u, ts)
           sold == SoldBy(u, ts)
           costs(rows) == Total([i \in DOMAIN rows |-> Cost(rows[i])])
           amounts(rows) == Total([i \in DOMAIN rows |-> rows[i].quantity])
<1>1. /\ bought \in Seq(T) /\ sold \in Seq(T)
      /\ BoughtBy(u, more) = IF tr.buyer = u THEN Append(bought, tr) ELSE bought
      /\ SoldBy(u, more) = IF tr.seller = u THEN Append(sold, tr) ELSE sold
  BY BoughtAppend, SoldAppend
<1>2. \A rows : GoldFlow(u, rows) = costs(SoldBy(u, rows)) - costs(BoughtBy(u, rows))
  BY DEF GoldFlow, SumOver
<1>3. \A rows : CardFlow(u, rows) = amounts(BoughtBy(u, rows)) - amounts(SoldBy(u, rows))
  BY DEF CardFlow, SumOver
<1>4. \A rows : Sides(u, rows) = Len(BoughtBy(u, rows)) + Len(SoldBy(u, rows))
  BY DEF Sides
<1>5. ASSUME NEW rows \in Seq(T)
      PROVE  /\ costs(rows) \in Int /\ costs(Append(rows, tr)) = costs(rows) + Cost(tr)
             /\ amounts(rows) \in Int /\ amounts(Append(rows, tr)) = amounts(rows) + tr.quantity
             /\ Len(rows) \in Nat /\ Len(Append(rows, tr)) = Len(rows) + 1
  <2>1. costs(rows) \in Int /\ costs(Append(rows, tr)) = costs(rows) + Cost(tr)
    BY CostsAppend
  <2>2. amounts(rows) \in Int /\ amounts(Append(rows, tr)) = amounts(rows) + tr.quantity
    BY QuantitiesAppend
  <2>3. Len(rows) \in Nat /\ Len(Append(rows, tr)) = Len(rows) + 1
    BY AppendProperties, LenProperties
  <2> QED
    BY <2>1, <2>2, <2>3
<1>6. Cost(tr) \in Int /\ tr.quantity \in Int
  BY DEF Moves
<1> HIDE DEF more, bought, sold, costs, amounts
<1>7. costs(bought) \in Int /\ costs(sold) \in Int /\ amounts(bought) \in Int
      /\ amounts(sold) \in Int /\ Len(bought) \in Nat /\ Len(sold) \in Nat
  BY <1>1, <1>5
<1>8. /\ GoldFlow(u, ts) = costs(sold) - costs(bought)
      /\ CardFlow(u, ts) = amounts(bought) - amounts(sold)
      /\ Sides(u, ts) = Len(bought) + Len(sold)
  BY <1>2, <1>3, <1>4 DEF bought, sold
<1>9. GoldFlow(u, more) = GoldFlow(u, ts) + (IF tr.seller = u THEN Cost(tr) ELSE 0)
                                          - (IF tr.buyer = u THEN Cost(tr) ELSE 0)
  <2>1. costs(SoldBy(u, more)) = costs(sold) + (IF tr.seller = u THEN Cost(tr) ELSE 0)
    BY <1>1, <1>5, <1>7
  <2>2. costs(BoughtBy(u, more)) = costs(bought) + (IF tr.buyer = u THEN Cost(tr) ELSE 0)
    BY <1>1, <1>5, <1>7
  <2> QED
    BY <1>2, <1>6, <1>7, <1>8, <2>1, <2>2
<1>10. CardFlow(u, more) = CardFlow(u, ts) + (IF tr.buyer = u THEN tr.quantity ELSE 0)
                                           - (IF tr.seller = u THEN tr.quantity ELSE 0)
  <2>1. amounts(SoldBy(u, more)) = amounts(sold) + (IF tr.seller = u THEN tr.quantity ELSE 0)
    BY <1>1, <1>5, <1>7
  <2>2. amounts(BoughtBy(u, more)) = amounts(bought) + (IF tr.buyer = u THEN tr.quantity ELSE 0)
    BY <1>1, <1>5, <1>7
  <2> QED
    BY <1>3, <1>6, <1>7, <1>8, <2>1, <2>2
<1>11. Sides(u, more) =
         Sides(u, ts) + (IF tr.buyer = u THEN 1 ELSE 0) + (IF tr.seller = u THEN 1 ELSE 0)
  <2>1. Len(SoldBy(u, more)) = Len(sold) + (IF tr.seller = u THEN 1 ELSE 0)
    BY <1>1, <1>5, <1>7
  <2>2. Len(BoughtBy(u, more)) = Len(bought) + (IF tr.buyer = u THEN 1 ELSE 0)
    BY <1>1, <1>5, <1>7
  <2> QED
    BY <1>4, <1>7, <1>8, <2>1, <2>2, SMTT(30)
<1> QED
  BY <1>7, <1>8, <1>9, <1>10, <1>11 DEF more

(* The flows of two sequences of trades add up.                            *)
LEMMA FlowsConcat ==
  ASSUME NEW T, Moves(T), NEW ts \in Seq(T), NEW more \in Seq(T), NEW u
  PROVE  /\ GoldFlow(u, ts \o more) = GoldFlow(u, ts) + GoldFlow(u, more)
         /\ CardFlow(u, ts \o more) = CardFlow(u, ts) + CardFlow(u, more)
         /\ Sides(u, ts \o more) = Sides(u, ts) + Sides(u, more)
<1> DEFINE Adds(rows) ==
             /\ GoldFlow(u, ts \o rows) = GoldFlow(u, ts) + GoldFlow(u, rows)
             /\ CardFlow(u, ts \o rows) = CardFlow(u, ts) + CardFlow(u, rows)
             /\ Sides(u, ts \o rows) = Sides(u, ts) + Sides(u, rows)
           P == {rows \in Seq(T) : Adds(rows)}
<1>1. ASSUME NEW rows \in Seq(T)
      PROVE  GoldFlow(u, rows) \in Int /\ CardFlow(u, rows) \in Int /\ Sides(u, rows) \in Nat
  <2>1. CASE rows = <<>>
    BY <2>1, FlowsOfNothing
  <2>2. CASE rows # <<>>
    <3>1. PICK front \in Seq(T), tr \in T : rows = Append(front, tr)
      BY <2>2, SequenceEmptyOrAppend
    <3>2. tr \in T
      BY <3>1
    <3> QED
      BY <3>2, FlowsAppend
  <2> QED
    BY <2>1, <2>2
<1>2. <<>> \in P
  <2>1. ts \o <<>> = ts /\ <<>> \in Seq(T)
    BY ConcatEmptySeq, EmptySeq
  <2>2. GoldFlow(u, <<>>) = 0 /\ CardFlow(u, <<>>) = 0 /\ Sides(u, <<>>) = 0
    BY FlowsOfNothing
  <2>3. GoldFlow(u, ts) \in Int /\ CardFlow(u, ts) \in Int /\ Sides(u, ts) \in Nat
    BY <1>1
  <2>4. Adds(<<>>)
    BY <2>1, <2>2, <2>3
  <2> HIDE DEF Adds
  <2> QED
    BY <2>1, <2>4
<1>3. ASSUME NEW rows \in P \cap Seq(T), NEW tr \in T
      PROVE  Append(rows, tr) \in P
  <2>1. Append(rows, tr) \in Seq(T) /\ ts \o rows \in Seq(T)
    BY AppendProperties, ConcatProperties
  <2>2. ts \o Append(rows, tr) = Append(ts \o rows, tr)
    <3>1. <<tr>> \in Seq(T)
      OBVIOUS
    <3>2. Append(rows, tr) = rows \o <<tr>> /\ Append(ts \o rows, tr) = (ts \o rows) \o <<tr>>
      BY <2>1, AppendIsConcat
    <3>3. ts \o (rows \o <<tr>>) = (ts \o rows) \o <<tr>>
      BY <3>1, ConcatAssociative
    <3> QED
      BY <3>2, <3>3
  <2> DEFINE both == ts \o rows
  <2> HIDE DEF both
  <2>3. Adds(rows)
    OBVIOUS
  <2>4. /\ GoldFlow(u, both) = GoldFlow(u, ts) + GoldFlow(u, rows)
        /\ CardFlow(u, both) = CardFlow(u, ts) + CardFlow(u, rows)
        /\ Sides(u, both) = Sides(u, ts) + Sides(u, rows)
    BY <2>3 DEF both
  <2> HIDE DEF Adds
  <2>5. both \in Seq(T) /\ ts \o Append(rows, tr) = Append(both, tr)
    BY <2>1, <2>2 DEF both
  <2>6. Cost(tr) \in Int /\ tr.quantity \in Int
    BY DEF Moves
  <2>7. GoldFlow(u, Append(both, tr)) = GoldFlow(u, ts) + GoldFlow(u, Append(rows, tr))
    <3>1. GoldFlow(u, ts) \in Int /\ GoldFlow(u, rows) \in Int
      BY <1>1
    <3>2. GoldFlow(u, Append(rows, tr)) =
            GoldFlow(u, rows) + (IF tr.seller = u THEN Cost(tr) ELSE 0)
                              - (IF tr.buyer = u THEN Cost(tr) ELSE 0)
      BY FlowsAppend
    <3>3. GoldFlow(u, Append(both, tr)) =
            GoldFlow(u, both) + (IF tr.seller = u THEN Cost(tr) ELSE 0)
                              - (IF tr.buyer = u THEN Cost(tr) ELSE 0)
      BY <2>5, FlowsAppend
    <3> QED
      BY <2>4, <2>6, <3>1, <3>2, <3>3
  <2>8. CardFlow(u, Append(both, tr)) = CardFlow(u, ts) + CardFlow(u, Append(rows, tr))
    <3>1. CardFlow(u, ts) \in Int /\ CardFlow(u, rows) \in Int
      BY <1>1
    <3>2. CardFlow(u, Append(rows, tr)) =
            CardFlow(u, rows) + (IF tr.buyer = u THEN tr.quantity ELSE 0)
                              - (IF tr.seller = u THEN tr.quantity ELSE 0)
      BY FlowsAppend
    <3>3. CardFlow(u, Append(both, tr)) =
            CardFlow(u, both) + (IF tr.buyer = u THEN tr.quantity ELSE 0)
                              - (IF tr.seller = u THEN tr.quantity ELSE 0)
      BY <2>5, FlowsAppend
    <3> QED
      BY <2>4, <2>6, <3>1, <3>2, <3>3
  <2>9. Sides(u, Append(both, tr)) = Sides(u, ts) + Sides(u, Append(rows, tr))
    <3>1. Sides(u, ts) \in Nat /\ Sides(u, rows) \in Nat
      BY <1>1
    <3>2. Sides(u, Append(rows, tr)) =
            Sides(u, rows) + (IF tr.buyer = u THEN 1 ELSE 0) + (IF tr.seller = u THEN 1 ELSE 0)
      BY FlowsAppend
    <3>3. Sides(u, Append(both, tr)) =
            Sides(u, both) + (IF tr.buyer = u THEN 1 ELSE 0) + (IF tr.seller = u THEN 1 ELSE 0)
      BY <2>5, FlowsAppend
    <3> QED
      BY <2>4, <3>1, <3>2, <3>3
  <2>10. Adds(Append(rows, tr))
    BY <2>5, <2>7, <2>8, <2>9 DEF Adds
  <2> QED
    BY <2>1, <2>10
<1>4. Seq(T) \subseteq P
  <2> HIDE DEF P
  <2> QED
    BY <1>2, <1>3, RowsInduction
<1>5. more \in P
  BY <1>4
<1> HIDE DEF Adds
<1>6. Adds(more)
  BY <1>5
<1> QED
  BY <1>6 DEF Adds

-----------------------------------------------------------------------------
(* A whole batch at once *)

LedgerOf(gold, cards, xp, level, trades) ==
  [gold |-> gold, cards |-> cards, xp |-> xp, level |-> level, trades |-> trades]

(* A ledger whose trades are bills.                                        *)
Books(l) ==
  /\ l = LedgerOf(l.gold, l.cards, l.xp, l.level, l.trades)
  /\ l.gold \in [User -> Int]
  /\ l.cards \in [User -> Int]
  /\ l.xp \in [User -> Nat]
  /\ l.level = [u \in User |-> l.level[u]]
  /\ l.trades \in Seq(Bill)

(* The ledger l after each statement for trade tr.                         *)
Debited(l, tr) ==
  LedgerOf([l.gold EXCEPT ![tr.buyer] = @ - Cost(tr)], l.cards, l.xp, l.level, l.trades)

Credited(l, tr) ==
  LedgerOf([Debited(l, tr).gold EXCEPT ![tr.seller] = @ + Cost(tr)],
           l.cards, l.xp, l.level, l.trades)

Transferred(l, tr) ==
  LedgerOf(Credited(l, tr).gold,
           [u \in User |-> l.cards[u] + (IF u = tr.buyer THEN tr.quantity ELSE 0)
                                      - (IF u = tr.seller THEN tr.quantity ELSE 0)],
           l.xp, l.level, l.trades)

Recorded(l, tr) ==
  LedgerOf(Credited(l, tr).gold, Transferred(l, tr).cards, l.xp, l.level, Append(l.trades, tr))

BuyerAwarded(l, tr)  == Awarded(Recorded(l, tr), tr.buyer)
SellerAwarded(l, tr) == Awarded(BuyerAwarded(l, tr), tr.seller)

(* The ledger the batch has made of db before its trade j.                 *)
Before(j) == AfterTrades(db, SubSeq(batch, 1, j - 1))

BuyerCanPay(j)      == Before(j).gold[batch[j].buyer] >= Cost(batch[j])
SellerCanDeliver(j) == Before(j).cards[batch[j].seller] >= batch[j].quantity

(* The transaction has done the statements before pc for trade k and all   *)
(* the trades before it, each of which could be settled.                   *)
Progress ==
  /\ Books(db)
  /\ pc \in Location
  /\ pc # "idle" => batch \in Batches /\ batch \in Seq(Bill) /\ k \in 1 .. Len(batch)
  /\ pc = "debit"        => txn = Before(k)
  /\ pc = "credit"       => txn = Debited(Before(k), batch[k])
  /\ pc = "transfer"     => txn = Credited(Before(k), batch[k])
  /\ pc = "record"       => txn = Transferred(Before(k), batch[k])
  /\ pc = "award_buyer"  => txn = Recorded(Before(k), batch[k])
  /\ pc = "award_seller" => txn = BuyerAwarded(Before(k), batch[k])
  /\ pc = "commit"       => k = Len(batch) /\ txn = AfterTrades(db, batch)
  /\ pc # "idle" =>
       /\ \A j \in 1 .. k - 1 : BuyerCanPay(j) /\ SellerCanDeliver(j)
       /\ pc # "debit" => BuyerCanPay(k)
       /\ pc \notin {"debit", "credit", "transfer"} => SellerCanDeliver(k)

(* The columns of l after trades ts.                                       *)
GoldAfter(l, ts)  == [u \in User |-> l.gold[u] + GoldFlow(u, ts)]
CardsAfter(l, ts) == [u \in User |-> l.cards[u] + CardFlow(u, ts)]
XpAfter(l, ts)    == [u \in User |-> l.xp[u] + TradeXp * Sides(u, ts)]
LevelAfter(l, ts) ==
  [u \in User |-> IF Sides(u, ts) > 0 THEN RankOf(l.xp[u] + TradeXp * Sides(u, ts))
                  ELSE l.level[u]]

LEMMA FlowTypes ==
  ASSUME NEW ts \in Seq(Bill), NEW u
  PROVE  GoldFlow(u, ts) \in Int /\ CardFlow(u, ts) \in Int /\ Sides(u, ts) \in Nat
<1>1. CASE ts = <<>>
  BY <1>1, FlowsOfNothing
<1>2. CASE ts # <<>>
  <2>1. PICK front \in Seq(Bill), tr \in Bill : ts = Append(front, tr)
    BY <1>2, SequenceEmptyOrAppend
  <2>2. tr \in Bill
    BY <2>1
  <2> QED
    BY <2>2, BillsMove, FlowsAppend
<1> QED
  BY <1>1, <1>2

LEMMA Distributes ==
  ASSUME NEW a \in Nat, NEW n \in Nat
  PROVE  /\ a * n \in Nat
         /\ a * (n + 1) = a * n + a
         /\ a * ((n + 1) + 1) = a * n + a + a
OBVIOUS

LEMMA AfterTradesBooks ==
  ASSUME NEW l, Books(l), NEW ts \in Seq(Bill)
  PROVE  /\ Books(AfterTrades(l, ts))
         /\ AfterTrades(l, ts).gold = GoldAfter(l, ts)
         /\ AfterTrades(l, ts).cards = CardsAfter(l, ts)
         /\ AfterTrades(l, ts).xp = XpAfter(l, ts)
         /\ AfterTrades(l, ts).level = LevelAfter(l, ts)
         /\ AfterTrades(l, ts).trades = l.trades \o ts
<1> DEFINE gold == [u \in User |-> l.gold[u] + GoldFlow(u, ts)]
           cards == [u \in User |-> l.cards[u] + CardFlow(u, ts)]
           xp == [u \in User |-> l.xp[u] + TradeXp * Sides(u, ts)]
           level == [u \in User |-> IF Sides(u, ts) > 0 THEN RankOf(xp[u]) ELSE l.level[u]]
           rank == [u \in User |-> IF Sides(u, ts) > 0 THEN RankOf(l.xp[u] + TradeXp * Sides(u, ts))
                                   ELSE l.level[u]]
           trades == l.trades \o ts
<1>1. AfterTrades(l, ts) = LedgerOf(gold, cards, xp, level, trades)
  BY DEF AfterTrades, LedgerOf
<1>2. \A u \in User : GoldFlow(u, ts) \in Int /\ CardFlow(u, ts) \in Int /\ Sides(u, ts) \in Nat
  BY FlowTypes
<1>3. gold \in [User -> Int] /\ cards \in [User -> Int]
  BY <1>2, SMTT(30) DEF Books
<1>4. xp \in [User -> Nat]
  <2>1. ASSUME NEW u \in User
        PROVE  l.xp[u] + TradeXp * Sides(u, ts) \in Nat
    <3> DEFINE n == Sides(u, ts)
    <3>1. n \in Nat /\ l.xp[u] \in Nat /\ TradeXp \in Nat
      BY <1>2, XpAssumption DEF Books
    <3> HIDE DEF n
    <3>2. TradeXp * n \in Nat
      BY <3>1, Distributes
    <3> QED
      BY <3>1, <3>2 DEF n
  <2> QED
    BY <2>1
<1>5. level = [u \in User |-> level[u]]
  OBVIOUS
<1>6. trades \in Seq(Bill)
  BY ConcatProperties DEF Books
<1>7. level = rank
  OBVIOUS
<1> HIDE DEF gold, cards, xp, level, rank, trades
<1>8. AfterTrades(l, ts) = LedgerOf(gold, cards, xp, rank, trades)
  BY <1>1, <1>7
<1>9. Books(LedgerOf(gold, cards, xp, rank, trades))
  BY <1>3, <1>4, <1>5, <1>6, <1>7 DEF Books, LedgerOf
<1> QED
  BY <1>8, <1>9 DEF LedgerOf, gold, cards, xp, rank, trades,
                    GoldAfter, CardsAfter, XpAfter, LevelAfter

LEMMA AwardedIs ==
  ASSUME NEW gold, NEW cards, NEW xp, NEW level, NEW trades, NEW u
  PROVE  Awarded(LedgerOf(gold, cards, xp, level, trades), u) =
           LedgerOf(gold, cards, [xp EXCEPT ![u] = @ + TradeXp],
                    [level EXCEPT ![u] = RankOf(xp[u] + TradeXp)], trades)
<1> DEFINE newXp == [xp EXCEPT ![u] = @ + TradeXp]
           newLevel == [level EXCEPT ![u] = RankOf(xp[u] + TradeXp)]
           l == LedgerOf(gold, cards, xp, level, trades)
<1>1. Awarded(l, u) = [LedgerOf(gold, cards, xp, level, trades) EXCEPT !.xp = newXp, !.level = newLevel]
  BY DEF Awarded, LedgerOf
<1> HIDE DEF newXp, newLevel
<1>2. l = [gold |-> gold, cards |-> cards, xp |-> xp, level |-> level, trades |-> trades]
  BY DEF LedgerOf
<1>3. Awarded(l, u) = [l EXCEPT !.xp = newXp, !.level = newLevel]
  BY <1>1
<1> HIDE DEF l
<1>4. Awarded(l, u) = [gold |-> gold, cards |-> cards, xp |-> newXp, level |-> newLevel,
                       trades |-> trades]
  BY <1>2, <1>3
<1> QED
  BY <1>4 DEF l, newXp, newLevel, LedgerOf

(* The six statements for a trade make of a ledger what AfterTrades makes  *)
(* of it with one more trade.                                              *)
LEMMA StatementsSettle ==
  ASSUME NEW l, Books(l), NEW ts \in Seq(Bill), NEW tr \in Bill
  PROVE  SellerAwarded(AfterTrades(l, ts), tr) = AfterTrades(l, Append(ts, tr))
<1> DEFINE a == AfterTrades(l, ts)
           b == AfterTrades(l, Append(ts, tr))
           cost == Cost(tr)
           q == tr.quantity
           buyer == tr.buyer
           seller == tr.seller
           gold == [[a.gold EXCEPT ![buyer] = @ - cost] EXCEPT ![seller] = @ + cost]
           cards == [u \in User |-> a.cards[u] + (IF u = buyer THEN q ELSE 0)
                                               - (IF u = seller THEN q ELSE 0)]
           trades == Append(a.trades, tr)
           xp1 == [a.xp EXCEPT ![buyer] = @ + TradeXp]
           xp2 == [xp1 EXCEPT ![seller] = @ + TradeXp]
           level1 == [a.level EXCEPT ![buyer] = RankOf(a.xp[buyer] + TradeXp)]
           level2 == [level1 EXCEPT ![seller] = RankOf(xp1[seller] + TradeXp)]
<1>1. cost \in Nat /\ q \in Nat /\ buyer \in User /\ seller \in User
  BY CostIsNat
<1>2. Append(ts, tr) \in Seq(Bill)
  BY AppendProperties
<1>3. Books(a) /\ Books(b)
  BY <1>2, AfterTradesBooks
<1>4. SellerAwarded(a, tr) = LedgerOf(gold, cards, xp2, level2, trades)
  <2> HIDE DEF a
  <2>1. Credited(a, tr).gold = gold
    BY DEF Credited, Debited, LedgerOf
  <2>2. Transferred(a, tr).cards = cards
    BY DEF Transferred, LedgerOf
  <2>3. Recorded(a, tr) = LedgerOf(gold, cards, a.xp, a.level, trades)
    BY <2>1, <2>2 DEF Recorded
  <2> HIDE DEF gold, cards, trades
  <2>4. BuyerAwarded(a, tr) = LedgerOf(gold, cards, xp1, level1, trades)
    BY <2>3, AwardedIs DEF BuyerAwarded
  <2> HIDE DEF xp1, level1
  <2> QED
    BY <2>4, AwardedIs DEF SellerAwarded
<1>5. /\ a.gold = GoldAfter(l, ts)
      /\ a.cards = CardsAfter(l, ts)
      /\ a.xp = XpAfter(l, ts)
      /\ a.level = LevelAfter(l, ts)
      /\ a.trades = l.trades \o ts
  BY AfterTradesBooks
<1>6. /\ b.gold = GoldAfter(l, Append(ts, tr))
      /\ b.cards = CardsAfter(l, Append(ts, tr))
      /\ b.xp = XpAfter(l, Append(ts, tr))
      /\ b.level = LevelAfter(l, Append(ts, tr))
      /\ b.trades = l.trades \o Append(ts, tr)
  BY <1>2, AfterTradesBooks
<1> HIDE DEF a, b
<1>7. ASSUME NEW u \in User
      PROVE  /\ GoldFlow(u, ts) \in Int /\ CardFlow(u, ts) \in Int /\ Sides(u, ts) \in Nat
             /\ GoldFlow(u, Append(ts, tr)) =
                  GoldFlow(u, ts) + (IF seller = u THEN cost ELSE 0) - (IF buyer = u THEN cost ELSE 0)
             /\ CardFlow(u, Append(ts, tr)) =
                  CardFlow(u, ts) + (IF buyer = u THEN q ELSE 0) - (IF seller = u THEN q ELSE 0)
             /\ Sides(u, Append(ts, tr)) =
                  Sides(u, ts) + (IF buyer = u THEN 1 ELSE 0) + (IF seller = u THEN 1 ELSE 0)
  BY BillsMove, FlowsAppend
<1>8. \A u \in User : l.gold[u] \in Int /\ l.cards[u] \in Int /\ l.xp[u] \in Nat
  BY DEF Books
<1> HIDE DEF cost, q, buyer, seller
<1>9. gold = b.gold
  <2>1. gold = [u \in User |-> a.gold[u] - (IF u = buyer THEN cost ELSE 0)
                                         + (IF u = seller THEN cost ELSE 0)]
    <3>1. a.gold \in [User -> Int] /\ cost \in Int
      BY <1>1, <1>3 DEF Books
    <3> DEFINE g == a.gold
               paid == [g EXCEPT ![buyer] = @ - cost]
    <3> HIDE DEF g
    <3>2. g \in [User -> Int]
      BY <3>1 DEF g
    <3>3. paid \in [User -> Int] /\ \A u \in User : paid[u] = g[u] - (IF u = buyer THEN cost ELSE 0)
      BY <1>1, <3>1, <3>2
    <3>4. gold = [paid EXCEPT ![seller] = @ + cost]
      BY DEF g
    <3> HIDE DEF paid, gold
    <3>5. gold = [u \in User |-> gold[u]]
      BY <1>1, <3>3, <3>4
    <3>6. \A u \in User : gold[u] = paid[u] + (IF u = seller THEN cost ELSE 0)
      BY <1>1, <3>1, <3>3, <3>4
    <3>7. \A u \in User : gold[u] = a.gold[u] - (IF u = buyer THEN cost ELSE 0)
                                             + (IF u = seller THEN cost ELSE 0)
      BY <3>3, <3>6 DEF g
    <3> QED
      BY <3>5, <3>7
  <2>2. ASSUME NEW u \in User
        PROVE  a.gold[u] - (IF u = buyer THEN cost ELSE 0) + (IF u = seller THEN cost ELSE 0)
                 = l.gold[u] + GoldFlow(u, Append(ts, tr))
    <3>1. a.gold[u] = l.gold[u] + GoldFlow(u, ts) /\ l.gold[u] \in Int /\ GoldFlow(u, ts) \in Int
      BY <1>5, <1>7, <1>8 DEF GoldAfter
    <3>2. GoldFlow(u, Append(ts, tr)) =
            GoldFlow(u, ts) + (IF seller = u THEN cost ELSE 0) - (IF buyer = u THEN cost ELSE 0)
      BY <1>7
    <3> QED
      BY <1>1, <3>1, <3>2
  <2> HIDE DEF gold
  <2> QED
    BY <1>6, <2>1, <2>2 DEF GoldAfter
<1>10. cards = b.cards
  <2>1. ASSUME NEW u \in User
        PROVE  a.cards[u] + (IF u = buyer THEN q ELSE 0) - (IF u = seller THEN q ELSE 0)
                 = l.cards[u] + CardFlow(u, Append(ts, tr))
    <3>1. a.cards[u] = l.cards[u] + CardFlow(u, ts) /\ l.cards[u] \in Int /\ CardFlow(u, ts) \in Int
      BY <1>5, <1>7, <1>8 DEF CardsAfter
    <3>2. CardFlow(u, Append(ts, tr)) =
            CardFlow(u, ts) + (IF buyer = u THEN q ELSE 0) - (IF seller = u THEN q ELSE 0)
      BY <1>7
    <3> QED
      BY <1>1, <3>1, <3>2
  <2> QED
    BY <1>6, <2>1 DEF CardsAfter
<1>11. trades = b.trades
  <2> DEFINE old == l.trades
  <2>1. <<tr>> \in Seq(Bill) /\ old \in Seq(Bill) /\ old \o ts \in Seq(Bill)
    BY ConcatProperties DEF Books
  <2> HIDE DEF old
  <2>2. Append(ts, tr) = ts \o <<tr>> /\ Append(old \o ts, tr) = (old \o ts) \o <<tr>>
    BY <2>1, AppendIsConcat
  <2>3. old \o (ts \o <<tr>>) = (old \o ts) \o <<tr>>
    BY <2>1, ConcatAssociative
  <2> QED
    BY <1>5, <1>6, <2>2, <2>3 DEF old
<1>12. ASSUME NEW u \in User
       PROVE  /\ a.xp[u] = l.xp[u] + TradeXp * Sides(u, ts)
              /\ b.xp[u] = a.xp[u] + (IF u = buyer THEN TradeXp ELSE 0)
                                   + (IF u = seller THEN TradeXp ELSE 0)
              /\ a.xp[u] \in Nat
  <2>1. a.xp[u] = l.xp[u] + TradeXp * Sides(u, ts) /\ b.xp[u] = l.xp[u] + TradeXp * Sides(u, Append(ts, tr))
    BY <1>5, <1>6 DEF XpAfter
  <2> DEFINE n == Sides(u, ts)
  <2>3. n \in Nat /\ Sides(u, Append(ts, tr)) = n + (IF buyer = u THEN 1 ELSE 0) + (IF seller = u THEN 1 ELSE 0)
    BY <1>7
  <2> HIDE DEF n
  <2>4. /\ TradeXp * n \in Nat
        /\ TradeXp * (n + 1) = TradeXp * n + TradeXp
        /\ TradeXp * ((n + 1) + 1) = TradeXp * n + TradeXp + TradeXp
    BY <2>3, XpAssumption, Distributes
  <2>5. CASE buyer = u /\ seller = u
    <3>1. Sides(u, Append(ts, tr)) = (n + 1) + 1
      BY <2>3, <2>5
    <3>2. b.xp[u] = l.xp[u] + (TradeXp * n + TradeXp + TradeXp)
      BY <2>1, <2>4, <3>1
    <3> QED
      BY <1>8, <2>1, <2>4, <2>5, <3>2, XpAssumption DEF n
  <2>6. CASE (buyer = u) # (seller = u)
    <3>1. Sides(u, Append(ts, tr)) = n + 1
      BY <2>3, <2>6
    <3>2. b.xp[u] = l.xp[u] + (TradeXp * n + TradeXp)
      BY <2>1, <2>4, <3>1
    <3> QED
      BY <1>8, <2>1, <2>4, <2>6, <3>2, XpAssumption DEF n
  <2>7. CASE buyer # u /\ seller # u
    <3>1. Sides(u, Append(ts, tr)) = n
      BY <2>3, <2>7
    <3>2. b.xp[u] = l.xp[u] + TradeXp * n
      BY <2>1, <3>1
    <3> QED
      BY <1>8, <2>1, <2>4, <2>7, <3>2 DEF n
  <2> QED
    BY <2>5, <2>6, <2>7
<1>13. xp2 = b.xp
  <2>1. a.xp \in [User -> Nat]
    BY <1>3 DEF Books
  <2>2. xp2 = [u \in User |-> a.xp[u] + (IF u = buyer THEN TradeXp ELSE 0)
                                      + (IF u = seller THEN TradeXp ELSE 0)]
    BY <1>1, <2>1, XpAssumption
  <2>3. b.xp = [u \in User |-> b.xp[u]]
    BY <1>3 DEF Books
  <2> HIDE DEF xp2
  <2> QED
    BY <1>12, <2>2, <2>3
<1>14. level2 = b.level
  <2>1. ASSUME NEW u \in User
        PROVE  level2[u] = b.level[u]
    <3>1. b.level[u] = IF Sides(u, Append(ts, tr)) > 0 THEN RankOf(b.xp[u]) ELSE l.level[u]
      BY <1>6 DEF XpAfter, LevelAfter
    <3>2. CASE u = seller
      <4>1. level2[u] = RankOf(xp2[u])
        BY <1>1, <1>3, <3>2 DEF Books
      <4>2. Sides(u, Append(ts, tr)) > 0
        BY <1>7, <3>2
      <4> QED
        BY <1>13, <3>1, <4>1, <4>2
    <3>3. CASE u # seller /\ u = buyer
      <4>1. level2[u] = RankOf(xp2[u])
        BY <1>1, <1>3, <3>3 DEF Books
      <4>2. Sides(u, Append(ts, tr)) > 0
        BY <1>7, <3>3
      <4> QED
        BY <1>13, <3>1, <4>1, <4>2
    <3>4. CASE u # seller /\ u # buyer
      <4>1. level2[u] = a.level[u]
        BY <1>1, <1>3, <3>4 DEF Books
      <4>2. Sides(u, Append(ts, tr)) = Sides(u, ts) /\ b.xp[u] = a.xp[u]
        BY <1>7, <1>12, <3>4
      <4>3. a.level[u] = IF Sides(u, ts) > 0 THEN RankOf(a.xp[u]) ELSE l.level[u]
        BY <1>5, <1>12 DEF LevelAfter
      <4> QED
        BY <3>1, <4>1, <4>2, <4>3
    <3> QED
      BY <3>2, <3>3, <3>4
  <2>2. level2 = [u \in User |-> level2[u]]
    BY <1>1, <1>3 DEF Books
  <2>3. b.level = [u \in User |-> b.level[u]]
    BY <1>3 DEF Books
  <2> HIDE DEF level2
  <2> QED
    BY <2>1, <2>2, <2>3
<1> QED
  <2>1. b = LedgerOf(b.gold, b.cards, b.xp, b.level, b.trades)
    BY <1>3 DEF Books
  <2> QED
    BY <1>4, <1>9, <1>10, <1>11, <1>13, <1>14, <2>1 DEF a, b

(* Nothing comes of no trades, and one batch after the other is the two    *)
(* batches together.                                                       *)
LEMMA AfterNothing ==
  ASSUME NEW l, Books(l)
  PROVE  AfterTrades(l, <<>>) = l
<1>1. <<>> \in Seq(Bill)
  BY EmptySeq
<1>2. /\ Books(AfterTrades(l, <<>>))
      /\ AfterTrades(l, <<>>).gold = GoldAfter(l, <<>>)
      /\ AfterTrades(l, <<>>).cards = CardsAfter(l, <<>>)
      /\ AfterTrades(l, <<>>).xp = XpAfter(l, <<>>)
      /\ AfterTrades(l, <<>>).level = LevelAfter(l, <<>>)
      /\ AfterTrades(l, <<>>).trades = l.trades \o <<>>
  BY <1>1, AfterTradesBooks
<1>3. \A u \in User :
        /\ l.gold[u] + GoldFlow(u, <<>>) = l.gold[u]
        /\ l.cards[u] + CardFlow(u, <<>>) = l.cards[u]
        /\ l.xp[u] + TradeXp * Sides(u, <<>>) = l.xp[u]
        /\ ~(Sides(u, <<>>) > 0)
  BY FlowsOfNothing, XpAssumption DEF Books
<1>4. GoldAfter(l, <<>>) = l.gold
  BY <1>3 DEF GoldAfter, Books
<1>5. CardsAfter(l, <<>>) = l.cards
  BY <1>3 DEF CardsAfter, Books
<1>6. XpAfter(l, <<>>) = l.xp
  BY <1>3 DEF XpAfter, Books
<1>7. LevelAfter(l, <<>>) = l.level
  BY <1>3 DEF LevelAfter, Books
<1>8. l.trades \o <<>> = l.trades
  BY ConcatEmptySeq DEF Books
<1> QED
  BY <1>2, <1>4, <1>5, <1>6, <1>7, <1>8 DEF Books

LEMMA AfterBoth ==
  ASSUME NEW l, Books(l), NEW ts \in Seq(Bill), NEW more \in Seq(Bill)
  PROVE  AfterTrades(AfterTrades(l, ts), more) = AfterTrades(l, ts \o more)
<1> DEFINE a == AfterTrades(l, ts)
           b == AfterTrades(a, more)
           c == AfterTrades(l, ts \o more)
<1>1. ts \o more \in Seq(Bill)
  BY ConcatProperties
<1>2. Books(a)
  BY AfterTradesBooks
<1>3. /\ a.gold = GoldAfter(l, ts)
      /\ a.cards = CardsAfter(l, ts)
      /\ a.xp = XpAfter(l, ts)
      /\ a.level = LevelAfter(l, ts)
      /\ a.trades = l.trades \o ts
  BY AfterTradesBooks
<1>4. /\ Books(c)
      /\ c.gold = GoldAfter(l, ts \o more)
      /\ c.cards = CardsAfter(l, ts \o more)
      /\ c.xp = XpAfter(l, ts \o more)
      /\ c.level = LevelAfter(l, ts \o more)
      /\ c.trades = l.trades \o (ts \o more)
  BY <1>1, AfterTradesBooks
<1> HIDE DEF a, c
<1>5. /\ Books(b)
      /\ b.gold = GoldAfter(a, more)
      /\ b.cards = CardsAfter(a, more)
      /\ b.xp = XpAfter(a, more)
      /\ b.level = LevelAfter(a, more)
      /\ b.trades = a.trades \o more
  BY <1>2, AfterTradesBooks
<1>6. \A u \in User :
        /\ GoldFlow(u, ts) \in Int /\ CardFlow(u, ts) \in Int /\ Sides(u, ts) \in Nat
        /\ GoldFlow(u, more) \in Int /\ CardFlow(u, more) \in Int /\ Sides(u, more) \in Nat
        /\ GoldFlow(u, ts \o more) = GoldFlow(u, ts) + GoldFlow(u, more)
        /\ CardFlow(u, ts \o more) = CardFlow(u, ts) + CardFlow(u, more)
        /\ Sides(u, ts \o more) = Sides(u, ts) + Sides(u, more)
  BY FlowTypes, BillsMove, FlowsConcat
<1>7. \A u \in User : l.gold[u] \in Int /\ l.cards[u] \in Int /\ l.xp[u] \in Nat
  BY DEF Books
<1>8. GoldAfter(a, more) = GoldAfter(l, ts \o more)
  BY <1>3, <1>6, <1>7 DEF GoldAfter
<1>9. CardsAfter(a, more) = CardsAfter(l, ts \o more)
  BY <1>3, <1>6, <1>7 DEF CardsAfter
<1>10. \A u \in User :
         a.xp[u] + TradeXp * Sides(u, more) = l.xp[u] + TradeXp * Sides(u, ts \o more)
  <2> SUFFICES ASSUME NEW u \in User
               PROVE  a.xp[u] + TradeXp * Sides(u, more) = l.xp[u] + TradeXp * Sides(u, ts \o more)
    OBVIOUS
  <2> DEFINE m == Sides(u, ts)
             n == Sides(u, more)
  <2>1. /\ m \in Nat /\ n \in Nat /\ l.xp[u] \in Nat
        /\ Sides(u, ts \o more) = m + n /\ a.xp[u] = l.xp[u] + TradeXp * m
    BY <1>3, <1>6, <1>7 DEF XpAfter
  <2> HIDE DEF m, n
  <2>2. TradeXp * m \in Nat /\ TradeXp * n \in Nat /\ TradeXp * (m + n) = TradeXp * m + TradeXp * n
    BY <2>1, XpAssumption
  <2>3. l.xp[u] + TradeXp * m + TradeXp * n = l.xp[u] + TradeXp * (m + n)
    BY <2>1, <2>2
  <2> QED
    BY <2>1, <2>3 DEF n
<1>11. XpAfter(a, more) = XpAfter(l, ts \o more)
  BY <1>10 DEF XpAfter
<1>12. LevelAfter(a, more) = LevelAfter(l, ts \o more)
  <2>1. ASSUME NEW u \in User
        PROVE  LevelAfter(a, more)[u] = LevelAfter(l, ts \o more)[u]
    <3>1. CASE Sides(u, more) > 0
      BY <1>6, <1>10, <3>1 DEF LevelAfter
    <3>2. CASE ~(Sides(u, more) > 0)
      <4>1. Sides(u, more) = 0 /\ Sides(u, ts \o more) = Sides(u, ts)
        BY <1>6, <3>2
      <4>2. LevelAfter(a, more)[u] = a.level[u]
        BY <3>2 DEF LevelAfter
      <4> QED
        BY <1>3, <4>1, <4>2 DEF LevelAfter
    <3> QED
      BY <3>1, <3>2
  <2> QED
    BY <2>1 DEF LevelAfter
<1>13. a.trades \o more = l.trades \o (ts \o more)
  <2> DEFINE old == l.trades
  <2>1. old \in Seq(Bill)
    BY DEF Books
  <2> HIDE DEF old
  <2>2. (old \o ts) \o more = old \o (ts \o more)
    BY <2>1, ConcatAssociative
  <2> QED
    BY <1>3, <2>2 DEF old
<1>14. b = c
  BY <1>4, <1>5, <1>8, <1>9, <1>11, <1>12, <1>13 DEF Books
<1> QED
  BY <1>14 DEF a, c

(* What the trades before trade j have made of the ledger.                 *)
LEMMA Prefixes ==
  ASSUME NEW l, Books(l), NEW ts \in Seq(Bill), NEW j \in 1 .. Len(ts)
  PROVE  /\ SubSeq(ts, 1, 0) = <<>>
         /\ SubSeq(ts, 1, Len(ts)) = ts
         /\ SubSeq(ts, 1, j - 1) \in Seq(Bill)
         /\ Books(AfterTrades(l, SubSeq(ts, 1, j - 1)))
         /\ SellerAwarded(AfterTrades(l, SubSeq(ts, 1, j - 1)), ts[j])
              = AfterTrades(l, SubSeq(ts, 1, j))
<1>1. SubSeq(ts, 1, 0) = <<>>
  BY SubSeqEmpty
<1>2. SubSeq(ts, 1, Len(ts)) = ts
  BY SubSeqFull
<1>3. ts[j] \in Bill /\ \A i \in 1 .. j - 1 : ts[i] \in Bill
  BY ElementOfSeq, LenProperties
<1>4. SubSeq(ts, 1, j - 1) \in Seq(Bill)
  BY <1>3, SubSeqProperties
<1>5. SubSeq(ts, 1, j) = Append(SubSeq(ts, 1, j - 1), ts[j])
  <2>1. SubSeq(ts, 1, j) = SubSeq(ts, 1, j - 1) \o <<ts[j]>>
    BY LenProperties, SubSeqRecursiveSecond
  <2> QED
    BY <1>3, <1>4, <2>1, AppendIsConcat
<1> DEFINE front == SubSeq(ts, 1, j - 1)
           tr == ts[j]
<1>6. front \in Seq(Bill) /\ tr \in Bill
  BY <1>3, <1>4
<1> HIDE DEF front, tr
<1>7. Books(AfterTrades(l, front))
  BY <1>6, AfterTradesBooks
<1>8. SellerAwarded(AfterTrades(l, front), tr) = AfterTrades(l, Append(front, tr))
  BY <1>6, StatementsSettle
<1> QED
  BY <1>1, <1>2, <1>4, <1>5, <1>7, <1>8 DEF front, tr

(* The statements do to the transaction's ledger what they are named for.  *)
LEMMA Statements ==
  ASSUME NEW l, Books(l), NEW tr \in Bill
  PROVE  /\ [l EXCEPT !.gold[tr.buyer] = @ - Cost(tr)] = Debited(l, tr)
         /\ [Debited(l, tr) EXCEPT !.gold[tr.seller] = @ + Cost(tr)] = Credited(l, tr)
         /\ [Credited(l, tr) EXCEPT !.cards =
               [u \in User |-> @[u] + (IF u = tr.buyer THEN tr.quantity ELSE 0)
                                    - (IF u = tr.seller THEN tr.quantity ELSE 0)]]
              = Transferred(l, tr)
         /\ [Transferred(l, tr) EXCEPT !.trades = Append(@, tr)] = Recorded(l, tr)
         /\ Credited(l, tr).cards = l.cards
<1>1. [l EXCEPT !.gold[tr.buyer] = @ - Cost(tr)] = Debited(l, tr)
  <2> DEFINE paid == [l.gold EXCEPT ![tr.buyer] = @ - Cost(tr)]
  <2>1. [l EXCEPT !.gold[tr.buyer] = @ - Cost(tr)] = [l EXCEPT !.gold = paid]
    BY DEF Books, LedgerOf
  <2>2. Debited(l, tr) = LedgerOf(paid, l.cards, l.xp, l.level, l.trades)
    BY DEF Debited
  <2> HIDE DEF paid
  <2>3. l = LedgerOf(l.gold, l.cards, l.xp, l.level, l.trades)
    BY DEF Books
  <2>4. [l EXCEPT !.gold = paid] = LedgerOf(paid, l.cards, l.xp, l.level, l.trades)
    BY <2>3 DEF LedgerOf
  <2> QED
    BY <2>1, <2>2, <2>4
<1>2. [Debited(l, tr) EXCEPT !.gold[tr.seller] = @ + Cost(tr)] = Credited(l, tr)
  <2> DEFINE m == Debited(l, tr)
  <2>1. m = LedgerOf(m.gold, l.cards, l.xp, l.level, l.trades)
    BY DEF Debited, LedgerOf
  <2> HIDE DEF m
  <2>2. [m EXCEPT !.gold[tr.seller] = @ + Cost(tr)]
          = LedgerOf([m.gold EXCEPT ![tr.seller] = @ + Cost(tr)], l.cards, l.xp, l.level, l.trades)
    BY <2>1 DEF LedgerOf
  <2> QED
    BY <2>2 DEF Credited, m
<1>3. [Credited(l, tr) EXCEPT !.cards =
         [u \in User |-> @[u] + (IF u = tr.buyer THEN tr.quantity ELSE 0)
                              - (IF u = tr.seller THEN tr.quantity ELSE 0)]]
        = Transferred(l, tr)
  <2> DEFINE m == Credited(l, tr)
             moved == [u \in User |-> m.cards[u] + (IF u = tr.buyer THEN tr.quantity ELSE 0)
                                                 - (IF u = tr.seller THEN tr.quantity ELSE 0)]
  <2>1. m = LedgerOf(m.gold, l.cards, l.xp, l.level, l.trades)
    BY DEF Credited, LedgerOf
  <2>2. Transferred(l, tr) = LedgerOf(m.gold, moved, l.xp, l.level, l.trades)
    <3>1. m.cards = l.cards
      BY <2>1 DEF LedgerOf
    <3> QED
      BY <3>1 DEF Transferred
  <2> HIDE DEF m, moved
  <2>3. [m EXCEPT !.cards = moved] = LedgerOf(m.gold, moved, l.xp, l.level, l.trades)
    BY <2>1 DEF LedgerOf
  <2> QED
    BY <2>2, <2>3 DEF m, moved
<1>4. [Transferred(l, tr) EXCEPT !.trades = Append(@, tr)] = Recorded(l, tr)
  <2> DEFINE m == Transferred(l, tr)
  <2>1. m = LedgerOf(m.gold, m.cards, l.xp, l.level, l.trades) /\ m.gold = Credited(l, tr).gold
    BY DEF Transferred, LedgerOf
  <2> HIDE DEF m
  <2> DEFINE more == Append(l.trades, tr)
  <2>2. [m EXCEPT !.trades = Append(@, tr)] = [m EXCEPT !.trades = more]
    BY <2>1 DEF LedgerOf
  <2>3. Recorded(l, tr) = LedgerOf(m.gold, m.cards, l.xp, l.level, more)
    BY <2>1 DEF Recorded, m
  <2> HIDE DEF more
  <2>4. [m EXCEPT !.trades = more] = LedgerOf(m.gold, m.cards, l.xp, l.level, more)
    BY <2>1 DEF LedgerOf
  <2> QED
    BY <2>2, <2>3, <2>4 DEF m
<1>5. Credited(l, tr).cards = l.cards
  BY DEF Credited, LedgerOf
<1> QED
  BY <1>1, <1>2, <1>3, <1>4, <1>5

LEMMA ProgressInit == Init => Progress
<1> SUFFICES ASSUME Init PROVE Progress
  OBVIOUS
<1>1. IsLedger(db) /\ db.trades = <<>> /\ pc = "idle"
  BY OpeningAssumption, OpeningTradesAssumption DEF Init
<1>2. db.trades \in Seq(Bill)
  BY <1>1, EmptySeq
<1>3. Books(db)
  BY <1>1, <1>2 DEF IsLedger, Books, LedgerOf
<1> QED
  BY <1>1, <1>3 DEF Progress, Location

(* Every statement carries the work on, and the checks it makes are those  *)
(* of the batch as a whole.                                                *)
LEMMA ProgressNext == Progress /\ [Next]_vars => Progress'
<1> SUFFICES ASSUME Progress, [Next]_vars PROVE Progress'
  OBVIOUS
<1> DEFINE before == Before(k)
           tr == batch[k]
<1>1. ASSUME pc # "idle"
      PROVE  /\ batch \in Batches /\ batch \in Seq(Bill) /\ k \in 1 .. Len(batch)
             /\ tr \in Bill /\ Books(before)
             /\ SellerAwarded(before, tr) = Before(k + 1)
             /\ Before(Len(batch) + 1) = AfterTrades(db, batch)
             /\ Len(batch) \in Nat /\ k \in Nat
  <2>1. Books(db) /\ batch \in Batches /\ batch \in Seq(Bill) /\ k \in 1 .. Len(batch)
    BY <1>1 DEF Progress
  <2>2. tr \in Bill /\ Len(batch) \in Nat /\ k \in Nat
    BY <2>1, ElementOfSeq, LenProperties
  <2>3. k + 1 - 1 = k /\ Len(batch) + 1 - 1 = Len(batch)
    BY <2>2
  <2>4. /\ SubSeq(batch, 1, Len(batch)) = batch
        /\ Books(AfterTrades(db, SubSeq(batch, 1, k - 1)))
        /\ SellerAwarded(AfterTrades(db, SubSeq(batch, 1, k - 1)), batch[k])
             = AfterTrades(db, SubSeq(batch, 1, k))
    BY <2>1, Prefixes
  <2>5. ASSUME NEW i \in Nat
        PROVE  Before(i + 1) = AfterTrades(db, SubSeq(batch, 1, i))
    <3> DEFINE j == i + 1
    <3>1. j - 1 = i
      OBVIOUS
    <3> HIDE DEF j
    <3>2. Before(j) = AfterTrades(db, SubSeq(batch, 1, i))
      BY <3>1 DEF Before
    <3> QED
      BY <3>2 DEF j
  <2>6. Before(Len(batch) + 1) = AfterTrades(db, batch)
    BY <2>2, <2>4, <2>5
  <2> QED
    BY <2>1, <2>2, <2>4, <2>5, <2>6 DEF Before
<1> HIDE DEF before, tr
<1>2. ASSUME NEW b \in Batches, Begin(b)
      PROVE  Progress'
  <2>1. /\ b # <<>> /\ pc' = "debit" /\ batch' = b /\ txn' = db /\ k' = 1 /\ db' = db
        /\ Books(db)
    BY <1>2 DEF Begin, Goto, Progress
  <2>2. b \in Seq(Bill) /\ Len(b) \in Nat /\ Len(b) # 0
    BY <2>1, BatchesAssumption, EmptySeq, LenProperties
  <2>3. AfterTrades(db, SubSeq(b, 1, 0)) = db
    <3>1. 1 \in 1 .. Len(b)
      BY <2>2
    <3>2. SubSeq(b, 1, 0) = <<>>
      BY SubSeqEmpty
    <3> QED
      BY <2>1, <3>2, AfterNothing
  <2>4. AfterTrades(db', SubSeq(batch', 1, k' - 1)) = txn'
    BY <2>1, <2>3
  <2> QED
    BY <2>1, <2>2, <2>4 DEF Progress, Location, Before
<1>3. CASE Debit
  <2>1. /\ pc = "debit" /\ pc' = "credit" /\ db' = db /\ batch' = batch /\ k' = k
        /\ txn = before /\ txn.gold[tr.buyer] >= Cost(tr)
        /\ txn' = [txn EXCEPT !.gold[tr.buyer] = @ - Cost(tr)]
    BY <1>3 DEF Debit, Goto, Progress, Trade, before, tr
  <2>2. tr \in Bill /\ Books(before)
    BY <1>1, <2>1
  <2>3. txn' = Debited(before, tr)
    BY <2>1, <2>2, Statements
  <2>4. Progress!1 /\ Progress!3 /\ Progress!11
    BY DEF Progress
  <2> QED
    BY <2>1, <2>3, <2>4 DEF Progress, Location, Before, BuyerCanPay, SellerCanDeliver, before, tr
<1>4. CASE Credit
  <2>1. /\ pc = "credit" /\ pc' = "transfer" /\ db' = db /\ batch' = batch /\ k' = k
        /\ txn = Debited(before, tr)
        /\ txn' = [txn EXCEPT !.gold[tr.seller] = @ + Cost(tr)]
    BY <1>4 DEF Credit, Goto, Progress, Trade, before, tr
  <2>2. tr \in Bill /\ Books(before)
    BY <1>1, <2>1
  <2>3. txn' = Credited(before, tr)
    BY <2>1, <2>2, Statements
  <2>4. Progress!1 /\ Progress!3 /\ Progress!11
    BY DEF Progress
  <2> QED
    BY <2>1, <2>3, <2>4 DEF Progress, Location, Before, BuyerCanPay, SellerCanDeliver, before, tr
<1>5. CASE Transfer
  <2> DEFINE moved == [u \in User |-> txn.cards[u] + (IF u = tr.buyer THEN tr.quantity ELSE 0)
                                                   - (IF u = tr.seller THEN tr.quantity ELSE 0)]
  <2>1. /\ pc = "transfer" /\ pc' = "record" /\ db' = db /\ batch' = batch /\ k' = k
        /\ txn = Credited(before, tr) /\ txn.cards[tr.seller] >= tr.quantity
        /\ txn' = [txn EXCEPT !.cards = moved]
    BY <1>5 DEF Transfer, Goto, Progress, Trade, before, tr
  <2>2. tr \in Bill /\ Books(before)
    BY <1>1, <2>1
  <2>3. txn' = Transferred(before, tr) /\ txn.cards = before.cards
    BY <2>1, <2>2, Statements
  <2> HIDE DEF moved
  <2>4. Progress!1 /\ Progress!3 /\ Progress!11
    BY DEF Progress
  <2>5. before.cards[tr.seller] >= tr.quantity
    BY <2>1, <2>3
  <2> QED
    BY <2>1, <2>3, <2>4, <2>5
    DEF Progress, Location, Before, BuyerCanPay, SellerCanDeliver, before, tr
<1>6. CASE Record
  <2>1. /\ pc = "record" /\ pc' = "award_buyer" /\ db' = db /\ batch' = batch /\ k' = k
        /\ txn = Transferred(before, tr)
        /\ txn' = [txn EXCEPT !.trades = Append(@, tr)]
    BY <1>6 DEF Record, Goto, Progress, Trade, before, tr
  <2>2. tr \in Bill /\ Books(before)
    BY <1>1, <2>1
  <2>3. txn' = Recorded(before, tr)
    BY <2>1, <2>2, Statements
  <2>4. Progress!1 /\ Progress!3 /\ Progress!11
    BY DEF Progress
  <2> QED
    BY <2>1, <2>3, <2>4 DEF Progress, Location, Before, BuyerCanPay, SellerCanDeliver, before, tr
<1>7. CASE AwardBuyer
  <2>1. /\ pc = "award_buyer" /\ pc' = "award_seller" /\ db' = db /\ batch' = batch /\ k' = k
        /\ txn = Recorded(before, tr) /\ txn' = Awarded(txn, tr.buyer)
    BY <1>7 DEF AwardBuyer, Goto, Progress, Trade, before, tr
  <2>2. txn' = BuyerAwarded(before, tr)
    BY <2>1 DEF BuyerAwarded
  <2>3. Progress!1 /\ Progress!3 /\ Progress!11
    BY DEF Progress
  <2> QED
    BY <2>1, <2>2, <2>3 DEF Progress, Location, Before, BuyerCanPay, SellerCanDeliver, before, tr
<1>8. CASE AwardSeller
  <2>1. /\ pc = "award_seller" /\ db' = db /\ batch' = batch /\ Advance
        /\ txn = BuyerAwarded(before, tr) /\ txn' = Awarded(txn, tr.seller)
    BY <1>8 DEF AwardSeller, Progress, Trade, before, tr
  <2>2. /\ batch \in Batches /\ batch \in Seq(Bill) /\ k \in 1 .. Len(batch)
        /\ Len(batch) \in Nat /\ k \in Nat
        /\ txn' = Before(k + 1) /\ Before(Len(batch) + 1) = AfterTrades(db, batch)
    BY <1>1, <2>1 DEF SellerAwarded
  <2>3. \A j \in 1 .. k : BuyerCanPay(j) /\ SellerCanDeliver(j)
    <3>1. /\ \A j \in 1 .. k - 1 : BuyerCanPay(j) /\ SellerCanDeliver(j)
          /\ BuyerCanPay(k) /\ SellerCanDeliver(k)
      BY <2>1 DEF Progress
    <3>2. \A j \in 1 .. k : j \in 1 .. k - 1 \/ j = k
      BY <2>2
    <3> QED
      BY <3>1, <3>2
  <2>4. Books(db)
    BY DEF Progress
  <2>5. CASE k < Len(batch)
    <3>1. pc' = "debit" /\ k' = k + 1 /\ k' \in 1 .. Len(batch) /\ k' - 1 = k
      BY <2>1, <2>2, <2>5 DEF Advance
    <3>2. txn' = Before(k)'
      <4>1. Before(k + 1) = AfterTrades(db, SubSeq(batch, 1, (k + 1) - 1)) /\ (k + 1) - 1 = k
        BY <2>2 DEF Before
      <4>2. Before(k)' = AfterTrades(db, SubSeq(batch, 1, k' - 1))
        BY <2>1 DEF Before
      <4> QED
        BY <2>2, <3>1, <4>1, <4>2
    <3>3. (\A j \in 1 .. k - 1 : BuyerCanPay(j) /\ SellerCanDeliver(j))'
      BY <2>1, <2>3, <3>1 DEF Before, BuyerCanPay, SellerCanDeliver
    <3> QED
      BY <2>1, <2>2, <2>4, <3>1, <3>2, <3>3 DEF Progress, Location
  <2>6. CASE ~(k < Len(batch))
    <3>1. pc' = "commit" /\ k' = k /\ k = Len(batch)
      BY <2>1, <2>2, <2>6 DEF Advance
    <3>2. txn' = AfterTrades(db', batch')
      BY <2>1, <2>2, <3>1
    <3>3. \A j \in 1 .. k' : (BuyerCanPay(j) /\ SellerCanDeliver(j))'
      BY <2>1, <2>3, <3>1 DEF Before, BuyerCanPay, SellerCanDeliver
    <3> QED
      BY <2>1, <2>2, <2>4, <3>1, <3>2, <3>3 DEF Progress, Location
  <2> QED
    BY <2>5, <2>6
<1>9. CASE Commit
  <2>1. pc = "commit" /\ db' = txn /\ pc' = "idle" /\ txn = AfterTrades(db, batch) /\ Books(db)
    BY <1>9 DEF Commit, Close, Progress
  <2>2. Books(txn)
    BY <1>1, <2>1, AfterTradesBooks
  <2> QED
    BY <2>1, <2>2 DEF Progress, Location
<1>10. CASE Abort
  BY <1>10 DEF Abort, Close, Progress, Location
<1>11. CASE UNCHANGED vars
  BY <1>11 DEF vars, Progress, Location, Before, BuyerCanPay, SellerCanDeliver
<1> QED
  BY <1>2, <1>3, <1>4, <1>5, <1>6, <1>7, <1>8, <1>9, <1>10, <1>11 DEF Next

(* AtomicSettlement computes with the operators of the ledger too.         *)
LEMMA SameFlows ==
  ASSUME NEW u, NEW ts
  PROVE  /\ Atomic!GoldFlow(u, ts) = GoldFlow(u, ts)
         /\ Atomic!CardFlow(u, ts) = CardFlow(u, ts)
         /\ Atomic!Sides(u, ts) = Sides(u, ts)
<1>1. /\ Atomic!BoughtBy(u, ts) = BoughtBy(u, ts)
      /\ Atomic!SoldBy(u, ts) = SoldBy(u, ts)
  BY DEF BoughtBy, SoldBy, Where, RowsAt, RunningRows, Atomic!BoughtBy, Atomic!SoldBy,
         Atomic!Where, Atomic!RowsAt, Atomic!RunningRows
<1>2. \A column : Atomic!Total(column) = Total(column)
  BY DEF Total, RunningTotal, Atomic!Total, Atomic!RunningTotal
<1>3. \A tr : Atomic!Cost(tr) = Cost(tr)
  BY DEF Cost, Whole, Atomic!Cost, Atomic!Whole
<1>4. Atomic!GoldFlow(u, ts) = GoldFlow(u, ts)
  BY <1>1, <1>2, <1>3 DEF GoldFlow, SumOver, Atomic!GoldFlow, Atomic!SumOver
<1>5. Atomic!CardFlow(u, ts) = CardFlow(u, ts)
  BY <1>1, <1>2 DEF CardFlow, SumOver, Atomic!CardFlow, Atomic!SumOver
<1>6. Atomic!Sides(u, ts) = Sides(u, ts)
  BY <1>1 DEF Sides, Atomic!Sides
<1> QED
  BY <1>4, <1>5, <1>6

LEMMA SameSettlement ==
  ASSUME NEW l, NEW ts
  PROVE  /\ Atomic!AfterTrades(l, ts) = AfterTrades(l, ts)
         /\ Atomic!CanSettle(l, ts) = CanSettle(l, ts)
<1>1. \A xp : Atomic!RankOf(xp) = RankOf(xp)
  BY DEF RankOf, Rank, Atomic!RankOf, Atomic!Rank
<1>2. \A tr : Atomic!Cost(tr) = Cost(tr)
  BY DEF Cost, Whole, Atomic!Cost, Atomic!Whole
<1>3. ASSUME NEW rows
      PROVE  Atomic!AfterTrades(l, rows) = AfterTrades(l, rows)
  BY <1>1, SameFlows DEF AfterTrades, Atomic!AfterTrades
<1>4. Atomic!CanSettle(l, ts) = CanSettle(l, ts)
  BY <1>2, <1>3 DEF CanSettle, Atomic!CanSettle
<1> QED
  BY <1>3, <1>4

(* The statements of a transaction, whatever interrupts them, amount to    *)
(* settling the batch at once and as a whole, or not at all: the checks    *)
(* made trade by trade are those of the whole batch, and what its sums say *)
(* is what the ledger holds once it is committed.                          *)
THEOREM SettlementIsAtomic == Spec => SettlesAtomically
<1>1. Init => Atomic!Init
  BY DEF Init, Atomic!Init
<1>2. Progress /\ [Next]_vars => [Atomic!Next]_db
  <2> SUFFICES ASSUME Progress, [Next]_vars PROVE [Atomic!Next]_db
    OBVIOUS
  <2>1. CASE Commit
    <3>1. /\ db' = txn /\ batch \in Batches /\ batch \in Seq(Bill) /\ Books(db)
          /\ k = Len(batch) /\ k \in 1 .. Len(batch) /\ txn = AfterTrades(db, batch)
          /\ \A j \in 1 .. k - 1 : BuyerCanPay(j) /\ SellerCanDeliver(j)
          /\ BuyerCanPay(k) /\ SellerCanDeliver(k)
      BY <2>1 DEF Commit, Close, Progress
    <3>2. db'.trades = db.trades \o batch
      BY <3>1, AfterTradesBooks
    <3>3. CanSettle(db, batch)
      <4>1. DOMAIN batch = 1 .. Len(batch) /\ Len(batch) \in Nat
        BY <3>1, LenProperties
      <4>2. \A j \in DOMAIN batch : BuyerCanPay(j) /\ SellerCanDeliver(j)
        BY <3>1, <4>1
      <4> QED
        BY <4>2 DEF CanSettle, BuyerCanPay, SellerCanDeliver, Before
    <3>4. Atomic!Settle(batch)
      BY <3>1, <3>2, <3>3, SameSettlement DEF Atomic!Settle
    <3> QED
      BY <3>1, <3>4 DEF Atomic!Next
  <2>2. CASE Abort \/ UNCHANGED vars
    BY <2>2 DEF Abort, Close, vars
  <2>3. CASE \E b \in Batches : Begin(b)
    BY <2>3 DEF Begin
  <2>4. CASE Debit \/ Credit \/ Transfer \/ Record \/ AwardBuyer \/ AwardSeller
    BY <2>4 DEF Debit, Credit, Transfer, Record, AwardBuyer, AwardSeller
  <2> QED
    BY <2>1, <2>2, <2>3, <2>4 DEF Next
<1> QED
  BY <1>1, <1>2, ProgressInit, ProgressNext, PTL DEF Spec, SettlesAtomically, Atomic!Spec

(* The committed ledger is the one the run started from after all the      *)
(* trades the table records.                                               *)
Explained ==
  /\ Books(opened)
  /\ Books(db)
  /\ db = AfterTrades(opened, db.trades)

LEMMA BalancesExplained == Spec => []Explained
<1>1. Init /\ Progress => Explained
  <2> SUFFICES ASSUME Init, Progress PROVE Explained
    OBVIOUS
  <2>1. opened = db /\ db.trades = <<>> /\ Books(db)
    BY OpeningTradesAssumption DEF Init, Progress
  <2> QED
    BY <2>1, AfterNothing DEF Explained
<1>2. Progress /\ Explained /\ [Next]_vars => Explained'
  <2> SUFFICES ASSUME Progress, Explained, [Next]_vars PROVE Explained'
    OBVIOUS
  <2>1. CASE Commit
    <3>1. /\ db' = AfterTrades(db, batch) /\ opened' = opened /\ batch \in Seq(Bill)
          /\ Books(db) /\ Books(opened)
      BY <2>1 DEF Commit, Close, Progress, Explained
    <3>2. Books(db') /\ db'.trades = db.trades \o batch
      BY <3>1, AfterTradesBooks
    <3> DEFINE ts == db.trades
    <3>3. ts \in Seq(Bill) /\ db = AfterTrades(opened, ts)
      BY DEF Explained, Books
    <3> HIDE DEF ts
    <3>4. db' = AfterTrades(opened, ts \o batch)
      BY <3>1, <3>3, AfterBoth
    <3> QED
      BY <3>1, <3>2, <3>4 DEF Explained, ts
  <2>2. CASE Abort \/ UNCHANGED vars
    BY <2>2 DEF Abort, Close, vars, Explained
  <2>3. CASE \E b \in Batches : Begin(b)
    BY <2>3 DEF Begin, Explained
  <2>4. CASE Debit \/ Credit \/ Transfer \/ Record \/ AwardBuyer \/ AwardSeller
    BY <2>4 DEF Debit, Credit, Transfer, Record, AwardBuyer, AwardSeller, Explained
  <2> QED
    BY <2>1, <2>2, <2>3, <2>4 DEF Next
<1> QED
  BY <1>1, <1>2, ProgressInit, ProgressNext, PTL DEF Spec

(* For every player, batch and interruption, the trades table explains     *)
(* what the player holds to the last piece of gold and the last card,      *)
(* although each trade truncates its price and no statement compares the   *)
(* balances with the table.                                                *)
THEOREM BalancesAreExplained == Spec => []TradesExplainBalances
<1>1. Explained => TradesExplainBalances
  <2> SUFFICES ASSUME Explained PROVE TradesExplainBalances
    OBVIOUS
  <2> DEFINE ts == db.trades
  <2>1. Books(opened) /\ ts \in Seq(Bill) /\ db = AfterTrades(opened, ts)
    BY DEF Explained, Books
  <2> HIDE DEF ts
  <2>2. db.gold = GoldAfter(opened, ts) /\ db.cards = CardsAfter(opened, ts)
    BY <2>1, AfterTradesBooks
  <2>3. \A u \in User : /\ db.gold[u] = opened.gold[u] + GoldFlow(u, ts)
                        /\ db.cards[u] = opened.cards[u] + CardFlow(u, ts)
    BY <2>2 DEF GoldAfter, CardsAfter
  <2> QED
    BY <2>3 DEF TradesExplainBalances, ts
<1> QED
  BY <1>1, BalancesExplained, PTL

-----------------------------------------------------------------------------
(* What the pages report *)

Involving(u) == {tr \in Bill : u \in {tr.buyer, tr.seller}}
WithItself   == {tr \in Bill : tr.buyer = tr.seller}

(* SUM(price * quantity) of the trades a player takes part in.             *)
Traded(u, ts) ==
  LET rows == Among(ts, Involving(u))
  IN  Total([i \in DOMAIN rows |-> rows[i].price * rows[i].quantity])

LEMMA TradedAppend ==
  ASSUME NEW ts \in Seq(Bill), NEW tr \in Bill, NEW u
  PROVE  /\ Traded(u, ts) \in Int
         /\ Traded(u, Append(ts, tr)) =
              Traded(u, ts) + (IF tr \in Involving(u) THEN tr.price * tr.quantity ELSE 0)
<1> DEFINE F == [x \in Bill |-> x.price * x.quantity]
           R == Involving(u)
           rows == Among(ts, R)
           more == Among(Append(ts, tr), R)
<1>1. F \in [Bill -> Int] /\ \A x \in Bill : F[x] = x.price * x.quantity
  BY DEF Bill
<1>2. rows \in Seq(Bill) /\ more = IF tr \in R THEN Append(rows, tr) ELSE rows
  BY AmongAppend
<1> HIDE DEF F, R, rows, more
<1>3. ASSUME NEW s \in Seq(Bill)
      PROVE  [i \in DOMAIN s |-> s[i].price * s[i].quantity] = [i \in DOMAIN s |-> F[s[i]]]
  <2>1. \A i \in DOMAIN s : s[i] \in Bill
    BY LenProperties, ElementOfSeq
  <2> QED
    BY <1>1, <2>1
<1>4. Append(rows, tr) \in Seq(Bill) /\ more \in Seq(Bill)
  BY <1>2, AppendProperties
<1>5. /\ Total([i \in DOMAIN rows |-> F[rows[i]]]) \in Int
      /\ Total([i \in DOMAIN Append(rows, tr) |-> F[Append(rows, tr)[i]]])
           = Total([i \in DOMAIN rows |-> F[rows[i]]]) + F[tr]
  BY <1>1, <1>2, ColumnAppend, ZenonT(60)
<1>6. /\ Traded(u, ts) = Total([i \in DOMAIN rows |-> F[rows[i]]])
      /\ Traded(u, Append(ts, tr)) = Total([i \in DOMAIN more |-> F[more[i]]])
  BY <1>2, <1>3, <1>4 DEF Traded, R, rows, more
<1>7. CASE tr \in R
  <2>1. more = Append(rows, tr)
    BY <1>2, <1>7
  <2> QED
    BY <1>1, <1>5, <1>6, <1>7, <2>1 DEF R
<1>8. CASE tr \notin R
  <2>1. more = rows
    BY <1>2, <1>8
  <2> QED
    BY <1>5, <1>6, <1>8, <2>1 DEF R
<1> QED
  BY <1>7, <1>8

(* Each piece of gold that moves is within the price of a trade.           *)
LEMMA CostIsWithinPrice ==
  ASSUME NEW tr \in Bill
  PROVE  /\ tr.price * tr.quantity \in Nat
         /\ Scale * Cost(tr) \in 0 .. tr.price * tr.quantity
<1>1. tr.price \in Nat /\ tr.quantity \in Nat
  BY DEF Bill
<1> DEFINE cost == Whole(tr.price, tr.quantity, Scale)
           value == tr.price * tr.quantity
<1>2. cost \in Nat /\ Scale * cost <= value /\ value \in Nat /\ Cost(tr) = cost
  BY <1>1, WholeIs DEF Cost
<1> HIDE DEF cost, value
<1>3. Scale * cost \in Nat
  BY <1>2, ScaleAssumption
<1> QED
  BY <1>2, <1>3 DEF value

LEMMA OwnTradesAppend ==
  ASSUME NEW ts \in Seq(Bill), NEW tr \in Bill, NEW u
  PROVE  /\ Len(Among(ts, Involving(u))) \in Nat
         /\ Len(Among(Among(ts, Involving(u)), WithItself)) \in Nat
         /\ Len(Among(Append(ts, tr), Involving(u)))
              + Len(Among(Among(Append(ts, tr), Involving(u)), WithItself))
              = Len(Among(ts, Involving(u))) + Len(Among(Among(ts, Involving(u)), WithItself))
                  + (IF tr.buyer = u THEN 1 ELSE 0) + (IF tr.seller = u THEN 1 ELSE 0)
<1> DEFINE R == Involving(u)
           rows == Among(ts, R)
           own == Among(rows, WithItself)
           more == Among(Append(ts, tr), R)
           ownMore == Among(more, WithItself)
<1>1. tr \in R <=> tr.buyer = u \/ tr.seller = u
  BY DEF Involving
<1>2. tr \in WithItself <=> tr.buyer = tr.seller
  BY DEF WithItself
<1> HIDE DEF R
<1>3. rows \in Seq(Bill) /\ more = IF tr \in R THEN Append(rows, tr) ELSE rows
  BY AmongAppend
<1> HIDE DEF rows, more
<1>4. own \in Seq(Bill)
  BY <1>3, AmongAppend
<1>5. Len(rows) \in Nat /\ Len(own) \in Nat
  BY <1>3, <1>4, LenProperties
<1>6. CASE tr \notin R
  <2>1. more = rows /\ ownMore = own /\ tr.buyer # u /\ tr.seller # u
    BY <1>1, <1>3, <1>6
  <2> HIDE DEF own, ownMore
  <2>2. Len(more) + Len(ownMore) = Len(rows) + Len(own) + 0 + 0
    BY <1>5, <2>1
  <2> QED
    BY <1>5, <2>1, <2>2 DEF R, rows, own, more, ownMore
<1>7. CASE tr \in R
  <2>1. more = Append(rows, tr)
    BY <1>3, <1>7
  <2>2. Among(Append(rows, tr), WithItself) = IF tr \in WithItself THEN Append(own, tr) ELSE own
    <3>1. rows \in Seq(Bill) /\ tr \in Bill
      BY <1>3
    <3> DEFINE W == WithItself
    <3> HIDE DEF W
    <3>2. Among(Append(rows, tr), W) = IF tr \in W THEN Append(Among(rows, W), tr) ELSE Among(rows, W)
      BY <3>1, AmongAppend
    <3> QED
      BY <3>2 DEF W
  <2> HIDE DEF own
  <2>3. Len(Append(rows, tr)) = Len(rows) + 1 /\ Len(Append(own, tr)) = Len(own) + 1
    BY <1>3, <1>4, AppendProperties
  <2>4. Len(more) + Len(ownMore) = Len(rows) + Len(own) + (IF tr.buyer = u THEN 1 ELSE 0)
                                                        + (IF tr.seller = u THEN 1 ELSE 0)
    <3> HIDE DEF ownMore
    <3>1. Len(more) = Len(rows) + 1
      BY <2>1, <2>3
    <3>2. Len(ownMore) = Len(own) + (IF tr.buyer = tr.seller THEN 1 ELSE 0)
      BY <1>2, <1>5, <2>1, <2>2, <2>3 DEF ownMore
    <3>3. tr.buyer = u \/ tr.seller = u
      BY <1>1, <1>7
    <3>4. CASE tr.buyer = tr.seller
      BY <1>5, <3>1, <3>2, <3>3, <3>4
    <3>5. CASE tr.buyer # tr.seller
      BY <1>5, <3>1, <3>2, <3>3, <3>5
    <3> QED
      BY <3>4, <3>5
  <2> QED
    BY <1>5, <2>4 DEF R, rows, own, more, ownMore
<1> QED
  BY <1>6, <1>7

(* A trade of a player with itself is two sides of one trade; and the gold *)
(* that came or went is within what was traded.                            *)
LEMMA PagesAgree ==
  ASSUME NEW ts \in Seq(Bill), NEW u
  PROVE  /\ Sides(u, ts) = Len(Among(ts, Involving(u))) + Len(Among(Among(ts, Involving(u)), WithItself))
         /\ Traded(u, ts) \in Int
         /\ -Traded(u, ts) <= Scale * GoldFlow(u, ts)
         /\ Scale * GoldFlow(u, ts) <= Traded(u, ts)
<1> DEFINE R == Involving(u)
           Own(s) == Among(Among(s, R), WithItself)
           Agree(s) == /\ Sides(u, s) = Len(Among(s, R)) + Len(Own(s))
                       /\ -Traded(u, s) <= Scale * GoldFlow(u, s)
                       /\ Scale * GoldFlow(u, s) <= Traded(u, s)
           P == {s \in Seq(Bill) : Agree(s)}
<1>1. <<>> \in P
  <2>1. Among(<<>>, R) = <<>> /\ Own(<<>>) = <<>> /\ <<>> \in Seq(Bill) /\ Len(<<>>) = 0
    BY AmongNone, EmptySeq
  <2>2. Traded(u, <<>>) = 0
    <3>1. [i \in DOMAIN <<>> |-> <<>>[i].price * <<>>[i].quantity] = <<>>
      OBVIOUS
    <3> QED
      BY <2>1, <3>1, TotalEmpty DEF Traded
  <2>3. Sides(u, <<>>) = 0 /\ GoldFlow(u, <<>>) = 0
    BY FlowsOfNothing
  <2>4. Agree(<<>>)
    BY <2>1, <2>2, <2>3, ScaleAssumption
  <2> HIDE DEF Agree
  <2> QED
    BY <2>1, <2>4
<1>2. ASSUME NEW s \in P \cap Seq(Bill), NEW tr \in Bill
      PROVE  Append(s, tr) \in P
  <2> DEFINE more == Append(s, tr)
             value == tr.price * tr.quantity
             cost == Cost(tr)
             flow == GoldFlow(u, s)
             change == (IF tr.seller = u THEN cost ELSE 0) - (IF tr.buyer = u THEN cost ELSE 0)
  <2>1. more \in Seq(Bill) /\ Agree(s)
    BY AppendProperties
  <2>2. tr \in R <=> tr.buyer = u \/ tr.seller = u
    BY DEF Involving
  <2>3. /\ Among(s, R) \in Seq(Bill)
        /\ Among(more, R) = IF tr \in R THEN Append(Among(s, R), tr) ELSE Among(s, R)
    BY AmongAppend, SMTT(30)
  <2>4. Sides(u, more) = Sides(u, s) + (IF tr.buyer = u THEN 1 ELSE 0) + (IF tr.seller = u THEN 1 ELSE 0)
    BY BillsMove, FlowsAppend, ZenonT(60)
  <2>5. Sides(u, more) = Len(Among(more, R)) + Len(Own(more))
    <3>1. /\ Len(Among(s, R)) \in Nat /\ Len(Own(s)) \in Nat
          /\ Len(Among(more, R)) + Len(Own(more)) =
               Len(Among(s, R)) + Len(Own(s)) + (IF tr.buyer = u THEN 1 ELSE 0)
                                              + (IF tr.seller = u THEN 1 ELSE 0)
      BY OwnTradesAppend
    <3>2. Sides(u, s) = Len(Among(s, R)) + Len(Own(s))
      BY <2>1
    <3> HIDE DEF Own, R, more
    <3> QED
      BY <2>4, <3>1, <3>2
  <2>6. /\ Traded(u, s) \in Int
        /\ Traded(u, more) = Traded(u, s) + (IF tr \in R THEN value ELSE 0)
    BY TradedAppend
  <2>7. flow \in Int /\ GoldFlow(u, more) = flow + change
    BY BillsMove, FlowsAppend
  <2>8. cost \in Nat /\ value \in Nat /\ Scale * cost \in 0 .. value
    BY CostIsNat, CostIsWithinPrice
  <2>9. Scale * (flow + change) \in
          {Scale * flow, Scale * flow + Scale * cost, Scale * flow - Scale * cost}
        /\ (tr \notin R => Scale * (flow + change) = Scale * flow)
        /\ Scale * flow \in Int
    <3> HIDE DEF cost, flow
    <3>1. change \in {0, cost, -cost} /\ (tr \notin R => change = 0)
      BY <2>2, <2>8
    <3> HIDE DEF change
    <3>2. /\ Scale * (flow + 0) = Scale * flow
          /\ Scale * (flow + cost) = Scale * flow + Scale * cost
          /\ Scale * (flow + (-cost)) = Scale * flow - Scale * cost
          /\ Scale * flow \in Int
      BY <2>7, <2>8, ScaleAssumption
    <3> QED
      BY <3>1, <3>2
  <2>10. /\ -Traded(u, s) <= Scale * flow
         /\ Scale * flow <= Traded(u, s)
    BY <2>1
  <2> DEFINE now == Scale * (flow + change)
             was == Scale * flow
             moved == Scale * cost
  <2>11. -Traded(u, more) <= now /\ now <= Traded(u, more)
    <3>1. /\ now \in {was, was + moved, was - moved} /\ (tr \notin R => now = was)
          /\ was \in Int /\ moved \in 0 .. value /\ value \in Nat
          /\ -Traded(u, s) <= was /\ was <= Traded(u, s)
      BY <2>8, <2>9, <2>10
    <3> HIDE DEF now, was, moved, value, more
    <3> QED
      BY <2>6, <3>1
  <2>12. Agree(more)
    BY <2>5, <2>7, <2>11
  <2> HIDE DEF Agree
  <2> QED
    BY <2>1, <2>12
<1>3. Seq(Bill) \subseteq P
  <2> HIDE DEF P
  <2> QED
    BY <1>1, <1>2, RowsInduction
<1>4. Traded(u, ts) \in Int
  <2>1. CASE ts = <<>>
    <3>1. Among(<<>>, R) = <<>> /\ [i \in DOMAIN <<>> |-> <<>>[i].price * <<>>[i].quantity] = <<>>
      BY AmongNone
    <3> QED
      BY <2>1, <3>1, TotalEmpty DEF Traded
  <2>2. CASE ts # <<>>
    <3>1. PICK front \in Seq(Bill), tr \in Bill : ts = Append(front, tr)
      BY <2>2, SequenceEmptyOrAppend
    <3>2. Append(ts, tr) \in Seq(Bill) /\ tr \in Bill
      BY <3>1, AppendProperties
    <3> QED
      BY <3>2, TradedAppend
  <2> QED
    BY <2>1, <2>2
<1>5. Agree(ts)
  <2> HIDE DEF Agree
  <2> QED
    BY <1>3
<1> QED
  BY <1>4, <1>5

(* What the portfolios are worth after trades ts, player by player.        *)
Worths(l, ts, market) ==
  [u \in User |-> Scale * (l.gold[u] + GoldFlow(u, ts)) + (l.cards[u] + CardFlow(u, ts)) * market]

(* From F to G, the buyer gains what the seller gives.                      *)
IsExchange(F, G, tr, d) ==
  \A u \in User :
    G[u] = F[u] + (IF tr.buyer = u THEN d ELSE 0) - (IF tr.seller = u THEN d ELSE 0)

(* A trade takes from one player what it gives to another.                 *)
LEMMA WorthsAppend ==
  ASSUME NEW l, Books(l), NEW ts \in Seq(Bill), NEW tr \in Bill, NEW market \in Nat
  PROVE  /\ Worths(l, ts, market) \in [User -> Int]
         /\ Worths(l, Append(ts, tr), market) \in [User -> Int]
         /\ \E d \in Int : IsExchange(Worths(l, ts, market), Worths(l, Append(ts, tr), market), tr, d)
<1> DEFINE cost == Cost(tr)
           q == tr.quantity
           F == Worths(l, ts, market)
           G == Worths(l, Append(ts, tr), market)
           paid == Scale * cost
           held == q * market
           d == held - paid
<1>1. cost \in Nat /\ q \in Nat
  BY CostIsNat
<1>2. paid \in Nat /\ held \in Nat
  <2> HIDE DEF cost, q
  <2> QED
    BY <1>1, Distributes, ScaleAssumption
<1>3. d \in Int
  BY <1>2
<1>4. ASSUME NEW u \in User
      PROVE  /\ F[u] \in Int /\ G[u] \in Int
             /\ G[u] = F[u] + (IF tr.buyer = u THEN d ELSE 0) - (IF tr.seller = u THEN d ELSE 0)
  <2> DEFINE gold == l.gold[u] + GoldFlow(u, ts)
             cards == l.cards[u] + CardFlow(u, ts)
             toSeller == IF tr.seller = u THEN 1 ELSE 0
             toBuyer == IF tr.buyer = u THEN 1 ELSE 0
  <2>1. /\ GoldFlow(u, ts) \in Int /\ CardFlow(u, ts) \in Int
        /\ GoldFlow(u, Append(ts, tr)) =
             GoldFlow(u, ts) + (IF tr.seller = u THEN cost ELSE 0) - (IF tr.buyer = u THEN cost ELSE 0)
        /\ CardFlow(u, Append(ts, tr)) =
             CardFlow(u, ts) + (IF tr.buyer = u THEN q ELSE 0) - (IF tr.seller = u THEN q ELSE 0)
    BY BillsMove, FlowsAppend
  <2>2. l.gold[u] \in Int /\ l.cards[u] \in Int
    BY DEF Books
  <2> HIDE DEF cost, q
  <2>3. /\ l.gold[u] + GoldFlow(u, Append(ts, tr)) = gold + (toSeller - toBuyer) * cost
        /\ l.cards[u] + CardFlow(u, Append(ts, tr)) = cards + (toBuyer - toSeller) * q
    <3>1. ASSUME NEW n \in Nat
          PROVE  /\ (toSeller - toBuyer) * n = (IF tr.seller = u THEN n ELSE 0) - (IF tr.buyer = u THEN n ELSE 0)
                 /\ (toBuyer - toSeller) * n = (IF tr.buyer = u THEN n ELSE 0) - (IF tr.seller = u THEN n ELSE 0)
      <4>1. 0 * n = 0 /\ 1 * n = n /\ (-1) * n = -n
        OBVIOUS
      <4>2. CASE tr.seller = u /\ tr.buyer = u
        BY <4>1, <4>2
      <4>3. CASE tr.seller = u /\ tr.buyer # u
        BY <4>1, <4>3
      <4>4. CASE tr.seller # u /\ tr.buyer = u
        BY <4>1, <4>4
      <4>5. CASE tr.seller # u /\ tr.buyer # u
        BY <4>1, <4>5
      <4> QED
        BY <4>2, <4>3, <4>4, <4>5
    <3> HIDE DEF toSeller, toBuyer
    <3>2. /\ (toSeller - toBuyer) * cost = (IF tr.seller = u THEN cost ELSE 0) - (IF tr.buyer = u THEN cost ELSE 0)
          /\ (toBuyer - toSeller) * q = (IF tr.buyer = u THEN q ELSE 0) - (IF tr.seller = u THEN q ELSE 0)
      BY <1>1, <3>1
    <3>3. l.gold[u] + GoldFlow(u, Append(ts, tr)) = gold + (toSeller - toBuyer) * cost
      <4> DEFINE now == GoldFlow(u, ts)
                 then == GoldFlow(u, Append(ts, tr))
                 held1 == l.gold[u]
                 change == (toSeller - toBuyer) * cost
      <4>1. /\ now \in Int /\ held1 \in Int
            /\ then = now + (IF tr.seller = u THEN cost ELSE 0) - (IF tr.buyer = u THEN cost ELSE 0)
            /\ change = (IF tr.seller = u THEN cost ELSE 0) - (IF tr.buyer = u THEN cost ELSE 0)
        BY <2>1, <2>2, <3>2
      <4> HIDE DEF now, then, held1, change
      <4>2. held1 + then = held1 + now + change
        BY <1>1, <4>1
      <4> QED
        BY <4>2 DEF now, then, held1, change
    <3>4. l.cards[u] + CardFlow(u, Append(ts, tr)) = cards + (toBuyer - toSeller) * q
      <4> DEFINE now == CardFlow(u, ts)
                 then == CardFlow(u, Append(ts, tr))
                 held1 == l.cards[u]
                 change == (toBuyer - toSeller) * q
      <4>1. /\ now \in Int /\ held1 \in Int
            /\ then = now + (IF tr.buyer = u THEN q ELSE 0) - (IF tr.seller = u THEN q ELSE 0)
            /\ change = (IF tr.buyer = u THEN q ELSE 0) - (IF tr.seller = u THEN q ELSE 0)
        BY <2>1, <2>2, <3>2
      <4> HIDE DEF now, then, held1, change
      <4>2. held1 + then = held1 + now + change
        BY <1>1, <4>1
      <4> QED
        BY <4>2 DEF now, then, held1, change
    <3> QED
      BY <3>3, <3>4
  <2>4. gold \in Int /\ cards \in Int
    BY <2>1, <2>2
  <2>5. F[u] = Scale * gold + cards * market
    BY DEF Worths
  <2>6. G[u] = Scale * (gold + (toSeller - toBuyer) * cost) + (cards + (toBuyer - toSeller) * q) * market
    BY <2>3 DEF Worths
  <2> HIDE DEF F, G, gold, cards, toSeller, toBuyer
  <2>7. Scale * gold \in Int /\ cards * market \in Int
    BY <2>4, ScaleAssumption
  <2>8. ASSUME NEW x \in {-1, 0, 1}
        PROVE  /\ Scale * (gold + x * cost) = Scale * gold + x * paid
               /\ (cards + x * q) * market = cards * market + x * held
    BY <1>1, <2>4, <2>8, ScaleAssumption
  <2>9. toSeller - toBuyer \in {-1, 0, 1} /\ toBuyer - toSeller \in {-1, 0, 1}
    BY DEF toSeller, toBuyer
  <2>10. G[u] = Scale * gold + (toSeller - toBuyer) * paid
                  + (cards * market + (toBuyer - toSeller) * held)
    BY <2>6, <2>8, <2>9
  <2> DEFINE old1 == Scale * gold
             old2 == cards * market
  <2> HIDE DEF old1, old2, paid, held
  <2>11. G[u] = old1 + old2 + (IF tr.buyer = u THEN held - paid ELSE 0)
                            - (IF tr.seller = u THEN held - paid ELSE 0)
    <3>1. paid \in Int /\ held \in Int /\ old1 \in Int /\ old2 \in Int
      BY <1>2, <2>7 DEF old1, old2
    <3>2. G[u] = old1 + (toSeller - toBuyer) * paid + (old2 + (toBuyer - toSeller) * held)
      BY <2>10 DEF old1, old2
    <3>3. CASE tr.seller = u /\ tr.buyer = u
      <4>1. toSeller - toBuyer = 0 /\ toBuyer - toSeller = 0
        BY <3>3 DEF toSeller, toBuyer
      <4> QED
        BY <3>1, <3>2, <3>3, <4>1
    <3>4. CASE tr.seller = u /\ tr.buyer # u
      <4>1. toSeller - toBuyer = 1 /\ toBuyer - toSeller = -1
        BY <3>4 DEF toSeller, toBuyer
      <4> QED
        BY <3>1, <3>2, <3>4, <4>1
    <3>5. CASE tr.seller # u /\ tr.buyer = u
      <4>1. toSeller - toBuyer = -1 /\ toBuyer - toSeller = 1
        BY <3>5 DEF toSeller, toBuyer
      <4> QED
        BY <3>1, <3>2, <3>5, <4>1
    <3>6. CASE tr.seller # u /\ tr.buyer # u
      <4>1. toSeller - toBuyer = 0 /\ toBuyer - toSeller = 0
        BY <3>6 DEF toSeller, toBuyer
      <4> QED
        BY <3>1, <3>2, <3>6, <4>1
    <3> QED
      BY <3>3, <3>4, <3>5, <3>6
  <2> QED
    BY <1>2, <2>5, <2>7, <2>11 DEF old1, old2
<1> HIDE DEF d
<1>5. \A u \in User : F[u] \in Int /\ G[u] \in Int
  BY <1>4
<1>6. F \in [User -> Int] /\ G \in [User -> Int]
  BY <1>5 DEF Worths
<1>7. \A u \in User :
        G[u] = F[u] + (IF tr.buyer = u THEN d ELSE 0) - (IF tr.seller = u THEN d ELSE 0)
  BY <1>4
<1>8. IsExchange(F, G, tr, d)
  BY <1>7 DEF IsExchange
<1> HIDE DEF F, G
<1> QED
  BY <1>3, <1>6, <1>8 DEF F, G

LEMMA WorthIsKept ==
  ASSUME NEW l, Books(l), NEW ts \in Seq(Bill), NEW market \in Nat
  PROVE  SumFunction(Worths(l, ts, market)) = SumFunction(Worths(l, <<>>, market))
<1> DEFINE W(s) == Worths(l, s, market)
           P == {s \in Seq(Bill) : SumFunction(W(s)) = SumFunction(W(<<>>))}
<1>1. <<>> \in P
  BY EmptySeq
<1>2. ASSUME NEW s \in P \cap Seq(Bill), NEW tr \in Bill
      PROVE  Append(s, tr) \in P
  <2> DEFINE F == W(s)
             G == W(Append(s, tr))
             buyer == tr.buyer
             seller == tr.seller
  <2>1. buyer \in User /\ seller \in User /\ s \in Seq(Bill) /\ Append(s, tr) \in Seq(Bill)
    BY CostIsNat, AppendProperties
  <2>2. F \in [User -> Int] /\ G \in [User -> Int]
    BY <2>1, WorthsAppend
  <2>3. PICK d \in Int : \A u \in User :
          G[u] = F[u] + (IF buyer = u THEN d ELSE 0) - (IF seller = u THEN d ELSE 0)
    <3>1. PICK d \in Int : IsExchange(F, G, tr, d)
      BY <2>1, WorthsAppend
    <3> QED
      BY <3>1 DEF IsExchange
  <2>4. SumFunction(F) = SumFunction(W(<<>>))
    OBVIOUS
  <2> HIDE DEF F, G, buyer, seller
  <2> DEFINE M == [F EXCEPT ![buyer] = @ + d]
  <2>5. /\ M \in [User -> Int] /\ M[buyer] = F[buyer] + d
        /\ \A u \in User \ {buyer} : M[u] = F[u]
    BY <2>1, <2>2
  <2>6. /\ G[seller] = M[seller] - d
        /\ \A u \in User \ {seller} : G[u] = M[u]
    BY <2>1, <2>2, <2>3, <2>5, SMTT(30)
  <2> HIDE DEF M
  <2>7. IsFiniteSet(User)
    BY UserAssumption
  <2>8. SumFunction(F) \in Int /\ SumFunction(M) = SumFunction(F) + (M[buyer] - F[buyer])
    BY <2>1, <2>2, <2>5, <2>7, SumChanges, ZenonT(60)
  <2>9. SumFunction(M) \in Int /\ SumFunction(G) = SumFunction(M) + (G[seller] - M[seller])
    BY <2>1, <2>2, <2>5, <2>6, <2>7, SumChanges, ZenonT(60)
  <2>10. F[buyer] \in Int /\ M[seller] \in Int
    BY <2>1, <2>2, <2>5
  <2>11. SumFunction(G) = SumFunction(F)
    <3>1. M[buyer] - F[buyer] = d
      BY <2>5, <2>10
    <3>2. G[seller] - M[seller] = -d
      BY <2>6, <2>10
    <3>3. SumFunction(M) = SumFunction(F) + d /\ SumFunction(G) = SumFunction(M) + (-d)
      BY <2>8, <2>9, <3>1, <3>2
    <3>4. \A f, m, g \in Int : m = f + d /\ g = m + (-d) => g = f
      OBVIOUS
    <3>5. SumFunction(G) \in Int
      BY <2>9, <3>3
    <3> QED
      BY <2>8, <2>9, <3>3, <3>4, <3>5
  <2> HIDE DEF W
  <2> QED
    BY <2>1, <2>4, <2>11 DEF F, G
<1>3. Seq(Bill) \subseteq P
  <2> HIDE DEF P
  <2> QED
    BY <1>1, <1>2, RowsInduction
<1> QED
  BY <1>3

(* The volume is rounded, and the gold truncated; still they compare.      *)
LEMMA RoundingIsWithin ==
  ASSUME NEW t \in Int, NEW g \in Int, -t <= Scale * g, Scale * g <= t
  PROVE  LET volume == (2 * t + Scale) \div (2 * Scale)
         IN  -volume <= g /\ g <= volume
<1> DEFINE s == 2 * Scale
           top == 2 * t + Scale
           volume == top \div s
           rest == top % s
<1>1. /\ s \in Nat \ {0} /\ top \in Int /\ Scale \in Nat \ {0}
      /\ s * g = 2 * (Scale * g) /\ s * (-g) = -(2 * (Scale * g)) /\ Scale * g \in Int
  BY ScaleAssumption
<1> DEFINE sg == Scale * g
<1> HIDE DEF sg
<1>2. s * g <= top /\ s * (-g) <= top
  <2>1. s * g = 2 * sg /\ s * (-g) = -(2 * sg) /\ sg \in Int /\ -t <= sg /\ sg <= t
    BY <1>1 DEF sg
  <2> HIDE DEF s
  <2> QED
    BY <1>1, <2>1
<1> HIDE DEF s, top
<1>3. ASSUME NEW n \in Int, s * n <= top
      PROVE  n <= volume
  BY <1>1, <1>3
<1> QED
  <2>1. g <= volume /\ -g <= volume /\ volume \in Int
    BY <1>1, <1>2, <1>3
  <2> HIDE DEF volume
  <2>2. -volume <= g /\ g <= volume
    BY <2>1
  <2> QED
    BY <2>2 DEF volume, top, s

(* What the pages show from different tables fits together for every       *)
(* player and every market price: xp and sides of trades, purchases, sales *)
(* and trades, gold and volume, and the worth of all portfolios.           *)
THEOREM PagesFitTogether == Spec => []ReportsAgree
<1>1. ASSUME Explained
      PROVE  ReportsAgree
  <2> DEFINE ts == db.trades
  <2>1. Books(opened) /\ Books(db) /\ ts \in Seq(Bill) /\ db = AfterTrades(opened, ts)
    BY <1>1 DEF Explained, Books
  <2> HIDE DEF ts
  <2>2. db.gold = GoldAfter(opened, ts) /\ db.cards = CardsAfter(opened, ts) /\ db.xp = XpAfter(opened, ts)
    BY <2>1, AfterTradesBooks
  <2>3. ASSUME NEW u \in User
        PROVE  LET stats == TradingStats(u)
                   self  == Where(TradesOf(u), LAMBDA tr : tr.buyer = tr.seller)
                   gain  == db.gold[u] - opened.gold[u]
               IN  /\ stats.xp = opened.xp[u] + TradeXp * (stats.buy_count + stats.sell_count)
                   /\ stats.buy_count + stats.sell_count = stats.total_trades + Len(self)
                   /\ -stats.total_volume <= gain /\ gain <= stats.total_volume
    <3> DEFINE self == Where(TradesOf(u), LAMBDA tr : tr.buyer = tr.seller)
               gain == db.gold[u] - opened.gold[u]
               rows == Among(ts, Involving(u))
    <3>1. TradesOf(u) = rows
      <4>1. \A i \in DOMAIN ts : ts[i] \in Bill
        BY <2>1, LenProperties, ElementOfSeq
      <4>2. {i \in DOMAIN ts : u \in {ts[i].buyer, ts[i].seller}} = {i \in DOMAIN ts : ts[i] \in Involving(u)}
        BY <4>1 DEF Involving
      <4> QED
        BY <4>2 DEF TradesOf, Where, Among, ts
    <3>2. rows \in Seq(Bill)
      <4>1. CASE ts = <<>>
        BY <4>1, AmongNone, EmptySeq
      <4>2. CASE ts # <<>>
        BY <2>1, RowsAtIsSeq DEF Among
      <4> QED
        BY <4>1, <4>2
    <3> HIDE DEF rows
    <3>3. self = Among(rows, WithItself)
      <4>1. \A i \in DOMAIN rows : rows[i] \in Bill
        BY <3>2, LenProperties, ElementOfSeq
      <4>2. {i \in DOMAIN rows : rows[i].buyer = rows[i].seller} = {i \in DOMAIN rows : rows[i] \in WithItself}
        BY <4>1 DEF WithItself
      <4> QED
        BY <3>1, <4>2 DEF Where, Among
    <3>4. Volume(u) = (2 * Traded(u, ts) + Scale) \div (2 * Scale)
      BY <3>1 DEF Volume, SumOver, Traded, rows
    <3>5. Sides(u, ts) = Len(BoughtBy(u, ts)) + Len(SoldBy(u, ts))
      BY DEF Sides
    <3>6. db.xp[u] = opened.xp[u] + TradeXp * Sides(u, ts)
      BY <2>2 DEF XpAfter
    <3>7. /\ Sides(u, ts) = Len(rows) + Len(self)
          /\ Traded(u, ts) \in Int
          /\ -Traded(u, ts) <= Scale * GoldFlow(u, ts)
          /\ Scale * GoldFlow(u, ts) <= Traded(u, ts)
      BY <2>1, <3>3, PagesAgree DEF rows
    <3>8. gain = GoldFlow(u, ts) /\ GoldFlow(u, ts) \in Int
      <4>1. db.gold[u] = opened.gold[u] + GoldFlow(u, ts)
        BY <2>2 DEF GoldAfter
      <4>2. opened.gold[u] \in Int /\ GoldFlow(u, ts) \in Int
        BY <2>1, FlowTypes DEF Books
      <4> QED
        BY <4>1, <4>2
    <3>9. -Volume(u) <= gain /\ gain <= Volume(u)
      BY <3>4, <3>7, <3>8, RoundingIsWithin
    <3>10. TradingStats(u) =
             [trader_level |-> db.level[u], xp |-> db.xp[u],
              total_trades |-> Len(rows), total_volume |-> Volume(u),
              buy_count |-> Len(BoughtBy(u, ts)), sell_count |-> Len(SoldBy(u, ts))]
      BY <3>1 DEF TradingStats, ts
    <3> HIDE DEF self, gain
    <3> QED
      BY <3>5, <3>6, <3>7, <3>9, <3>10 DEF self, gain
  <2>4. ASSUME NEW market \in MarketPrices
        PROVE  SumFunction([u \in User |-> PortfolioValue(db, u, market)])
                 = SumFunction([u \in User |-> PortfolioValue(opened, u, market)])
    <3>1. market \in Nat
      BY MarketPricesAssumption
    <3>2. [u \in User |-> PortfolioValue(db, u, market)] = Worths(opened, ts, market)
      BY <2>2 DEF PortfolioValue, Worths, GoldAfter, CardsAfter
    <3>3. [u \in User |-> PortfolioValue(opened, u, market)] = Worths(opened, <<>>, market)
      <4>1. \A u \in User : GoldFlow(u, <<>>) = 0 /\ CardFlow(u, <<>>) = 0
                            /\ opened.gold[u] \in Int /\ opened.cards[u] \in Int
        BY <2>1, FlowsOfNothing DEF Books
      <4>2. \A u \in User : opened.gold[u] + GoldFlow(u, <<>>) = opened.gold[u]
                            /\ opened.cards[u] + CardFlow(u, <<>>) = opened.cards[u]
        BY <4>1
      <4> QED
        BY <4>2 DEF PortfolioValue, Worths
    <3> QED
      BY <2>1, <3>1, <3>2, <3>3, WorthIsKept
  <2> QED
    BY <2>3, <2>4 DEF ReportsAgree
<1> QED
  BY <1>1, BalancesExplained, PTL

-----------------------------------------------------------------------------
(* The types, and the ladder of ranks *)

(* The ladder has a rank for any xp, and it is the highest one reached.    *)
LEMMA RankOfIsHighest ==
  ASSUME NEW xp \in Nat
  PROVE  /\ RankOf(xp) \in Rank
         /\ Threshold[RankOf(xp)] <= xp
         /\ \A s \in Rank : Threshold[s] <= xp => Threshold[s] <= Threshold[RankOf(xp)]
<1>1. PICK base \in Rank : Threshold[base] = 0
  BY ThresholdAssumption DEF Rank
<1>2. Threshold \in [Rank -> Nat]
  BY ThresholdAssumption DEF Rank
<1>3. \E r \in Rank : /\ Threshold[r] <= xp
                     /\ \A s \in Rank : Threshold[s] <= xp => Threshold[s] <= Threshold[r]
  BY <1>1, <1>2, HighestExists
<1> QED
  BY <1>3, Zenon DEF RankOf

LEMMA AwardedIsLedger ==
  ASSUME NEW l, IsLedger(l), NEW u \in User
  PROVE  IsLedger(Awarded(l, u))
<1> DEFINE xp == [l.xp EXCEPT ![u] = @ + TradeXp]
           level == [l.level EXCEPT ![u] = RankOf(l.xp[u] + TradeXp)]
           all == [gold |-> l.gold, cards |-> l.cards, xp |-> xp, level |-> level,
                   trades |-> l.trades]
<1>1. Awarded(l, u) = all
  <2>1. Awarded(l, u) = [l EXCEPT !.xp = xp, !.level = level]
    BY DEF Awarded, IsLedger
  <2> HIDE DEF xp, level
  <2> QED
    BY <2>1 DEF IsLedger
<1>2. l.xp \in [User -> Nat] /\ l.xp[u] + TradeXp \in Nat
  BY XpAssumption DEF IsLedger
<1>3. xp \in [User -> Nat]
  BY <1>2
<1>4. RankOf(l.xp[u] + TradeXp) \in Rank
  BY <1>2, RankOfIsHighest
<1>5. level \in [User -> Rank]
  BY <1>4 DEF IsLedger
<1> HIDE DEF xp, level
<1> QED
  BY <1>1, <1>3, <1>5 DEF IsLedger

LEMMA TypeOKNext == TypeOK /\ [Next]_vars => TypeOK'
<1> SUFFICES ASSUME TypeOK, [Next]_vars PROVE TypeOK'
  OBVIOUS
<1>1. /\ IsLedger(db) /\ IsLedger(txn) /\ batch \in Batches \cup {<<>>}
      /\ pc \in Location /\ k \in Nat \ {0}
      /\ pc # "idle" => k \in DOMAIN batch
  BY DEF TypeOK
<1>2. batch \in Seq(Bill)
  BY <1>1, BatchesAssumption, EmptySeq
<1>3. DOMAIN batch = 1 .. Len(batch) /\ Len(batch) \in Nat
  BY <1>2, LenProperties
<1>4. pc # "idle" => k \in 1 .. Len(batch)
  BY <1>1, <1>3
<1>5. pc # "idle" => Trade \in Bill
  <2>1. \A j \in 1 .. Len(batch) : batch[j] \in Bill
    BY <1>2, ElementOfSeq
  <2> QED
    BY <1>4, <2>1, Zenon DEF Trade
<1>6. pc # "idle" => /\ Trade.buyer \in User /\ Trade.seller \in User
                     /\ Trade.quantity \in Nat /\ Cost(Trade) \in Int
  <2>1. ASSUME NEW tr \in Bill
        PROVE  tr.buyer \in User /\ tr.seller \in User /\ tr.quantity \in Nat /\ Cost(tr) \in Int
    <3>1. tr.buyer \in User /\ tr.seller \in User /\ tr.quantity \in Nat /\ Cost(tr) \in Nat
      BY CostIsNat
    <3> QED
      BY <3>1
  <2> QED
    BY <1>5, <2>1
<1>7. ASSUME NEW b \in Batches, Begin(b)
      PROVE  TypeOK'
  <2>1. /\ db' = db /\ txn' = db /\ batch' = b /\ k' = 1 /\ pc' = "debit" /\ b # <<>>
    BY <1>7 DEF Begin, Goto
  <2>2. b \in Seq(Bill)
    BY BatchesAssumption
  <2>3. 1 \in DOMAIN b
    BY <2>1, <2>2, LenProperties, EmptySeq, SMTT(30)
  <2> QED
    BY <1>1, <2>1, <2>3 DEF TypeOK, Location
<1>8. ASSUME pc # "idle", IsLedger(txn'), db' = db, batch' = batch, k' = k,
             pc' \in Location
      PROVE  TypeOK'
  BY <1>1, <1>8 DEF TypeOK
<1>9. CASE Debit
  <2>1. txn' = [txn EXCEPT !.gold = [txn.gold EXCEPT ![Trade.buyer] = @ - Cost(Trade)]]
    BY <1>1, <1>9 DEF Debit, IsLedger
  <2>2. [txn.gold EXCEPT ![Trade.buyer] = @ - Cost(Trade)] \in [User -> Int]
    BY <1>1, <1>6, <1>9 DEF Debit, Goto, IsLedger
  <2>3. IsLedger(txn')
    BY <1>1, <2>1, <2>2 DEF IsLedger
  <2> QED
    BY <1>8, <1>9, <2>3 DEF Debit, Goto, Location
<1>10. CASE Credit
  <2>1. txn' = [txn EXCEPT !.gold = [txn.gold EXCEPT ![Trade.seller] = @ + Cost(Trade)]]
    BY <1>1, <1>10 DEF Credit, IsLedger
  <2>2. [txn.gold EXCEPT ![Trade.seller] = @ + Cost(Trade)] \in [User -> Int]
    BY <1>1, <1>6, <1>10 DEF Credit, Goto, IsLedger
  <2>3. IsLedger(txn')
    BY <1>1, <2>1, <2>2 DEF IsLedger
  <2> QED
    BY <1>8, <1>10, <2>3 DEF Credit, Goto, Location
<1>11. CASE Transfer
  <2> DEFINE moved == [u \in User |-> txn.cards[u] + (IF u = Trade.buyer THEN Trade.quantity ELSE 0)
                                                  - (IF u = Trade.seller THEN Trade.quantity ELSE 0)]
  <2>1. txn' = [txn EXCEPT !.cards = moved]
    BY <1>1, <1>11 DEF Transfer, IsLedger
  <2>2. moved \in [User -> Int]
    <3>1. txn.cards \in [User -> Int] /\ Trade.quantity \in Nat
      BY <1>1, <1>6, <1>11 DEF Transfer, Goto, IsLedger
    <3> QED
      BY <3>1
  <2> HIDE DEF moved
  <2>3. IsLedger(txn')
    BY <1>1, <2>1, <2>2 DEF IsLedger
  <2> QED
    BY <1>8, <1>11, <2>3 DEF Transfer, Goto, Location
<1>12. CASE Record
  <2> DEFINE more == Append(txn.trades, Trade)
  <2>1. txn' = [txn EXCEPT !.trades = more]
    BY <1>1, <1>12 DEF Record, IsLedger
  <2> HIDE DEF more
  <2>2. IsLedger(txn')
    BY <1>1, <2>1 DEF IsLedger
  <2> QED
    BY <1>8, <1>12, <2>2 DEF Record, Goto, Location
<1>13. CASE AwardBuyer
  <2>1. IsLedger(txn')
    BY <1>1, <1>6, <1>13, AwardedIsLedger DEF AwardBuyer, Goto
  <2> QED
    BY <1>8, <1>13, <2>1 DEF AwardBuyer, Goto, Location
<1>14. CASE AwardSeller
  <2>1. IsLedger(txn') /\ db' = db /\ batch' = batch
    BY <1>1, <1>6, <1>14, AwardedIsLedger DEF AwardSeller
  <2>2. k \in 1 .. Len(batch)
    <3>1. pc # "idle"
      BY <1>14 DEF AwardSeller
    <3> QED
      BY <1>4, <3>1
  <2>3. pc' \in Location
    BY <1>14 DEF AwardSeller, Advance, Location
  <2>4. k' \in 1 .. Len(batch)
    <3>1. k' = k \/ (k < Len(batch) /\ k' = k + 1)
      BY <1>14 DEF AwardSeller, Advance
    <3> QED
      BY <1>3, <2>2, <3>1
  <2>5. k' \in DOMAIN batch' /\ k' \in Nat \ {0}
    BY <1>3, <2>1, <2>4
  <2> QED
    BY <1>1, <2>1, <2>3, <2>5 DEF TypeOK
<1>15. CASE Commit
  BY <1>1, <1>15 DEF Commit, Close, TypeOK, Location
<1>16. CASE Abort
  BY <1>1, <1>16 DEF Abort, Close, TypeOK, Location
<1>17. CASE UNCHANGED vars
  BY <1>1, <1>17 DEF vars, TypeOK
<1> QED
  BY <1>7, <1>9, <1>10, <1>11, <1>12, <1>13, <1>14, <1>15, <1>16, <1>17 DEF Next

(* Each statement of execute_trades has its trade, and leaves the ledger a *)
(* ledger, for any players, ranks, opening ledgers and batches.            *)
THEOREM SettlementTypes == Spec => []TypeOK
<1>1. Init => TypeOK
  BY OpeningAssumption DEF Init, TypeOK, Location
<1> QED
  BY <1>1, TypeOKNext, PTL DEF Spec

LEMMA SidesType ==
  ASSUME NEW ts \in Seq(Bill), NEW u, NEW xp \in Nat
  PROVE  xp + TradeXp * Sides(u, ts) \in Nat /\ xp <= xp + TradeXp * Sides(u, ts)
<1>1. Sides(u, ts) \in Nat
  BY FlowTypes
<1>2. TradeXp * Sides(u, ts) \in Nat
  BY <1>1, XpAssumption
<1> QED
  BY <1>2

(* Nobody is ever demoted: no batch, settled or not, lowers the rank that  *)
(* is stored with a player, for any ladder and any award.                  *)
THEOREM RanksNeverFall ==
  Spec => [][\A u \in User : Threshold[db.level[u]] <= Threshold[db.level'[u]]]_vars
<1> DEFINE Rises == \A u \in User : Threshold[db.level[u]] <= Threshold[db.level'[u]]
<1>1. Progress /\ RanksInv /\ [Next]_vars => [Rises]_vars
  <2> SUFFICES ASSUME Progress, RanksInv, Next, NEW u \in User
               PROVE  Threshold[db.level[u]] <= Threshold[db.level'[u]]
    BY DEF vars
  <2>1. /\ db.xp \in [User -> Nat] /\ db.xp[u] \in Nat /\ db.level[u] = RankOf(db.xp[u])
    BY DEF RanksInv, Ranked
  <2>2. Threshold[RankOf(db.xp[u])] \in Nat
    BY <2>1, RankOfIsHighest, ThresholdAssumption DEF Rank
  <2>3. CASE Commit
    <3>1. /\ Books(db) /\ batch \in Seq(Bill) /\ db' = AfterTrades(db, batch)
      BY <2>3 DEF Commit, Close, Progress
    <3> DEFINE more == db.xp[u] + TradeXp * Sides(u, batch)
    <3>2. db'.level[u] = IF Sides(u, batch) > 0 THEN RankOf(more) ELSE db.level[u]
      <4>1. db'.level = LevelAfter(db, batch)
        BY <3>1, AfterTradesBooks
      <4> QED
        BY <4>1 DEF LevelAfter
    <3>3. more \in Nat /\ db.xp[u] <= more
      BY <2>1, <3>1, SidesType
    <3> HIDE DEF more
    <3>4. Threshold[RankOf(db.xp[u])] <= Threshold[RankOf(more)]
      <4>1. RankOf(db.xp[u]) \in Rank /\ Threshold[RankOf(db.xp[u])] <= db.xp[u]
        BY <2>1, RankOfIsHighest
      <4>2. \A s \in Rank : Threshold[s] <= more => Threshold[s] <= Threshold[RankOf(more)]
        BY <3>3, RankOfIsHighest
      <4>3. Threshold[RankOf(db.xp[u])] <= more
        BY <2>1, <2>2, <3>3, <4>1
      <4> QED
        BY <4>1, <4>2, <4>3
    <3> QED
      <4> DEFINE old == Threshold[db.level[u]]
                 new == Threshold[db'.level[u]]
      <4>1. CASE Sides(u, batch) > 0
        <5>1. db'.level[u] = RankOf(more)
          BY <3>2, <4>1
        <5> QED
          BY <2>1, <3>4, <5>1
      <4>2. CASE ~(Sides(u, batch) > 0)
        <5>1. db'.level[u] = db.level[u]
          BY <3>2, <4>2
        <5>2. old \in Nat /\ new = old
          BY <2>1, <2>2, <5>1
        <5> HIDE DEF old, new
        <5> QED
          BY <5>2 DEF old, new
      <4> QED
        BY <4>1, <4>2
  <2>4. CASE db' = db
    BY <2>1, <2>2, <2>4
  <2>5. Commit \/ db' = db
    BY DEF Next, Begin, Debit, Credit, Transfer, Record, AwardBuyer, AwardSeller, Abort, Close
  <2> QED
    BY <2>3, <2>4, <2>5
<1> QED
  BY <1>1, ProgressInit, ProgressNext, RanksInit, RanksNext, PTL DEF Spec
=============================================================================
