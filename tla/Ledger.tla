------------------------------- MODULE Ledger -------------------------------
(***************************************************************************)
(* What the database holds of the players' wealth: users.gold_balance,     *)
(* user_inventory.quantity of one card, users.xp and users.trader_level,   *)
(* and the trades table; and what settling a batch of trades makes of it.  *)
(*                                                                         *)
(* Everything is stated over the batch as a whole, by sums.  Settlement,   *)
(* which goes through the batch one statement at a time, is checked to     *)
(* agree; OrderService uses these operators for its one call.              *)
(*                                                                         *)
(* Prices are decimals, counted here in a fixed fraction of a gold piece,  *)
(* Scale to the piece.  The code multiplies them as doubles, and truncates *)
(* to whole gold a product that may lie just below the whole number it     *)
(* stands for, as 4.35 * 100 does.                                         *)
(***************************************************************************)
EXTENDS Rows, FiniteSetsExt

CONSTANTS
  User,       \* the players
  Scale,      \* the units of price in one gold piece
  TradeXp,    \* what each side of a trade earns
  Threshold,  \* the xp from which each rank is held: rank -> Nat
  FallsShort  \* the products of doubles that lie below the whole number they
              \* stand for: <<price, quantity, the units in a whole>>

ASSUME ScaleAssumption == Scale \in Nat \ {0}
ASSUME XpAssumption == TradeXp \in Nat

ASSUME FallsShortAssumption ==
  FallsShort \subseteq (Nat \ {0}) \X (Nat \ {0}) \X (Nat \ {0})

(* The ladder of award_xp ends in an ELSE: one rank takes no xp.           *)
ASSUME ThresholdAssumption ==
  /\ Threshold \in [DOMAIN Threshold -> Nat]
  /\ \E r \in DOMAIN Threshold : Threshold[r] = 0

Rank == DOMAIN Threshold

IsLedger(l) ==
  /\ l = [gold |-> l.gold, cards |-> l.cards, xp |-> l.xp, level |-> l.level, trades |-> l.trades]
  /\ l.gold \in [User -> Int]
  /\ l.cards \in [User -> Int]
  /\ l.xp \in [User -> Nat]
  /\ l.level \in [User -> Rank]

-----------------------------------------------------------------------------
(* static_cast<int64_t> of price * quantity.  The same factors give the    *)
(* same double everywhere.  A product that is not whole lies further from  *)
(* a whole number than the multiplication errs, so it is cut off exactly.  *)
Whole(price, quantity, unit) ==
  LET short == IF <<price, quantity, unit>> \in FallsShort THEN 1 ELSE 0
  IN  (price * quantity - short) \div unit

(* static_cast<int64_t>(trade.total_value): the gold a trade moves         *)
CostRoundedUp(tr) == (tr.price * tr.quantity + Scale - 1) \div Scale

Cost(tr) == Whole(tr.price, tr.quantity, Scale)

(* The rank the CASE of award_xp gives: the highest threshold reached.     *)
RankOf(xp) ==
  CHOOSE r \in Rank :
    /\ Threshold[r] <= xp
    /\ \A s \in Rank : Threshold[s] <= xp => Threshold[s] <= Threshold[r]

-----------------------------------------------------------------------------
(* A sequence of trades, seen from one player                              *)

SumOver(trades, Amount(_)) == Total([k \in DOMAIN trades |-> Amount(trades[k])])

BoughtBy(u, trades) == Where(trades, LAMBDA tr : tr.buyer = u)
SoldBy(u, trades)   == Where(trades, LAMBDA tr : tr.seller = u)

GoldFlow(u, trades) == SumOver(SoldBy(u, trades), Cost) - SumOver(BoughtBy(u, trades), Cost)

CardFlow(u, trades) ==
  LET quantity(tr) == tr.quantity
  IN  SumOver(BoughtBy(u, trades), quantity) - SumOver(SoldBy(u, trades), quantity)

Sides(u, trades) == Len(BoughtBy(u, trades)) + Len(SoldBy(u, trades))

(* The ledger once the trades are settled.                                 *)
AfterTrades(l, trades) ==
  LET xp == [u \in User |-> l.xp[u] + TradeXp * Sides(u, trades)]
  IN  [gold   |-> [u \in User |-> l.gold[u] + GoldFlow(u, trades)],
       cards  |-> [u \in User |-> l.cards[u] + CardFlow(u, trades)],
       xp     |-> xp,
       level  |-> [u \in User |-> IF Sides(u, trades) > 0 THEN RankOf(xp[u]) ELSE l.level[u]],
       trades |-> l.trades \o trades]

(* Every trade finds, after those before it, the buyer's gold and the      *)
(* seller's cards.                                                         *)
CanSettle(l, trades) ==
  \A k \in DOMAIN trades :
    LET before == AfterTrades(l, SubSeq(trades, 1, k - 1))
    IN  /\ before.gold[trades[k].buyer] >= Cost(trades[k])
        /\ before.cards[trades[k].seller] >= trades[k].quantity
=============================================================================
