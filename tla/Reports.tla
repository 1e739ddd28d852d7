------------------------------ MODULE Reports -------------------------------
(***************************************************************************)
(* What UserService (src/services/user_service.cpp) and the queries of     *)
(* TradeService report of the ledger that Settlement keeps: the portfolio  *)
(* from users and user_inventory, the statistics partly from users and     *)
(* partly from the trades table.                                           *)
(***************************************************************************)
EXTENDS Settlement

CONSTANT MarketPrices   \* cards.current_market_price, 0 when it is NULL

ASSUME MarketPricesAssumption == MarketPrices \subseteq Nat

(* The users are the rows of a table.                                      *)
ASSUME UserAssumption == IsFiniteSet(User)

(* get_portfolio, in units of price: the gold, and the holding of the card *)
(* at its market price                                                     *)
PortfolioValue(l, u, market) == Scale * l.gold[u] + l.cards[u] * market

(* get_user_trades, without the limit                                      *)
TradesOf(u) == Where(db.trades, LAMBDA tr : u \in {tr.buyer, tr.seller})

(* CAST(SUM(total_value) AS BIGINT), which rounds                          *)
Volume(u) ==
  LET total_value(tr) == tr.price * tr.quantity
  IN  (2 * SumOver(TradesOf(u), total_value) + Scale) \div (2 * Scale)

(* get_trading_stats; users.total_trades, which is shown to a player with  *)
(* no trade, is never written and so zero.                                 *)
TradingStats(u) ==
  [trader_level |-> db.level[u], xp |-> db.xp[u],
   total_trades |-> Len(TradesOf(u)), total_volume |-> Volume(u),
   buy_count |-> Len(BoughtBy(u, db.trades)), sell_count |-> Len(SoldBy(u, db.trades))]

(* What the pages show from different tables fits together, for players    *)
(* that trade with themselves too, for whom one trade is a purchase and a  *)
(* sale: each side of a trade has earned its xp, the gold that came or     *)
(* went is within the volume, and at any market price all portfolios       *)
(* together are worth what they were.                                      *)
ReportsAgree ==
  /\ \A u \in User :
       LET stats == TradingStats(u)
           self  == Where(TradesOf(u), LAMBDA tr : tr.buyer = tr.seller)
           gain  == db.gold[u] - opened.gold[u]
       IN  /\ stats.xp = opened.xp[u] + TradeXp * (stats.buy_count + stats.sell_count)
           /\ stats.buy_count + stats.sell_count = stats.total_trades + Len(self)
           /\ -stats.total_volume <= gain /\ gain <= stats.total_volume
  /\ \A market \in MarketPrices :
       LET worth(l) == SumFunction([u \in User |-> PortfolioValue(l, u, market)])
       IN  worth(db) = worth(opened)
=============================================================================
