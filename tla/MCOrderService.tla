--------------------------- MODULE MCOrderService ---------------------------
(***************************************************************************)
(* Small instances of OrderService: two players, who may trade with one    *)
(* another and with themselves.  The gold piece has as many units of price *)
(* as the configuration says, so that costs are truncated, and the players *)
(* are poor enough for a settlement to fail.                               *)
(***************************************************************************)
EXTENDS OrderService, TLC

CONSTANTS
  Prices,      \* the prices LIMIT orders are placed at
  Quantities,  \* the quantities orders are placed for
  Wealth,      \* the gold and the cards each player starts with
  MaxOrders    \* bound: the orders placed

MCPrice == Prices \cup {Stored(p) : p \in Prices}
MCOrderId == 1 .. MaxOrders

MCRequests ==
  [type : Side, mode : {"LIMIT"}, price : Prices, quantity : Quantities] \cup
  [type : Side, mode : {"MARKET"}, price : {0}, quantity : Quantities]

(* Two of the cheaper price, in doubles, are a little less than whole.     *)
MCFallsShort == {<<4, 2, 4>>}

(* Experience has no part in placing orders: one rank, nothing earned.     *)
MCThreshold == [goblin_stadium |-> 0]

MCOpening ==
  [gold |-> [u \in User |-> Wealth], cards |-> [u \in User |-> Wealth],
   xp |-> [u \in User |-> 0], level |-> [u \in User |-> "goblin_stadium"],
   trades |-> <<>>]

UserSymmetry == Permutations(User)
=============================================================================
