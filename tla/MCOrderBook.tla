---------------------------- MODULE MCOrderBook ----------------------------
(***************************************************************************)
(* Small instances of OrderBook.  Two prices make a book that can cross,   *)
(* quantities 1 and 2 make partial fills on either side of a trade.        *)
(***************************************************************************)
EXTENDS OrderBook, TLC

CONSTANTS MaxQuantity

MCPrice == {1, 2}

(* LIMIT orders at every price, MARKET orders, of every small quantity.    *)
MCRequests ==
  [type : Side, mode : {"LIMIT"}, price : MCPrice, quantity : 1 .. MaxQuantity] \cup
  [type : Side, mode : {"MARKET"}, price : {0}, quantity : {MaxQuantity}]

(* For three threads: one price, at which an order may fill another and    *)
(* rest, and a MARKET order that sweeps up to two.                         *)
MCFewRequests ==
  [type : Side, mode : {"LIMIT"}, price : {1}, quantity : {1, 2}] \cup
  [type : Side, mode : {"MARKET"}, price : {0}, quantity : {2}]

ThreadAndOrderSymmetry == Permutations(Thread) \cup Permutations(OrderId)
=============================================================================
