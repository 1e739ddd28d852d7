---------------------------- MODULE MCMarketData ----------------------------
(***************************************************************************)
(* A small instance of MarketData: two timeframes, one a multiple of the   *)
(* other, as all of the code's are; a day as long as the longer, and       *)
(* enough seconds for two of them to close; one or two trades to an order. *)
(***************************************************************************)
EXTENDS MarketData

MCPeriod == [one_minute |-> 1, five_minutes |-> 2]

MCBatches == [1 .. 1 -> Bill] \cup [1 .. 2 -> Bill]
=============================================================================
