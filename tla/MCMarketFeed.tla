---------------------------- MODULE MCMarketFeed ----------------------------
(***************************************************************************)
(* Two cards, so that answers for one may arrive when the other is shown.  *)
(***************************************************************************)
EXTENDS MarketFeed
=============================================================================
