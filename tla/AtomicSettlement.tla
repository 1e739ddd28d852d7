-------------------------- MODULE AtomicSettlement --------------------------
(***************************************************************************)
(* What TradeService promises: a batch of trades is settled as a whole and *)
(* at once, when every trade of it can be paid for and delivered, or not   *)
(* at all.                                                                 *)
(***************************************************************************)
EXTENDS Ledger

CONSTANTS
  Opening,   \* the ledgers to start from
  Batches    \* the batches of trades that may be asked for

VARIABLE db  \* the committed ledger

Init == db \in Opening

Settle(batch) ==
  /\ db'.trades = db.trades \o batch
  /\ db' = AfterTrades(db, batch)
  /\ CanSettle(db, batch)

Next == \E batch \in Batches : Settle(batch)

Spec == Init /\ [][Next]_db
=============================================================================
