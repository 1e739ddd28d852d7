----------------------------- MODULE Settlement -----------------------------
(***************************************************************************)
(* TradeService::execute_trades (src/services/trade_service.cpp) inside    *)
(* PostgresClient::with_transaction, one step per statement sent to the    *)
(* database.  The statements work on the transaction's own copy of the     *)
(* ledger; commit publishes it, and a throw, a broken connection or a      *)
(* crash discards it.  execute_trade is the batch of one trade.            *)
(***************************************************************************)
EXTENDS Ledger

CONSTANTS
  Opening,    \* the ledgers to start from
  Batches,    \* the batches the order service may pass
  MaxTrades   \* bound: no batch that would take the trades table beyond it

ASSUME OpeningAssumption ==
  \A l \in Opening :
    /\ IsLedger(l)
    /\ \A u \in User : l.gold[u] >= 0 /\ l.cards[u] >= 0

(* What was traded before the run is in the opening balances.              *)
ASSUME OpeningTradesAssumption == \A l \in Opening : l.trades = <<>>

(* A new row of users has no xp and the lowest rank.                       *)
ASSUME OpeningRanksAssumption ==
  \A l \in Opening : \A u \in User : l.level[u] = RankOf(l.xp[u])

(* A trade as the order book hands it over, in so far as it moves wealth.  *)
Bill == [buyer : User, seller : User, price : Nat, quantity : Nat \ {0}]

ASSUME BatchesAssumption == Batches \subseteq Seq(Bill)

VARIABLES
  db,      \* the committed ledger
  txn,     \* the ledger as the open transaction sees it
  batch,   \* the trades of the call in progress, or <<>>
  k,       \* the trade being settled
  pc,      \* the statement that comes next
  opened   \* history: the ledger the run started from

vars == <<db, txn, batch, k, pc, opened>>

Location == {"idle", "debit", "credit", "transfer", "record",
             "award_buyer", "award_seller", "commit"}

Init ==
  /\ db \in Opening
  /\ txn = db
  /\ batch = <<>>
  /\ k = 1
  /\ pc = "idle"
  /\ opened = db

-----------------------------------------------------------------------------
Trade == batch[k]

Goto(from, to) == pc = from /\ pc' = to

(* The constructor of pqxx::work begins the transaction.                    *)
Begin(b) ==
  /\ Goto("idle", "debit")
  /\ b # <<>>
  /\ Len(db.trades) + Len(b) <= MaxTrades
  /\ batch' = b
  /\ txn' = db
  /\ k' = 1
  /\ UNCHANGED <<db, opened>>

(* update_balance(txn, buyer, -cost): the check and the update.            *)
DebitUnchecked ==
  /\ Goto("debit", "credit")
  /\ txn' = [txn EXCEPT !.gold[Trade.buyer] = @ - Cost(Trade)]
  /\ UNCHANGED <<db, batch, k, opened>>

Debit ==
  /\ Goto("debit", "credit")
  /\ txn.gold[Trade.buyer] >= Cost(Trade)
  /\ txn' = [txn EXCEPT !.gold[Trade.buyer] = @ - Cost(Trade)]
  /\ UNCHANGED <<db, batch, k, opened>>

(* update_balance(txn, seller, cost)                                       *)
CreditRoundedUp ==
  /\ Goto("credit", "transfer")
  /\ txn' = [txn EXCEPT !.gold[Trade.seller] = @ + CostRoundedUp(Trade)]
  /\ UNCHANGED <<db, batch, k, opened>>

Credit ==
  /\ Goto("credit", "transfer")
  /\ txn' = [txn EXCEPT !.gold[Trade.seller] = @ + Cost(Trade)]
  /\ UNCHANGED <<db, batch, k, opened>>

(* transfer_cards: the check, the deduction and the upsert.                *)
Transfer ==
  /\ Goto("transfer", "record")
  /\ txn.cards[Trade.seller] >= Trade.quantity
  /\ txn' = [txn EXCEPT !.cards =
       [u \in User |-> @[u] + (IF u = Trade.buyer THEN Trade.quantity ELSE 0)
                             - (IF u = Trade.seller THEN Trade.quantity ELSE 0)]]
  /\ UNCHANGED <<db, batch, k, opened>>

(* record_trade                                                            *)
Record ==
  /\ Goto("record", "award_buyer")
  /\ txn' = [txn EXCEPT !.trades = Append(@, Trade)]
  /\ UNCHANGED <<db, batch, k, opened>>

(* award_xp: one UPDATE sets the xp and the rank of the xp it sets.        *)
AwardedOldRank(l, u) ==
  [l EXCEPT !.xp[u] = @ + TradeXp, !.level[u] = RankOf(l.xp[u])]

Awarded(l, u) ==
  [l EXCEPT !.xp[u] = @ + TradeXp, !.level[u] = RankOf(l.xp[u] + TradeXp)]

AwardBuyer ==
  /\ Goto("award_buyer", "award_seller")
  /\ txn' = Awarded(txn, Trade.buyer)
  /\ UNCHANGED <<db, batch, k, opened>>

(* The last statement for a trade: the loop goes on, or the batch is done. *)
Advance ==
  IF k < Len(batch)
  THEN pc' = "debit" /\ k' = k + 1
  ELSE pc' = "commit" /\ UNCHANGED k

AwardSellerUnlessBuyer ==
  /\ pc = "award_seller"
  /\ Advance
  /\ txn' = IF Trade.seller = Trade.buyer THEN txn ELSE Awarded(txn, Trade.seller)
  /\ UNCHANGED <<db, batch, opened>>

AwardSeller ==
  /\ pc = "award_seller"
  /\ Advance
  /\ txn' = Awarded(txn, Trade.seller)
  /\ UNCHANGED <<db, batch, opened>>

-----------------------------------------------------------------------------
(* The end of with_transaction                                             *)

Close(l) == db' = l /\ txn' = l /\ pc' = "idle" /\ batch' = <<>> /\ k' = 1

Commit == pc = "commit" /\ Close(txn) /\ UNCHANGED opened

(* catch (...) { txn.abort(); throw; }: a check failed, or the database    *)
(* refused a statement, or the connection or the process went away.  Any   *)
(* statement may meet this.                                                *)
AbortKeepsWork == pc # "idle" /\ Close(txn) /\ UNCHANGED opened

Abort == pc # "idle" /\ Close(db) /\ UNCHANGED opened

-----------------------------------------------------------------------------
Next ==
  \/ \E b \in Batches : Begin(b)
  \/ Debit
  \/ Credit
  \/ Transfer
  \/ Record
  \/ AwardBuyer
  \/ AwardSeller
  \/ Commit
  \/ Abort

Spec == Init /\ [][Next]_vars

-----------------------------------------------------------------------------
(* Properties *)

(* The variables have their types, and each statement has its trade.       *)
TypeOK ==
  /\ IsLedger(db) /\ IsLedger(txn)
  /\ batch \in Batches \cup {<<>>}
  /\ pc \in Location
  /\ k \in Nat \ {0}
  /\ pc # "idle" => k \in DOMAIN batch

(* Nobody is ever in debt, in gold or in cards, although a player may be   *)
(* buyer, seller or both in several trades of one batch and each check     *)
(* sees only what the statements before it have left.                      *)
NoOverdraft == \A u \in User : db.gold[u] >= 0 /\ db.cards[u] >= 0

(* The trades table explains every balance: what a player holds is what it *)
(* started with plus what the recorded trades brought, nothing created,    *)
(* lost to rounding or moved by a batch that failed.                       *)
TradesExplainBalances ==
  \A u \in User :
    /\ db.gold[u] = opened.gold[u] + GoldFlow(u, db.trades)
    /\ db.cards[u] = opened.cards[u] + CardFlow(u, db.trades)

(* The rank stored with a player is the one its xp stands for, as the      *)
(* statistics page computes it (UserService::compute_rank_from_xp).        *)
LevelFollowsXp == \A u \in User : db.level[u] = RankOf(db.xp[u])

(* The statements amount to one atomic step of the whole batch, or none.   *)
Atomic == INSTANCE AtomicSettlement

SettlesAtomically == Atomic!Spec
=============================================================================
