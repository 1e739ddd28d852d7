---------------------------- MODULE MCSettlement ----------------------------
(***************************************************************************)
(* Small instances of Settlement.  A batch comes from one incoming order,  *)
(* so one player is the buyer of all its trades or the seller of all; the  *)
(* others, and that player itself, may be on the other side.  Two units of *)
(* price to the gold piece make the truncation of odd prices happen, one   *)
(* of the even price falls short of two whole pieces, and the opening xp   *)
(* is short of a rank by less than a batch earns.                          *)
(***************************************************************************)
EXTENDS Reports, TLC

CONSTANTS
  Prices,   \* the prices trades are struck at
  MaxBatch  \* bound: the trades of one batch

MCThreshold == [goblin_stadium |-> 0, challenger |-> 2, master |-> 4]

MCFallsShort == {<<4, 1, 2>>}

MCOpening ==
  {[gold |-> gold, cards |-> cards, xp |-> xp,
    level |-> [u \in User |-> RankOf(xp[u])], trades |-> <<>>] :
     gold \in [User -> {0, 1}], cards \in [User -> {0, 1}], xp \in {[u \in User |-> 1]}}

MCTrade(buyers, sellers) ==
  [buyer : buyers, seller : sellers, price : Prices, quantity : {1}]

MCBatches ==
  UNION {UNION {[1 .. n -> MCTrade({u}, User)] \cup [1 .. n -> MCTrade(User, {u})] :
           u \in User} : n \in 1 .. MaxBatch}

UserSymmetry == Permutations(User)
=============================================================================
