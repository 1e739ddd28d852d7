--------------------------- MODULE OrderServiceProofs ---------------------------
(***************************************************************************)
(* Theorems about OrderService, for any number of players, orders, prices, *)
(* faults and crashes.                                                     *)
(*                                                                         *)
(* The argument goes in four layers.  First what a match does: the fills   *)
(* of a side, added up, are the quantity filled of the order that came,    *)
(* and the book that is left is in order.  Then three invariants, each     *)
(* using those before it: Core relates the book and the request in         *)
(* progress to the orders table, TradesInv the trades to the requests that *)
(* made them, QuantityInv the quantities traded to those filled.  The      *)
(* properties follow from them.                                            *)
(***************************************************************************)
EXTENDS OrderService, RowsProofs

-----------------------------------------------------------------------------
(* The positions of a side *)

LEMMA OrderFields ==
  ASSUME NEW o \in Order
  PROVE  /\ o.id \in OrderId /\ o.type \in Side /\ o.mode \in Mode
         /\ o.price \in Price \cup {0} /\ o.quantity \in Nat \ {0} /\ o.filled \in Nat
         /\ o.mode = "LIMIT" => o.price \in Price
BY DEF Order

LEMMA PriceIsNat == \A p \in Price : p \in Nat \ {0}
BY PriceAssumption

LEMMA PositionsOfSide ==
  ASSUME NEW queues \in Queues
  PROVE  /\ \A p \in Price : queues[p] \in Seq(Order)
         /\ \A pos \in RestingAt(queues) :
              /\ pos = <<pos[1], pos[2]>> /\ pos[1] \in Price
              /\ pos[2] \in DOMAIN queues[pos[1]] /\ pos[2] \in Nat
              /\ At(queues, pos) \in Order
         /\ \A p \in Price : \A i \in DOMAIN queues[p] :
              <<p, i>> \in RestingAt(queues) /\ At(queues, <<p, i>>) = queues[p][i]
<1>1. DOMAIN queues = Price /\ \A p \in Price : queues[p] \in Seq(Order)
  BY DEF Queues
<1>2. \A p \in Price : \A i \in DOMAIN queues[p] : i \in Nat /\ queues[p][i] \in Order
  <2> SUFFICES ASSUME NEW p \in Price, NEW i \in DOMAIN queues[p]
               PROVE  i \in Nat /\ queues[p][i] \in Order
    OBVIOUS
  <2>1. queues[p] \in Seq(Order)
    BY <1>1
  <2> QED
    BY <2>1, ElementOfSeq, LenProperties
<1>3. \A pos : pos \in RestingAt(queues) <=> \E p \in Price : \E i \in DOMAIN queues[p] : pos = <<p, i>>
  BY <1>1 DEF RestingAt
<1> QED
  BY <1>1, <1>2, <1>3 DEF At

LEMMA FinitelyManyRest ==
  ASSUME NEW queues \in Queues
  PROVE  IsFiniteSet(RestingAt(queues))
<1> DEFINE PlacesAt(p) == {<<p, i>> : i \in DOMAIN queues[p]}
           All == {PlacesAt(p) : p \in Price}
<1>1. DOMAIN queues = Price /\ \A p \in Price : queues[p] \in Seq(Order)
  BY PositionsOfSide DEF Queues
<1>2. ASSUME NEW p \in Price PROVE IsFiniteSet(PlacesAt(p))
  <2> DEFINE n == Len(queues[p])
             f == [i \in 1 .. n |-> <<p, i>>]
  <2>1. n \in Nat /\ DOMAIN queues[p] = 1 .. n
    BY <1>1, LenProperties
  <2>2. IsFiniteSet(1 .. n)
    BY <2>1, FS_Interval
  <2> HIDE DEF n
  <2>3. f \in Surjection(1 .. n, PlacesAt(p))
    BY <2>1 DEF Surjection
  <2> HIDE DEF f
  <2> QED
    BY <2>2, <2>3, FS_Surjection
<1>3. IsFiniteSet(All)
  <2> DEFINE f == [p \in Price |-> PlacesAt(p)]
  <2>1. f \in Surjection(Price, All)
    BY DEF Surjection
  <2> HIDE DEF f, All
  <2> QED
    BY <2>1, FS_Surjection, FinitePricesAssumption
<1>4. IsFiniteSet(UNION All)
  <2>1. \A T \in All : IsFiniteSet(T)
    BY <1>2
  <2> HIDE DEF All
  <2> QED
    BY <1>3, <2>1, FS_UNION
<1>5. RestingAt(queues) = UNION All
  BY <1>1 DEF RestingAt
<1> QED
  BY <1>4, <1>5

(* The order in which a side is matched, as a set of pairs.                *)
MatchOrder(queues, side) ==
  {ab \in RestingAt(queues) \X RestingAt(queues) : Precedes(side, ab[1], ab[2])}

LEMMA MatchOrderIsTotal ==
  ASSUME NEW queues \in Queues, NEW side \in Side
  PROVE  IsTotalOrder(MatchOrder(queues, side), RestingAt(queues))
<1>1. \A a, b \in RestingAt(queues) : <<a, b>> \in MatchOrder(queues, side) <=> Precedes(side, a, b)
  BY DEF MatchOrder
<1>2. \A a \in RestingAt(queues) : a = <<a[1], a[2]>> /\ a[1] \in Nat /\ a[2] \in Nat
  BY PositionsOfSide, PriceIsNat
<1>3. \A a, b, c \in RestingAt(queues) : Precedes(side, a, b) /\ Precedes(side, b, c) => Precedes(side, a, c)
  BY <1>2 DEF Precedes, Better
<1>4. \A a, b \in RestingAt(queues) : a # b => Precedes(side, a, b) \/ Precedes(side, b, a)
  <2> SUFFICES ASSUME NEW a \in RestingAt(queues), NEW b \in RestingAt(queues), a # b
               PROVE  Precedes(side, a, b) \/ Precedes(side, b, a)
    OBVIOUS
  <2>1. a[1] # b[1] \/ a[2] # b[2]
    BY <1>2
  <2> QED
    BY <1>2, <2>1 DEF Precedes, Better
<1>5. \A a \in RestingAt(queues) : ~Precedes(side, a, a)
  BY <1>2 DEF Precedes, Better
<1> QED
  BY <1>1, <1>3, <1>4, <1>5 DEF IsTotalOrder

-----------------------------------------------------------------------------
(* What the fills add up to *)

(* Every order of a side has something left.                               *)
OpenSide(queues) == \A pos \in RestingAt(queues) : Remaining(At(queues, pos)) > 0

Owned(queues) == [pos \in RestingAt(queues) |-> Remaining(At(queues, pos))]

Filled(queues, o) == [pos \in RestingAt(queues) |-> Fill(queues, o, pos)]

Before(queues, o, pos) == {a \in Eligible(queues, o) : Precedes(Opposite(o.type), a, pos)}

LEMMA OwnedIsInt ==
  ASSUME NEW queues \in Queues
  PROVE  Owned(queues) \in [RestingAt(queues) -> Int]
<1>1. \A pos \in RestingAt(queues) : Remaining(At(queues, pos)) \in Int
  BY PositionsOfSide, OrderFields DEF Remaining
<1> QED
  BY <1>1 DEF Owned

LEMMA AheadIsSum ==
  ASSUME NEW queues \in Queues, NEW o \in Order, NEW pos \in RestingAt(queues)
  PROVE  /\ Before(queues, o, pos) \in SUBSET RestingAt(queues)
         /\ Ahead(queues, o, pos) = SumIn(Owned(queues), Before(queues, o, pos))
         /\ Ahead(queues, o, pos) \in Int
<1> DEFINE T == Before(queues, o, pos)
<1>1. T \in SUBSET RestingAt(queues)
  BY DEF Before, Eligible
<1>2. [a \in T |-> Remaining(At(queues, a))] = [a \in T |-> Owned(queues)[a]]
  BY <1>1 DEF Owned
<1>3. Ahead(queues, o, pos) = SumFunction([a \in T |-> Remaining(At(queues, a))])
  BY DEF Ahead, Before
<1>4. SumIn(Owned(queues), T) = SumFunction([a \in T |-> Owned(queues)[a]])
  BY DEF SumIn
<1>5. Ahead(queues, o, pos) = SumIn(Owned(queues), T)
  BY <1>2, <1>3, <1>4
<1> HIDE DEF T
<1>6. SumIn(Owned(queues), T) \in Int
  BY <1>1, OwnedIsInt, FinitelyManyRest, SumParts
<1> QED
  BY <1>1, <1>5, <1>6 DEF T

(* No resting order is given more than remains of it.                      *)
LEMMA FillBounds ==
  ASSUME NEW queues \in Queues, OpenSide(queues), NEW o \in Order
  PROVE  \A pos \in RestingAt(queues) :
           /\ Fill(queues, o, pos) \in Nat
           /\ Fill(queues, o, pos) <= Remaining(At(queues, pos))
<1> SUFFICES ASSUME NEW pos \in RestingAt(queues)
             PROVE  /\ Fill(queues, o, pos) \in Nat
                    /\ Fill(queues, o, pos) <= Remaining(At(queues, pos))
  OBVIOUS
<1>1. Ahead(queues, o, pos) \in Int
  BY AheadIsSum
<1>2. Remaining(o) \in Int
  BY OrderFields DEF Remaining
<1>3. Remaining(At(queues, pos)) \in Int /\ Remaining(At(queues, pos)) > 0
  BY PositionsOfSide, OrderFields DEF Remaining, OpenSide
<1> QED
  BY <1>1, <1>2, <1>3 DEF Fill

(* Those served first are given what they have, until nothing is left.     *)
LEMMA FirstServed ==
  ASSUME NEW queues \in Queues, OpenSide(queues), NEW o \in Order, Remaining(o) >= 0,
         NEW T \in SUBSET Eligible(queues, o),
         \A pos \in T : Before(queues, o, pos) \subseteq T
  PROVE  SumIn(Filled(queues, o), T)
           = IF SumIn(Owned(queues), T) <= Remaining(o) THEN SumIn(Owned(queues), T) ELSE Remaining(o)
<1> DEFINE S == RestingAt(queues)
           F == Filled(queues, o)
           G == Owned(queues)
           R == Remaining(o)
           E == Eligible(queues, o)
           before == MatchOrder(queues, Opposite(o.type))
           Closed(U) == \A pos \in U : Before(queues, o, pos) \subseteq U
           Claim(U) == SumIn(F, U) = IF SumIn(G, U) <= R THEN SumIn(G, U) ELSE R
           N == {n \in Nat : \A U \in SUBSET E : Cardinality(U) = n /\ Closed(U) => Claim(U)}
<1>1. IsFiniteSet(S) /\ E \subseteq S
  BY FinitelyManyRest DEF Eligible
<1>2. F \in [S -> Int] /\ G \in [S -> Int] /\ R \in Int
  <2>1. F \in [S -> Int]
    BY FillBounds DEF Filled
  <2>2. G \in [S -> Int]
    BY OwnedIsInt
  <2>3. R \in Int
    BY OrderFields DEF Remaining
  <2> QED
    BY <2>1, <2>2, <2>3
<1>3. IsTotalOrder(before, S) /\ \A a, b \in S : <<a, b>> \in before <=> Precedes(Opposite(o.type), a, b)
  <2>1. Opposite(o.type) \in Side
    BY DEF Opposite, Side
  <2> QED
    BY <2>1, MatchOrderIsTotal DEF MatchOrder
<1>4. ASSUME NEW pos \in E
      PROVE  F[pos] = LET left == R - SumIn(G, Before(queues, o, pos))
                      IN  IF left <= 0 THEN 0 ELSE IF left < G[pos] THEN left ELSE G[pos]
  BY <1>1, AheadIsSum DEF Filled, Owned, Fill
<1>5. \A pos \in S : G[pos] \in Int /\ G[pos] > 0
  BY <1>2 DEF Owned, OpenSide
<1>6. ASSUME NEW U \in SUBSET S
      PROVE  /\ SumIn(F, U) \in Int /\ SumIn(G, U) \in Int
             /\ SumIn(F, {}) = 0 /\ SumIn(G, {}) = 0
             /\ \A m \in U : SumIn(F, U) = F[m] + SumIn(F, U \ {m}) /\ SumIn(G, U) = G[m] + SumIn(G, U \ {m})
  BY <1>1, <1>2, SumParts
<1>7. \A U \in SUBSET E : IsFiniteSet(U) /\ Cardinality(U) \in Nat
  BY <1>1, FS_Subset, FS_CardinalityType
<1>b. \A pos \in E : Before(queues, o, pos) = {a \in E : <<a, pos>> \in before}
  BY <1>1, <1>3 DEF Before
<1>r. R >= 0
  OBVIOUS
<1>t. T \in SUBSET E /\ Closed(T)
  OBVIOUS
<1> HIDE DEF S, F, G, R, E, before
<1>8. 0 \in N
  <2>1. \A U \in SUBSET E : Cardinality(U) = 0 => U = {}
    BY <1>7, FS_EmptySet
  <2>2. Claim({})
    BY <1>2, <1>6, <1>r
  <2> HIDE DEF Claim
  <2> QED
    BY <2>1, <2>2
<1>9. ASSUME NEW n \in N \cap Nat PROVE n + 1 \in N
  <2> SUFFICES ASSUME NEW U \in SUBSET E, Cardinality(U) = n + 1, Closed(U)
               PROVE  Claim(U)
    OBVIOUS
  <2>1. U # {} /\ IsFiniteSet(U) /\ IsTotalOrder(before, U)
    BY <1>1, <1>3, <1>7, FS_EmptySet DEF IsTotalOrder
  <2>2. PICK m \in U : \A x \in U \ {m} : <<x, m>> \in before
    BY <2>1, LastExists
  <2> DEFINE V == U \ {m}
  <2>3. Cardinality(V) = n
    <3>1. Cardinality(V) = Cardinality(U) - 1
      BY <2>1, <2>2, FS_RemoveElement
    <3> QED
      BY <3>1
  <2>4. V = Before(queues, o, m)
    <3>a. m \in E /\ m \in S /\ <<m, m>> \notin before
      BY <1>1, <1>3, <2>2 DEF IsTotalOrder
    <3>b. Before(queues, o, m) \subseteq U
      BY <2>2
    <3>1. \A x \in Before(queues, o, m) : x \in U /\ x # m
      BY <1>b, <3>a, <3>b
    <3>2. \A x \in V : x \in Before(queues, o, m)
      BY <1>b, <2>2
    <3> QED
      BY <3>1, <3>2
  <2>5. Closed(V)
    <3> SUFFICES ASSUME NEW pos \in V, NEW x \in Before(queues, o, pos)
                 PROVE  x \in V
      OBVIOUS
    <3>1. x \in U /\ x \in E /\ pos \in E /\ m \in E
      BY <1>b, <2>2
    <3>2. <<x, pos>> \in before /\ <<pos, m>> \in before
      BY <1>b, <2>2
    <3>3. x # m
      BY <1>1, <1>3, <3>1, <3>2 DEF IsTotalOrder
    <3> QED
      BY <3>1, <3>3
  <2>6. Claim(V)
    <3> HIDE DEF Claim, Closed
    <3> QED
      BY <2>3, <2>5
  <2>7. /\ SumIn(F, U) = F[m] + SumIn(F, V) /\ SumIn(G, U) = G[m] + SumIn(G, V)
        /\ SumIn(F, V) \in Int /\ SumIn(G, V) \in Int /\ G[m] \in Int /\ G[m] > 0
    BY <1>1, <1>5, <1>6, <2>2
  <2>8. F[m] = LET left == R - SumIn(G, V)
               IN  IF left <= 0 THEN 0 ELSE IF left < G[m] THEN left ELSE G[m]
    BY <1>4, <2>2, <2>4
  <2> HIDE DEF V
  <2> QED
    BY <1>2, <1>r, <2>6, <2>7, <2>8
<1>10. Nat \subseteq N
  <2> HIDE DEF N
  <2> QED
    BY <1>8, <1>9, SetInduction
<1>11. Claim(T)
  <2> HIDE DEF Claim, Closed
  <2> QED
    BY <1>7, <1>10, <1>t
<1> QED
  BY <1>11 DEF F, G, R

(* match_order fills no more of an order than remains of it.               *)
LEMMA TotalFillBounds ==
  ASSUME NEW queues \in Queues, OpenSide(queues), NEW o \in Order, Remaining(o) >= 0
  PROVE  /\ TotalFill(queues, o) = SumIn(Filled(queues, o), Matched(queues, o))
         /\ TotalFill(queues, o) \in Nat
         /\ TotalFill(queues, o) <= Remaining(o)
<1> DEFINE F == Filled(queues, o)
           M == Matched(queues, o)
           E == Eligible(queues, o)
<1>1. M \subseteq E /\ E \subseteq RestingAt(queues) /\ IsFiniteSet(E)
  BY FinitelyManyRest, FS_Subset DEF Matched, Eligible
<1>2. F \in [RestingAt(queues) -> Nat]
  BY FillBounds DEF Filled
<1>3. TotalFill(queues, o) = SumIn(F, M)
  <2>1. [pos \in M |-> Fill(queues, o, pos)] = [pos \in M |-> F[pos]]
    BY <1>1 DEF Filled
  <2> QED
    BY <2>1 DEF TotalFill, SumIn
<1>4. SumIn(F, E) <= Remaining(o) /\ SumIn(F, E) \in Int
  <2>1. \A pos \in E : Before(queues, o, pos) \subseteq E
    BY DEF Before
  <2>2. SumIn(F, E) = IF SumIn(Owned(queues), E) <= Remaining(o) THEN SumIn(Owned(queues), E) ELSE Remaining(o)
    BY <2>1, FirstServed
  <2>3. Remaining(o) \in Int
    BY OrderFields DEF Remaining
  <2>4. SumIn(Owned(queues), E) \in Int
    BY <1>1, OwnedIsInt, FinitelyManyRest, SumParts
  <2> HIDE DEF F, E
  <2> QED
    BY <2>2, <2>3, <2>4
<1>5. SumIn(F, M) \in Nat /\ SumIn(F, M) <= SumIn(F, E)
  <2> DEFINE f == [pos \in E |-> F[pos]]
  <2>1. f \in [E -> Nat]
    BY <1>1, <1>2
  <2>2. SumIn(f, M) = SumIn(F, M) /\ SumIn(f, E) = SumIn(F, E)
    <3>1. [x \in M |-> f[x]] = [x \in M |-> F[x]] /\ [x \in E |-> f[x]] = [x \in E |-> F[x]]
      BY <1>1
    <3> HIDE DEF f
    <3> QED
      BY <3>1 DEF SumIn
  <2>3. M \in SUBSET E
    BY <1>1
  <2> HIDE DEF f, M, E
  <2>4. SumIn(f, M) \in Nat /\ SumIn(f, M) <= SumIn(f, E)
    BY <1>1, <2>1, <2>3, SumGrows
  <2> QED
    BY <2>2, <2>4
<1> QED
  BY <1>3, <1>4, <1>5, OrderFields DEF Remaining

-----------------------------------------------------------------------------
(* The trades of a match *)

CardinalityOfMatched(queues, o) == Cardinality(Matched(queues, o))

(* The match loop comes to every order it matches, once.                   *)
LEMMA TurnsAreASorting ==
  ASSUME NEW queues \in Queues, NEW o \in Order
  PROVE  LET n == CardinalityOfMatched(queues, o)
             turn == Turns(queues, o)
         IN  /\ n \in Nat
             /\ turn \in [1 .. n -> Matched(queues, o)]
             /\ \A a, b \in 1 .. n : a # b => turn[a] # turn[b]
             /\ \A pos \in Matched(queues, o) : \E a \in 1 .. n : turn[a] = pos
<1> DEFINE S == RestingAt(queues)
           M == Matched(queues, o)
           n == CardinalityOfMatched(queues, o)
           before == MatchOrder(queues, Opposite(o.type))
           IsTurn(turn) == \A a, b \in 1 .. n : a < b => Precedes(Opposite(o.type), turn[a], turn[b])
           turn == Turns(queues, o)
<1>1. IsFiniteSet(S) /\ M \subseteq S /\ IsFiniteSet(M) /\ n = Cardinality(M)
  <2>1. IsFiniteSet(S) /\ M \subseteq S
    BY FinitelyManyRest DEF Matched, Eligible
  <2> QED
    BY <2>1, FS_Subset DEF CardinalityOfMatched
<1>2. IsTotalOrder(before, M) /\ \A a, b \in M : <<a, b>> \in before <=> Precedes(Opposite(o.type), a, b)
  <2>1. Opposite(o.type) \in Side
    BY DEF Opposite, Side
  <2>2. IsTotalOrder(before, S)
    BY <2>1, MatchOrderIsTotal
  <2>3. \A a, b \in S : <<a, b>> \in before <=> Precedes(Opposite(o.type), a, b)
    BY DEF MatchOrder
  <2> HIDE DEF S, M, before
  <2> QED
    BY <1>1, <2>2, <2>3 DEF IsTotalOrder
<1>3. turn = CHOOSE t \in [1 .. n -> M] : IsTurn(t)
  BY DEF Turns, CardinalityOfMatched
<1> HIDE DEF M, before, n
<1>4. n \in Nat /\ \E t \in [1 .. n -> M] : InOrder(t, n, before)
  BY <1>1, <1>2, SortExists
<1>5. \E t \in [1 .. n -> M] : IsTurn(t)
  BY <1>2, <1>4 DEF InOrder
<1>6. turn \in [1 .. n -> M] /\ IsTurn(turn)
  <2> HIDE DEF IsTurn, turn
  <2> QED
    BY <1>3, <1>5, Zenon
<1> HIDE DEF turn
<1>7. InOrder(turn, n, before)
  BY <1>2, <1>6 DEF InOrder
<1>8. /\ \A a, b \in 1 .. n : a # b => turn[a] # turn[b]
      /\ \A x \in M : \E a \in 1 .. n : turn[a] = x
  <2>1. /\ IsFiniteSet(M) /\ IsTotalOrder(before, M)
        /\ turn \in [1 .. Cardinality(M) -> M]
        /\ InOrder(turn, Cardinality(M), before)
    BY <1>1, <1>2, <1>6, <1>7
  <2>2. /\ \A a, b \in 1 .. Cardinality(M) : a # b => turn[a] # turn[b]
        /\ \A x \in M : \E a \in 1 .. Cardinality(M) : turn[a] = x
    <3> HIDE <1>6, <1>7
    <3> QED
      BY <2>1, SortedOnce
  <2> QED
    BY <1>1, <2>2
<1> QED
  BY <1>4, <1>6, <1>8 DEF M, n, turn

(* The trade made at a position.                                           *)
TradeAt(queues, o, pos) == CreateTrade(o, At(queues, pos), Fill(queues, o, pos), pos[1])

(* There is a trade for each of them, in turn.                             *)
LEMMA ExecutionsAre ==
  ASSUME NEW queues \in Queues, OpenSide(queues), NEW o \in Order
  PROVE  LET n == CardinalityOfMatched(queues, o)
             turn == Turns(queues, o)
         IN  /\ Executions(queues, o) \in Seq(Trade) /\ Len(Executions(queues, o)) = n
             /\ \A k \in 1 .. n : Executions(queues, o)[k] = TradeAt(queues, o, turn[k])
<1> DEFINE n == CardinalityOfMatched(queues, o)
           turn == Turns(queues, o)
           made == Executions(queues, o)
<1>1. n \in Nat /\ turn \in [1 .. n -> Matched(queues, o)]
  BY TurnsAreASorting
<1>2. made = [k \in DOMAIN turn |-> TradeAt(queues, o, turn[k])]
  BY DEF Executions, TradeAt
<1>3. ASSUME NEW pos \in Matched(queues, o)
      PROVE  TradeAt(queues, o, pos) \in Trade
  <2>1. pos \in RestingAt(queues)
    BY DEF Matched, Eligible
  <2>2. At(queues, pos) \in Order /\ pos[1] \in Price /\ Fill(queues, o, pos) \in Nat
    BY <2>1, PositionsOfSide, FillBounds
  <2>3. o.id \in OrderId /\ At(queues, pos).id \in OrderId
    BY <2>2, OrderFields
  <2> QED
    BY <2>2, <2>3 DEF TradeAt, CreateTrade, Trade
<1> HIDE DEF n, turn, made
<1>4. DOMAIN made = 1 .. n /\ \A k \in 1 .. n : made[k] = TradeAt(queues, o, turn[k]) /\ made[k] \in Trade
  BY <1>1, <1>2, <1>3
<1>5. made \in [1 .. n -> Trade]
  BY <1>2, <1>4
<1>6. made \in Seq(Trade) /\ Len(made) = n
  BY <1>1, <1>5
<1> QED
  BY <1>4, <1>6 DEF n, turn, made

-----------------------------------------------------------------------------
(* Books *)

Books == [Side -> Queues]

SameOrder(a, b) ==
  /\ a.id = b.id /\ a.type = b.type /\ a.mode = b.mode
  /\ a.price = b.price /\ a.quantity = b.quantity

(* place says where in a queue each order of another one stood; they are   *)
(* still in the same order.                                                *)
KeepsOrder(place, new, old) ==
  /\ \A k \in DOMAIN new : place[k] \in DOMAIN old
  /\ \A j, k \in DOMAIN new : j < k => place[j] < place[k]

Thinned(new, old) ==
  \E place : KeepsOrder(place, new, old) /\ \A k \in DOMAIN new : SameOrder(new[k], old[place[k]])

Holds(b, id) == \E side \in Side : \E p \in Price : \E i \in DOMAIN b[side][p] : b[side][p][i].id = id

(* What TimePriority says, of any book, and that no order stands in two    *)
(* queues.                                                                 *)
Ranked(b) ==
  /\ \A side \in Side : \A p \in Price : \A i, j \in DOMAIN b[side][p] :
       i < j => b[side][p][i].id < b[side][p][j].id
  /\ \A side1, side2 \in Side : \A p1, p2 \in Price :
       \A i \in DOMAIN b[side1][p1] : \A j \in DOMAIN b[side2][p2] :
         b[side1][p1][i].id = b[side2][p2][j].id => side1 = side2 /\ p1 = p2

LEMMA BookFields ==
  ASSUME NEW b \in Books, NEW side \in Side, NEW p \in Price
  PROVE  /\ b[side] \in Queues /\ b[side][p] \in Seq(Order)
         /\ \A i \in DOMAIN b[side][p] :
              i \in Nat /\ b[side][p][i] \in Order /\ b[side][p][i].id \in OrderId
<1>1. b[side] \in Queues /\ b[side][p] \in Seq(Order)
  BY PositionsOfSide DEF Books
<1>2. \A i \in DOMAIN b[side][p] : i \in Nat /\ b[side][p][i] \in Order
  BY <1>1, ElementOfSeq, LenProperties
<1> QED
  BY <1>1, <1>2, OrderFields

LEMMA RestsIsHolds ==
  ASSUME book \in Books
  PROVE  /\ \A id : Rests(id) <=> Holds(book, id)
         /\ \A o : o \in Resting(book) <=>
              \E side \in Side : \E p \in Price : \E i \in DOMAIN book[side][p] : book[side][p][i] = o
<1>1. \A side \in Side : DOMAIN book[side] = Price
  BY DEF Books, Queues
<1>2. \A side \in Side : \A pos : pos \in RestingAt(book[side]) <=>
        \E p \in Price : \E i \in DOMAIN book[side][p] : pos = <<p, i>>
  BY <1>1 DEF RestingAt
<1>3. \A o : o \in Resting(book) <=>
        \E side \in Side : \E pos \in RestingAt(book[side]) : o = book[side][pos[1]][pos[2]]
  BY DEF Resting
<1>4. \A o : o \in Resting(book) <=>
        \E side \in Side : \E p \in Price : \E i \in DOMAIN book[side][p] : book[side][p][i] = o
  <2>1. ASSUME NEW o, o \in Resting(book)
        PROVE  \E side \in Side : \E p \in Price : \E i \in DOMAIN book[side][p] : book[side][p][i] = o
    <3>1. PICK side \in Side : \E pos \in RestingAt(book[side]) : o = book[side][pos[1]][pos[2]]
      BY <1>3, <2>1
    <3>2. PICK pos \in RestingAt(book[side]) : o = book[side][pos[1]][pos[2]]
      BY <3>1
    <3>a. PICK p \in Price : \E i \in DOMAIN book[side][p] : pos = <<p, i>>
      BY <1>2, <3>2
    <3>3. PICK i \in DOMAIN book[side][p] : pos = <<p, i>>
      BY <3>a
    <3>4. pos[1] = p /\ pos[2] = i
      BY <3>3
    <3> QED
      BY <3>2, <3>3, <3>4
  <2>2. ASSUME NEW side \in Side, NEW p \in Price, NEW i \in DOMAIN book[side][p]
        PROVE  book[side][p][i] \in Resting(book)
    <3>1. <<p, i>> \in RestingAt(book[side]) /\ <<p, i>>[1] = p /\ <<p, i>>[2] = i
      BY <1>2
    <3> QED
      BY <1>3, <3>1
  <2> QED
    BY <2>1, <2>2
<1> QED
  BY <1>4 DEF Rests, Holds

(* A book whose queues have lost some of their orders is still in order.   *)
LEMMA ThinnedIsRanked ==
  ASSUME NEW b \in Books, NEW c \in Books, Ranked(b),
         \A side \in Side : \A p \in Price : Thinned(c[side][p], b[side][p])
  PROVE  Ranked(c) /\ \A id : Holds(c, id) => Holds(b, id)
<1>1. ASSUME NEW side \in Side, NEW p \in Price, NEW i \in DOMAIN c[side][p], NEW j \in DOMAIN c[side][p], i < j
      PROVE  c[side][p][i].id < c[side][p][j].id
  <2>1. PICK place : KeepsOrder(place, c[side][p], b[side][p])
                     /\ \A k \in DOMAIN c[side][p] : SameOrder(c[side][p][k], b[side][p][place[k]])
    BY DEF Thinned
  <2>2. /\ place[i] \in DOMAIN b[side][p] /\ place[j] \in DOMAIN b[side][p] /\ place[i] < place[j]
        /\ c[side][p][i].id = b[side][p][place[i]].id /\ c[side][p][j].id = b[side][p][place[j]].id
    BY <1>1, <2>1 DEF KeepsOrder, SameOrder
  <2> QED
    BY <2>2 DEF Ranked
<1>2. ASSUME NEW side \in Side, NEW p \in Price, NEW i \in DOMAIN c[side][p]
      PROVE  \E k \in DOMAIN b[side][p] : b[side][p][k].id = c[side][p][i].id
  <2>1. PICK place : KeepsOrder(place, c[side][p], b[side][p])
                     /\ \A k \in DOMAIN c[side][p] : SameOrder(c[side][p][k], b[side][p][place[k]])
    BY DEF Thinned
  <2> QED
    BY <2>1 DEF KeepsOrder, SameOrder
<1>3. \A side1, side2 \in Side : \A p1, p2 \in Price :
        \A i \in DOMAIN c[side1][p1] : \A j \in DOMAIN c[side2][p2] :
          c[side1][p1][i].id = c[side2][p2][j].id => side1 = side2 /\ p1 = p2
  <2> SUFFICES ASSUME NEW side1 \in Side, NEW side2 \in Side, NEW p1 \in Price, NEW p2 \in Price,
                      NEW i \in DOMAIN c[side1][p1], NEW j \in DOMAIN c[side2][p2],
                      c[side1][p1][i].id = c[side2][p2][j].id
               PROVE  side1 = side2 /\ p1 = p2
    OBVIOUS
  <2>1. PICK k \in DOMAIN b[side1][p1] : b[side1][p1][k].id = c[side1][p1][i].id
    BY <1>2
  <2>2. PICK l \in DOMAIN b[side2][p2] : b[side2][p2][l].id = c[side2][p2][j].id
    BY <1>2
  <2> QED
    BY <2>1, <2>2 DEF Ranked
<1> QED
  BY <1>1, <1>2, <1>3 DEF Ranked, Holds

Rested(b, o) == [b EXCEPT ![o.type] = Enqueue(@, o)]

(* An order that is newer than all others joins the end of its queue.      *)
LEMMA EnqueuedIsRanked ==
  ASSUME NEW b \in Books, Ranked(b), NEW o \in Order, o.price \in Price,
         NEW n \in Nat, o.id = n, OrderId \subseteq Nat,
         \A id \in Nat : Holds(b, id) => id < n
  PROVE  /\ Rested(b, o) \in Books /\ Ranked(Rested(b, o))
         /\ \A side \in Side : \A p \in Price :
              Rested(b, o)[side][p] =
                IF side = o.type /\ p = o.price THEN Append(b[side][p], o) ELSE b[side][p]
<1> DEFINE c == Rested(b, o)
<1>1. o.type \in Side
  BY OrderFields
<1>2. /\ b[o.type] \in Queues
      /\ Enqueue(b[o.type], o) = [b[o.type] EXCEPT ![o.price] = Append(b[o.type][o.price], o)]
      /\ c = [b EXCEPT ![o.type] = Enqueue(b[o.type], o)]
  BY <1>1, BookFields DEF Enqueue, Rested
<1> HIDE DEF c
<1>3. Append(b[o.type][o.price], o) \in Seq(Order)
  <2>1. b[o.type][o.price] \in Seq(Order)
    BY <1>1, BookFields
  <2> QED
    BY <2>1, AppendProperties
<1>4. Enqueue(b[o.type], o) \in Queues
  BY <1>2, <1>3 DEF Queues
<1>5. c \in Books
  BY <1>1, <1>2, <1>4 DEF Books
<1>6. \A side \in Side : \A p \in Price :
        c[side][p] = IF side = o.type /\ p = o.price THEN Append(b[side][p], o) ELSE b[side][p]
  <2> SUFFICES ASSUME NEW side \in Side, NEW p \in Price
               PROVE  c[side][p] = IF side = o.type /\ p = o.price THEN Append(b[side][p], o) ELSE b[side][p]
    OBVIOUS
  <2>1. CASE side # o.type
    <3>1. c[side] = b[side]
      BY <1>2, <2>1 DEF Books
    <3> QED
      BY <2>1, <3>1
  <2>2. CASE side = o.type
    <3>1. c[side] = [b[side] EXCEPT ![o.price] = Append(b[side][o.price], o)]
      BY <1>2, <2>2 DEF Books
    <3>2. DOMAIN b[side] = Price
      BY BookFields DEF Queues
    <3> QED
      BY <2>2, <3>1, <3>2
  <2> QED
    BY <2>1, <2>2
<1>7. ASSUME NEW side \in Side, NEW p \in Price, NEW i \in DOMAIN c[side][p]
      PROVE  /\ i \in Nat
             /\ \/ i \in DOMAIN b[side][p] /\ c[side][p][i] = b[side][p][i]
                \/ side = o.type /\ p = o.price /\ c[side][p][i] = o
                   /\ \A j \in DOMAIN b[side][p] : j < i
             /\ i \notin DOMAIN b[side][p] => \A j \in DOMAIN c[side][p] : j <= i
  <2> DEFINE q == b[side][p]
  <2>1. q \in Seq(Order)
    BY BookFields
  <2> HIDE DEF q
  <2>2. Len(q) \in Nat /\ DOMAIN q = 1 .. Len(q)
    BY <2>1, LenProperties
  <2>3. /\ DOMAIN Append(q, o) = 1 .. Len(q) + 1 /\ Append(q, o)[Len(q) + 1] = o
        /\ \A j \in 1 .. Len(q) : Append(q, o)[j] = q[j]
    BY <2>1, AppendProperties
  <2>4. c[side][p] = IF side = o.type /\ p = o.price THEN Append(q, o) ELSE q
    BY <1>6 DEF q
  <2>5. /\ i \in Nat
        /\ \/ i \in DOMAIN q /\ c[side][p][i] = q[i]
           \/ side = o.type /\ p = o.price /\ c[side][p][i] = o /\ \A j \in DOMAIN q : j < i
        /\ i \notin DOMAIN q => \A j \in DOMAIN c[side][p] : j <= i
    <3>1. CASE side = o.type /\ p = o.price
      <4>1. c[side][p] = Append(q, o)
        BY <2>4, <3>1
      <4>2. i \in 1 .. Len(q) + 1
        BY <2>3, <4>1
      <4>3. CASE i \in 1 .. Len(q)
        BY <2>2, <2>3, <4>1, <4>3
      <4>4. CASE i = Len(q) + 1
        BY <2>2, <2>3, <3>1, <4>1, <4>4
      <4> QED
        BY <2>2, <4>2, <4>3, <4>4
    <3>2. CASE ~(side = o.type /\ p = o.price)
      <4>1. c[side][p] = q
        BY <2>4, <3>2
      <4> QED
        BY <2>2, <4>1
    <3> QED
      BY <3>1, <3>2
  <2> QED
    BY <2>5 DEF q
<1>8. \A side \in Side : \A p \in Price : \A j \in DOMAIN b[side][p] :
        b[side][p][j].id \in Nat /\ b[side][p][j].id < n
  BY BookFields DEF Holds
<1>9. ASSUME NEW side \in Side, NEW p \in Price, NEW i \in DOMAIN c[side][p], NEW j \in DOMAIN c[side][p], i < j
      PROVE  c[side][p][i].id < c[side][p][j].id
  <2>1. i \in DOMAIN b[side][p] /\ c[side][p][i] = b[side][p][i]
    BY <1>7, <1>9
  <2>2. CASE j \in DOMAIN b[side][p] /\ c[side][p][j] = b[side][p][j]
    BY <1>9, <2>1, <2>2 DEF Ranked
  <2>3. CASE c[side][p][j] = o
    BY <1>8, <2>1, <2>3
  <2> QED
    BY <1>7, <2>2, <2>3
<1>10. \A side1, side2 \in Side : \A p1, p2 \in Price :
        \A i \in DOMAIN c[side1][p1] : \A j \in DOMAIN c[side2][p2] :
          c[side1][p1][i].id = c[side2][p2][j].id => side1 = side2 /\ p1 = p2
  <2> SUFFICES ASSUME NEW side1 \in Side, NEW side2 \in Side, NEW p1 \in Price, NEW p2 \in Price,
                      NEW i \in DOMAIN c[side1][p1], NEW j \in DOMAIN c[side2][p2],
                      c[side1][p1][i].id = c[side2][p2][j].id
               PROVE  side1 = side2 /\ p1 = p2
    OBVIOUS
  <2>1. \/ i \in DOMAIN b[side1][p1] /\ c[side1][p1][i] = b[side1][p1][i]
        \/ side1 = o.type /\ p1 = o.price /\ c[side1][p1][i].id = n
    BY <1>7
  <2>2. \/ j \in DOMAIN b[side2][p2] /\ c[side2][p2][j] = b[side2][p2][j]
        \/ side2 = o.type /\ p2 = o.price /\ c[side2][p2][j].id = n
    BY <1>7
  <2> QED
    BY <1>8, <2>1, <2>2 DEF Ranked
<1> QED
  BY <1>5, <1>6, <1>9, <1>10 DEF Ranked, c

-----------------------------------------------------------------------------
(* What matching, cancelling and loading make of a book                    *)

(* The rows of a query are rows of the table, in its order.                *)
LEMMA FoundInOrder ==
  ASSUME NEW S, NEW s \in Seq(S), NEW I
  PROVE  /\ RowsAt(s, I) \in Seq(S)
         /\ \E place : /\ KeepsOrder(place, RowsAt(s, I), s)
                       /\ \A k \in DOMAIN RowsAt(s, I) : place[k] \in I /\ RowsAt(s, I)[k] = s[place[k]]
<1> DEFINE found == RowsAt(s, I)
<1>1. found \in Seq(S)
  BY RowsAtIsSeq
<1>2. PICK pos : IsFoundAt(pos, s, I, found)
  BY RowsAtPlaces
<1> HIDE DEF found
<1>3. DOMAIN found = 1 .. Len(found) /\ DOMAIN s = 1 .. Len(s)
  BY <1>1, LenProperties
<1>4. \A k \in DOMAIN found : pos[k] \in I /\ pos[k] \in DOMAIN s /\ found[k] = s[pos[k]]
  BY <1>2, <1>3 DEF IsFoundAt
<1>5. KeepsOrder(pos, found, s)
  BY <1>2, <1>3, <1>4 DEF IsFoundAt, KeepsOrder
<1> QED
  BY <1>1, <1>4, <1>5 DEF found

LEMMA FilledQueues ==
  ASSUME NEW queues \in Queues, OpenSide(queues), NEW o \in Order, NEW p \in Price
  PROVE  LET left == AfterFills(queues, o)[p]
         IN  /\ left \in Seq(Order)
             /\ \E place : /\ KeepsOrder(place, left, queues[p])
                           /\ \A k \in DOMAIN left :
                                /\ left[k] = FilledBy(queues[p][place[k]], Fill(queues, o, <<p, place[k]>>))
                                /\ ~IsFilled(left[k])
<1> DEFINE q == queues[p]
           all == [k \in DOMAIN q |-> FilledBy(q[k], Fill(queues, o, <<p, k>>))]
           I == {i \in DOMAIN all : ~IsFilled(all[i])}
           left == RowsAt(all, I)
<1>1. q \in Seq(Order) /\ DOMAIN q = 1 .. Len(q) /\ Len(q) \in Nat
  <2>1. q \in Seq(Order)
    BY PositionsOfSide
  <2> QED
    BY <2>1, LenProperties
<1>2. ASSUME NEW k \in DOMAIN q
      PROVE  FilledBy(q[k], Fill(queues, o, <<p, k>>)) \in Order
  <2>1. q[k] \in Order /\ <<p, k>> \in RestingAt(queues)
    BY <1>1, PositionsOfSide, ElementOfSeq
  <2>2. Fill(queues, o, <<p, k>>) \in Nat
    BY <2>1, FillBounds
  <2> QED
    BY <2>1, <2>2 DEF FilledBy, Order
<1>3. all \in Seq(Order)
  BY <1>1, <1>2
<1>4. AfterFills(queues, o)[p] = left
  BY DEF AfterFills, Where
<1>5. DOMAIN all = DOMAIN q /\ \A k \in DOMAIN q : all[k] = FilledBy(q[k], Fill(queues, o, <<p, k>>))
  OBVIOUS
<1>6. \A i \in I : ~IsFilled(all[i])
  OBVIOUS
<1> HIDE DEF all, I
<1>7. /\ left \in Seq(Order)
      /\ \E place : /\ KeepsOrder(place, left, all)
                    /\ \A k \in DOMAIN left : place[k] \in I /\ left[k] = all[place[k]]
  BY <1>3, FoundInOrder
<1>8. PICK place : /\ KeepsOrder(place, left, all)
                   /\ \A k \in DOMAIN left : place[k] \in I /\ left[k] = all[place[k]]
  BY <1>7
<1> HIDE DEF left, q
<1>9. KeepsOrder(place, left, q)
  BY <1>5, <1>8 DEF KeepsOrder
<1>10. \A k \in DOMAIN left :
         left[k] = FilledBy(q[place[k]], Fill(queues, o, <<p, place[k]>>)) /\ ~IsFilled(left[k])
  BY <1>5, <1>6, <1>8, <1>9 DEF KeepsOrder
<1> QED
  BY <1>4, <1>7, <1>9, <1>10 DEF q

LEMMA FilledByKeeps ==
  ASSUME NEW o \in Order, NEW n \in Nat
  PROVE  /\ FilledBy(o, n) \in Order /\ SameOrder(FilledBy(o, n), o)
         /\ FilledBy(o, n).filled = o.filled + n
         /\ Remaining(FilledBy(o, n)) = Remaining(o) - n
         /\ Remaining(o) \in Int
         /\ ~IsFilled(o) <=> Remaining(o) > 0
BY DEF FilledBy, Order, SameOrder, Remaining, IsFilled

(* The side o is matched with, after the match.                            *)
LEMMA FilledSide ==
  ASSUME NEW queues \in Queues, OpenSide(queues), NEW o \in Order
  PROVE  /\ AfterFills(queues, o) \in Queues
         /\ \A p \in Price : Thinned(AfterFills(queues, o)[p], queues[p])
         /\ \A p \in Price : \A k \in DOMAIN AfterFills(queues, o)[p] :
              /\ Remaining(AfterFills(queues, o)[p][k]) > 0
              /\ \E j \in DOMAIN queues[p] :
                   AfterFills(queues, o)[p][k] = FilledBy(queues[p][j], Fill(queues, o, <<p, j>>))
<1> DEFINE after == AfterFills(queues, o)
<1>1. ASSUME NEW p \in Price
      PROVE  /\ after[p] \in Seq(Order) /\ Thinned(after[p], queues[p])
             /\ \A k \in DOMAIN after[p] :
                  /\ Remaining(after[p][k]) > 0
                  /\ \E j \in DOMAIN queues[p] : after[p][k] = FilledBy(queues[p][j], Fill(queues, o, <<p, j>>))
  <2>0. after[p] \in Seq(Order)
    BY FilledQueues
  <2>1. PICK place : /\ KeepsOrder(place, after[p], queues[p])
                     /\ \A k \in DOMAIN after[p] :
                          /\ after[p][k] = FilledBy(queues[p][place[k]], Fill(queues, o, <<p, place[k]>>))
                          /\ ~IsFilled(after[p][k])
    BY FilledQueues
  <2>2. ASSUME NEW k \in DOMAIN after[p]
        PROVE  /\ Remaining(after[p][k]) > 0 /\ SameOrder(after[p][k], queues[p][place[k]])
               /\ place[k] \in DOMAIN queues[p]
    <3>1. place[k] \in DOMAIN queues[p]
      BY <2>1 DEF KeepsOrder
    <3>2. <<p, place[k]>> \in RestingAt(queues) /\ queues[p][place[k]] \in Order
      <4>1. queues[p] \in Seq(Order)
        BY PositionsOfSide
      <4> QED
        BY <3>1, <4>1, PositionsOfSide, ElementOfSeq, LenProperties
    <3>3. Fill(queues, o, <<p, place[k]>>) \in Nat
      BY <3>2, FillBounds
    <3>4. after[p][k] \in Order /\ SameOrder(after[p][k], queues[p][place[k]])
      BY <2>1, <3>2, <3>3, FilledByKeeps
    <3> QED
      BY <2>1, <3>1, <3>4, FilledByKeeps
  <2>3. Thinned(after[p], queues[p])
    BY <2>1, <2>2 DEF Thinned
  <2> QED
    BY <2>0, <2>1, <2>2, <2>3
<1>2. after = [p \in Price |-> after[p]]
  BY DEF AfterFills
<1> HIDE DEF after
<1>3. after \in [Price -> Seq(Order)]
  BY <1>1, <1>2
<1> QED
  BY <1>1, <1>3 DEF after, Queues

(* Without an order the others stay, in order.                             *)
LEMMA WithoutOne ==
  ASSUME NEW b \in Books, NEW id
  PROVE  /\ Without(b, id) \in Books
         /\ \A side \in Side : \A p \in Price :
              /\ Thinned(Without(b, id)[side][p], b[side][p])
              /\ \A k \in DOMAIN Without(b, id)[side][p] :
                   /\ Without(b, id)[side][p][k].id # id
                   /\ \E j \in DOMAIN b[side][p] : Without(b, id)[side][p][k] = b[side][p][j]
<1> DEFINE c == Without(b, id)
<1>1. ASSUME NEW side \in Side, NEW p \in Price
      PROVE  /\ c[side][p] \in Seq(Order) /\ Thinned(c[side][p], b[side][p])
             /\ \A k \in DOMAIN c[side][p] :
                  c[side][p][k].id # id /\ \E j \in DOMAIN b[side][p] : c[side][p][k] = b[side][p][j]
  <2> DEFINE q == b[side][p]
             I == {i \in DOMAIN q : q[i].id # id}
  <2>1. c[side][p] = RowsAt(q, I)
    BY DEF Without, Where
  <2>2. q \in Seq(Order)
    BY BookFields
  <2>3. /\ RowsAt(q, I) \in Seq(Order)
        /\ \E place : /\ KeepsOrder(place, RowsAt(q, I), q)
                      /\ \A k \in DOMAIN RowsAt(q, I) : place[k] \in I /\ RowsAt(q, I)[k] = q[place[k]]
    <3> HIDE DEF I, q
    <3> QED
      BY <2>2, FoundInOrder
  <2>4. PICK place : /\ KeepsOrder(place, RowsAt(q, I), q)
                     /\ \A k \in DOMAIN RowsAt(q, I) : place[k] \in I /\ RowsAt(q, I)[k] = q[place[k]]
    BY <2>3
  <2>5. Thinned(RowsAt(q, I), q)
    BY <2>4 DEF Thinned, SameOrder
  <2>6. \A k \in DOMAIN RowsAt(q, I) :
          RowsAt(q, I)[k].id # id /\ \E j \in DOMAIN q : RowsAt(q, I)[k] = q[j]
    BY <2>4
  <2> QED
    BY <2>1, <2>3, <2>5, <2>6
<1>2. c = [side \in Side |-> [p \in Price |-> c[side][p]]]
  BY DEF Without
<1> HIDE DEF c
<1>3. c \in Books
  <2>1. \A side \in Side : [p \in Price |-> c[side][p]] \in Queues
    BY <1>1 DEF Queues
  <2> QED
    BY <1>2, <2>1 DEF Books
<1> QED
  BY <1>1, <1>3 DEF c

(* A loaded order is an open row of its side and price; the places of the  *)
(* rows increase.                                                          *)
LEMMA LoadedRows ==
  ASSUME orders \in Seq(Row), NEW side \in Side, NEW p \in Price
  PROVE  LET q == Loaded[side][p]
         IN  /\ q \in Seq(Order)
             /\ \E place :
                  /\ KeepsOrder(place, q, orders)
                  /\ \A k \in DOMAIN q :
                       /\ q[k] = orders[place[k]].order /\ Open(orders[place[k]])
                       /\ q[k].mode = "LIMIT" /\ q[k].type = side /\ q[k].price = p
<1> DEFINE I == {i \in DOMAIN orders :
                   /\ Open(orders[i]) /\ orders[i].order.mode = "LIMIT"
                   /\ orders[i].order.type = side /\ orders[i].order.price = p}
           rows == RowsAt(orders, I)
           q == [k \in DOMAIN rows |-> rows[k].order]
<1>1. Loaded[side][p] = q
  BY DEF Loaded, LoadedQueue, Where
<1>2. \A i \in I : /\ Open(orders[i]) /\ orders[i].order.mode = "LIMIT"
                   /\ orders[i].order.type = side /\ orders[i].order.price = p
  OBVIOUS
<1> HIDE DEF I
<1>3. /\ rows \in Seq(Row)
      /\ \E place : /\ KeepsOrder(place, rows, orders)
                    /\ \A k \in DOMAIN rows : place[k] \in I /\ rows[k] = orders[place[k]]
  BY FoundInOrder
<1>4. PICK place : /\ KeepsOrder(place, rows, orders)
                   /\ \A k \in DOMAIN rows : place[k] \in I /\ rows[k] = orders[place[k]]
  BY <1>3
<1>5. DOMAIN q = DOMAIN rows /\ \A k \in DOMAIN q : q[k] = rows[k].order
  OBVIOUS
<1>6. q \in Seq(Order)
  <2>1. DOMAIN rows = 1 .. Len(rows) /\ Len(rows) \in Nat /\ \A k \in DOMAIN rows : rows[k] \in Row
    BY <1>3, LenProperties, ElementOfSeq
  <2>2. \A k \in DOMAIN rows : rows[k].order \in Order
    BY <2>1 DEF Row
  <2> HIDE DEF rows
  <2> QED
    BY <2>1, <2>2
<1> HIDE DEF rows, q
<1>7. KeepsOrder(place, q, orders)
  BY <1>4, <1>5 DEF KeepsOrder
<1>8. \A k \in DOMAIN q :
        /\ q[k] = orders[place[k]].order /\ Open(orders[place[k]])
        /\ q[k].mode = "LIMIT" /\ q[k].type = side /\ q[k].price = p
  BY <1>2, <1>4, <1>5
<1> QED
  BY <1>1, <1>6, <1>7, <1>8

(* What load_pending_orders builds is a book.                              *)
LEMMA LoadedIsABook ==
  ASSUME orders \in Seq(Row)
  PROVE  Loaded \in Books
<1>1. \A side \in Side : \A p \in Price : Loaded[side][p] \in Seq(Order)
  BY LoadedRows
<1>2. Loaded = [side \in Side |-> [p \in Price |-> Loaded[side][p]]]
  BY DEF Loaded
<1>3. \A side \in Side : [p \in Price |-> Loaded[side][p]] \in Queues
  BY <1>1 DEF Queues
<1> QED
  BY <1>2, <1>3 DEF Books

(* What the order at a place of the book is given by a match with o.       *)
Given(b, o, side, p, j) == IF side = Opposite(o.type) THEN Fill(b[side], o, <<p, j>>) ELSE 0

LEMMA GivenIsNat ==
  ASSUME NEW b \in Books, NEW o \in Order, OpenSide(b[Opposite(o.type)]),
         NEW side \in Side, NEW p \in Price, NEW j \in DOMAIN b[side][p]
  PROVE  /\ Given(b, o, side, p, j) \in Nat
         /\ Given(b, o, side, p, j) > 0 => Given(b, o, side, p, j) <= Remaining(b[side][p][j])
<1>1. b[side] \in Queues /\ <<p, j>> \in RestingAt(b[side]) /\ At(b[side], <<p, j>>) = b[side][p][j]
  BY BookFields, PositionsOfSide
<1> QED
  BY <1>1, FillBounds DEF Given

(* The book after a match: what is left of the orders that were there, and *)
(* what is left of o.                                                      *)
LEMMA MatchedBook ==
  ASSUME NEW b \in Books, Ranked(b), NEW o \in Order, Remaining(o) >= 0,
         \A side \in Side : \A p \in Price : \A i \in DOMAIN b[side][p] : Remaining(b[side][p][i]) > 0,
         OrderId \subseteq Nat, \A id : Holds(b, id) => id < o.id
  PROVE  LET c == AfterMatch(b, o)
             left == Incoming(b[Opposite(o.type)], o)
         IN  /\ left \in Order /\ SameOrder(left, o) /\ Remaining(left) >= 0
             /\ left.filled = o.filled + TotalFill(b[Opposite(o.type)], o)
             /\ c \in Books /\ Ranked(c)
             /\ \A side \in Side : \A p \in Price : \A k \in DOMAIN c[side][p] :
                  \/ /\ c[side][p][k] = left /\ Remaining(left) > 0
                     /\ side = o.type /\ p = o.price /\ o.mode = "LIMIT"
                  \/ /\ Remaining(c[side][p][k]) > 0
                     /\ \E j \in DOMAIN b[side][p] :
                          c[side][p][k] = FilledBy(b[side][p][j], Given(b, o, side, p, j))
<1> DEFINE opposite == Opposite(o.type)
           left == Incoming(b[opposite], o)
           c == AfterMatch(b, o)
           d == [b EXCEPT ![opposite] = AfterFills(b[opposite], o)]
<1>1. opposite \in Side /\ o.type \in Side /\ opposite # o.type /\ b[opposite] \in Queues
  <2>1. o.type \in Side
    BY OrderFields
  <2>2. opposite \in Side /\ opposite # o.type
    BY <2>1 DEF Opposite, Side
  <2> QED
    BY <2>1, <2>2 DEF Books
<1>2. OpenSide(b[opposite])
  <2>1. \A pos \in RestingAt(b[opposite]) : Remaining(At(b[opposite], pos)) > 0
    BY <1>1, PositionsOfSide DEF At
  <2> QED
    BY <2>1 DEF OpenSide
<1>3. /\ left \in Order /\ SameOrder(left, o) /\ Remaining(left) >= 0
      /\ left.filled = o.filled + TotalFill(b[opposite], o)
  <2>1. TotalFill(b[opposite], o) \in Nat /\ TotalFill(b[opposite], o) <= Remaining(o)
    BY <1>1, <1>2, TotalFillBounds
  <2>2. left = FilledBy(o, TotalFill(b[opposite], o))
    BY DEF Incoming
  <2> QED
    BY <2>1, <2>2, FilledByKeeps, SMTT(30)
<1>4. c = IF o.mode = "LIMIT" /\ Remaining(left) > 0 THEN [d EXCEPT ![o.type] = Enqueue(@, left)] ELSE d
  BY DEF AfterMatch
<1>5. /\ AfterFills(b[opposite], o) \in Queues
      /\ \A p \in Price : Thinned(AfterFills(b[opposite], o)[p], b[opposite][p])
      /\ \A p \in Price : \A k \in DOMAIN AfterFills(b[opposite], o)[p] :
           /\ Remaining(AfterFills(b[opposite], o)[p][k]) > 0
           /\ \E j \in DOMAIN b[opposite][p] :
                AfterFills(b[opposite], o)[p][k] = FilledBy(b[opposite][p][j], Fill(b[opposite], o, <<p, j>>))
  BY <1>1, <1>2, FilledSide
<1> HIDE DEF left, c
<1>6. /\ d \in Books /\ d[opposite] = AfterFills(b[opposite], o)
      /\ \A side \in Side : side # opposite => d[side] = b[side]
  BY <1>1, <1>5 DEF Books
<1> HIDE DEF d, opposite
<1>7. ASSUME NEW side \in Side, NEW p \in Price, NEW k \in DOMAIN d[side][p]
      PROVE  /\ Remaining(d[side][p][k]) > 0
             /\ \E j \in DOMAIN b[side][p] : d[side][p][k] = FilledBy(b[side][p][j], Given(b, o, side, p, j))
  <2>1. CASE side = opposite
    BY <1>5, <1>6, <2>1 DEF Given, opposite
  <2>2. CASE side # opposite
    <3>1. d[side] = b[side]
      BY <1>6, <2>2
    <3>2. b[side][p][k] \in Order
      BY <3>1, BookFields
    <3>3. FilledBy(b[side][p][k], 0) = b[side][p][k]
      BY <3>2 DEF FilledBy, Order
    <3>4. Given(b, o, side, p, k) = 0
      BY <2>2 DEF Given, opposite
    <3> QED
      BY <3>1, <3>3, <3>4
  <2> QED
    BY <2>1, <2>2
<1>8. \A side \in Side : \A p \in Price : Thinned(d[side][p], b[side][p])
  <2>1. ASSUME NEW q \in Seq(Order) PROVE Thinned(q, q)
    <3> DEFINE place == [k \in DOMAIN q |-> k]
    <3>1. KeepsOrder(place, q, q) /\ \A k \in DOMAIN q : SameOrder(q[k], q[place[k]])
      BY DEF KeepsOrder, SameOrder
    <3> HIDE DEF place
    <3> QED
      BY <3>1 DEF Thinned
  <2> SUFFICES ASSUME NEW side \in Side, NEW p \in Price PROVE Thinned(d[side][p], b[side][p])
    OBVIOUS
  <2>2. b[side][p] \in Seq(Order)
    BY BookFields
  <2>3. CASE side = opposite
    BY <1>5, <1>6, <2>3
  <2>4. CASE side # opposite
    BY <1>6, <2>1, <2>2, <2>4
  <2> QED
    BY <2>3, <2>4
<1>9. Ranked(d) /\ \A id : Holds(d, id) => Holds(b, id)
  BY <1>6, <1>8, ThinnedIsRanked
<1>10. CASE ~(o.mode = "LIMIT" /\ Remaining(left) > 0)
  <2>1. c = d
    BY <1>4, <1>10
  <2> QED
    BY <1>3, <1>6, <1>7, <1>9, <2>1 DEF left, c, opposite
<1>11. CASE o.mode = "LIMIT" /\ Remaining(left) > 0
  <2>1. c = Rested(d, left)
    BY <1>3, <1>4, <1>11 DEF SameOrder, Rested
  <2>2. left.price \in Price /\ left.id = o.id /\ o.id \in Nat /\ left.type = o.type /\ left.price = o.price
    BY <1>3, <1>11, OrderFields DEF SameOrder
  <2>3. \A id \in Nat : Holds(d, id) => id < o.id
    BY <1>9
  <2>4. /\ c \in Books /\ Ranked(c)
        /\ \A side \in Side : \A p \in Price :
             c[side][p] = IF side = left.type /\ p = left.price THEN Append(d[side][p], left) ELSE d[side][p]
    <3>1. OrderId \subseteq Nat /\ left \in Order /\ d \in Books /\ Ranked(d)
      BY <1>3, <1>6, <1>9
    <3>3. left.price \in Price /\ o.id \in Nat /\ left.id = o.id
      BY <2>2
    <3>4. /\ Rested(d, left) \in Books /\ Ranked(Rested(d, left))
          /\ \A side \in Side : \A p \in Price :
               Rested(d, left)[side][p] =
                 IF side = left.type /\ p = left.price THEN Append(d[side][p], left) ELSE d[side][p]
      BY <2>3, <3>1, <3>3, EnqueuedIsRanked
    <3> QED
      BY <2>1, <3>4
  <2>5. ASSUME NEW side \in Side, NEW p \in Price, NEW k \in DOMAIN c[side][p]
        PROVE  \/ /\ c[side][p][k] = left /\ Remaining(left) > 0
                  /\ side = o.type /\ p = o.price /\ o.mode = "LIMIT"
               \/ (k \in DOMAIN d[side][p] /\ c[side][p][k] = d[side][p][k])
    <3>1. d[side][p] \in Seq(Order)
      BY <1>6, BookFields
    <3>2. CASE side = left.type /\ p = left.price
      <4>1. c[side][p] = Append(d[side][p], left)
        BY <2>4, <3>2
      <4> DEFINE q == d[side][p]
      <4> HIDE DEF q
      <4>2. \/ Append(q, left)[k] = left
            \/ k \in DOMAIN q /\ Append(q, left)[k] = q[k]
        <5>1. q \in Seq(Order) /\ Len(q) \in Nat /\ DOMAIN q = 1 .. Len(q)
          BY <3>1, LenProperties DEF q
        <5>2. /\ DOMAIN Append(q, left) = 1 .. Len(q) + 1 /\ Append(q, left)[Len(q) + 1] = left
              /\ \A j \in 1 .. Len(q) : Append(q, left)[j] = q[j]
          BY <1>3, <5>1, AppendProperties
        <5>3. k \in 1 .. Len(q) + 1
          BY <4>1, <5>2 DEF q
        <5> QED
          BY <5>1, <5>2, <5>3
      <4> QED
        BY <1>11, <2>2, <3>2, <4>1, <4>2 DEF q
    <3>3. CASE ~(side = left.type /\ p = left.price)
      BY <2>4, <3>3
    <3> QED
      BY <3>2, <3>3
  <2> QED
    BY <1>3, <1>7, <2>4, <2>5 DEF left, c, opposite
<1> QED
  BY <1>10, <1>11

-----------------------------------------------------------------------------
(* The invariant of the book and the table                                 *)

(* Every price a request may ask for is one the column can hold.           *)
WholeCents == \A r \in Requests : Stored(r.price) = r.price

(* Half a cent apart, at the most.                                         *)
Near(p, q) == 2 * (p - q) <= Cent /\ 2 * (q - p) <= Cent

IsAsked(o, r) == o.type = r.type /\ o.mode = r.mode /\ o.quantity = r.quantity

(* The rows of the table are the requests, each at its place.  An open row *)
(* has something left to trade.                                            *)
RowsInv ==
  /\ orders \in Seq(Row) /\ asked \in Seq(Requests) /\ Len(asked) = Len(orders)
  /\ \A i \in DOMAIN orders :
       /\ orders[i].order.id = i
       /\ IsAsked(orders[i].order, asked[i])
       /\ orders[i].order.price = Stored(asked[i].price)
       /\ Open(orders[i]) => Remaining(orders[i].order) > 0

(* An order in the queue of a side and a price belongs there, its row is   *)
(* open, and its price is the one that was asked for, or within half a     *)
(* cent of it when the table rounded it and a restart read it back.        *)
Stands(o, side, p) ==
  /\ o.type = side /\ o.mode = "LIMIT" /\ o.price = p /\ Remaining(o) > 0
  /\ o.id \in DOMAIN orders /\ Open(orders[o.id]) /\ IsAsked(o, asked[o.id])
  /\ Near(asked[o.id].price, p)
  /\ crashes = 0 \/ WholeCents => asked[o.id].price = p

BookInv ==
  /\ book \in Books /\ Ranked(book)
  /\ \A side \in Side : \A p \in Price : \A i \in DOMAIN book[side][p] :
       Stands(book[side][p][i], side, p)

(* The order being placed is the last row, which nobody has updated yet;   *)
(* an order being cancelled has left the book.                             *)
RequestInv ==
  /\ pc \in Location /\ crashes \in Nat
  /\ pc = "down" => crashes > 0
  /\ pc \in {"match", "settle", "update"} =>
       /\ order \in Order /\ order.id = Len(orders) /\ order.id \in DOMAIN orders
       /\ orders[order.id].status = "PENDING"
       /\ IsAsked(order, asked[order.id]) /\ order.price = asked[order.id].price
       /\ Remaining(order) >= 0
  /\ pc = "match" => order.filled = 0 /\ ~Holds(book, order.id)
  /\ pc \in {"settle", "update"} /\ Holds(book, order.id) => ~IsFilled(order)
  /\ pc = "mark_cancelled" => target \in DOMAIN orders /\ ~Holds(book, target)

Core == RowsInv /\ BookInv /\ RequestInv

LEMMA NearItself == \A p \in Nat : Near(p, p)
BY CentAssumption DEF Near

(* The column rounds to the nearest cent.                                  *)
LEMMA StoredIsNear ==
  ASSUME NEW p \in Nat
  PROVE  Near(p, Stored(p))
<1> DEFINE whole == (2 * p + Cent) \div (2 * Cent)
<1>1. /\ whole \in Nat /\ (2 * Cent) * whole <= 2 * p + Cent
      /\ 2 * p + Cent < (2 * Cent) * whole + 2 * Cent
  <2> DEFINE a == 2 * p + Cent
             b == 2 * Cent
  <2>1. a \in Nat /\ b \in Nat \ {0}
    BY CentAssumption
  <2> HIDE DEF a, b
  <2>2. a \div b \in Nat /\ b * (a \div b) <= a /\ a < b * (a \div b) + b
    BY <2>1
  <2> QED
    BY <2>2 DEF a, b
<1> HIDE DEF whole
<1>2. PICK stored \in Nat : stored = whole * Cent
  BY <1>1, CentAssumption
<1>3. (2 * Cent) * whole = 2 * stored
  BY <1>1, <1>2, CentAssumption
<1>4. Stored(p) = stored
  BY <1>2 DEF Stored, whole
<1> QED
  BY <1>1, <1>2, <1>3, <1>4, CentAssumption DEF Near

LEMMA OrderIdIsNat == \A id \in OrderId : id \in Nat \ {0}
BY IdentifiersAssumption, FS_CardinalityType

LEMMA StoredIsPrice ==
  ASSUME NEW r \in Requests
  PROVE  /\ r.type \in Side /\ r.mode \in Mode /\ r.quantity \in Nat \ {0}
         /\ r.price \in Price \cup {0} /\ Stored(r.price) \in Price \cup {0}
         /\ r.mode = "LIMIT" => r.price \in Price /\ Stored(r.price) \in Price
<1>1. r \in Request
  BY RequestsAssumption
<1>2. Stored(0) = 0
  <2>1. \A n \in Nat \ {0} : (2 * 0 + n) \div (2 * n) = 0
    <3> SUFFICES ASSUME NEW n \in Nat \ {0} PROVE n \div (2 * n) = 0
      OBVIOUS
    <3> DEFINE m == 2 * n
    <3>1. m \in Nat /\ n < m /\ m > 0 /\ n >= 0
      OBVIOUS
    <3> HIDE DEF m
    <3> QED
      BY <3>1 DEF m
  <2>2. (2 * 0 + Cent) \div (2 * Cent) = 0
    BY <2>1, CentAssumption
  <2>3. 0 * Cent = 0
    BY CentAssumption
  <2> QED
    BY <2>2, <2>3 DEF Stored
<1>3. \A p \in Price : Stored(p) \in Price
  BY StoredPricesAssumption
<1> QED
  BY <1>1, <1>2, <1>3 DEF Request

(* A new order, and the row insert_order stores for it.                    *)
LEMMA NewOrderIs ==
  ASSUME NEW r \in Requests, NEW id \in OrderId
  PROVE  LET o == NewOrder(id, r)
             stored == [o EXCEPT !.price = Stored(@)]
         IN  /\ o \in Order /\ o.id = id /\ IsAsked(o, r) /\ o.price = r.price
             /\ o.filled = 0 /\ Remaining(o) > 0
             /\ stored \in Order /\ stored.id = id /\ IsAsked(stored, r)
             /\ stored.price = Stored(r.price) /\ stored.filled = 0 /\ Remaining(stored) > 0
<1>1. /\ r.type \in Side /\ r.mode \in Mode /\ r.quantity \in Nat \ {0}
      /\ r.price \in Price \cup {0} /\ Stored(r.price) \in Price \cup {0}
      /\ r.mode = "LIMIT" => r.price \in Price /\ Stored(r.price) \in Price
  BY StoredIsPrice
<1> QED
  BY <1>1 DEF NewOrder, Order, IsAsked, Remaining

LEMMA RowFields ==
  ASSUME RowsInv, NEW i \in DOMAIN orders
  PROVE  /\ i \in 1 .. Len(orders) /\ Len(orders) \in Nat /\ i \in DOMAIN asked
         /\ orders[i] \in Row /\ orders[i].order \in Order /\ asked[i] \in Requests
<1>1. orders \in Seq(Row) /\ asked \in Seq(Requests) /\ Len(asked) = Len(orders)
  BY DEF RowsInv
<1>2. DOMAIN orders = 1 .. Len(orders) /\ DOMAIN asked = 1 .. Len(orders) /\ Len(orders) \in Nat
  BY <1>1, LenProperties
<1>3. orders[i] \in Row /\ asked[i] \in Requests
  BY <1>1, <1>2, ElementOfSeq
<1> QED
  BY <1>2, <1>3 DEF Row

(* An order of the book has a row.                                         *)
LEMMA HeldHasRow ==
  ASSUME BookInv, NEW id, Holds(book, id)
  PROVE  id \in DOMAIN orders /\ Open(orders[id])
BY DEF BookInv, Stands, Holds

LEMMA InitCore == Init => Core
<1> SUFFICES ASSUME Init PROVE Core
  OBVIOUS
<1>1. orders = <<>> /\ asked = <<>> /\ book = EmptyQueues /\ pc = "idle" /\ crashes = 0
  BY DEF Init
<1>2. RowsInv
  BY <1>1 DEF RowsInv
<1>3. EmptyQueues \in Books /\ \A side \in Side : \A p \in Price : DOMAIN EmptyQueues[side][p] = {}
  BY DEF EmptyQueues, Books, Queues
<1>4. BookInv
  BY <1>1, <1>3 DEF BookInv, Ranked
<1>5. RequestInv
  BY <1>1 DEF RequestInv, Location
<1> QED
  BY <1>2, <1>4, <1>5 DEF Core

(* The book stays as it is: its orders still stand when the table keeps    *)
(* their rows open and the requests are the same.                          *)
LEMMA BookStays ==
  ASSUME BookInv, book' = book,
         \A id \in DOMAIN orders : Holds(book, id) /\ Open(orders[id]) =>
           id \in DOMAIN orders' /\ Open(orders'[id]) /\ asked'[id] = asked[id],
         crashes' = crashes \/ \A id : ~Holds(book, id)
  PROVE  BookInv'
<1>1. ASSUME NEW side \in Side, NEW p \in Price, NEW i \in DOMAIN book[side][p]
      PROVE  Stands(book[side][p][i], side, p)'
  <2>1. Stands(book[side][p][i], side, p) /\ Holds(book, book[side][p][i].id)
    BY DEF BookInv, Holds
  <2> QED
    BY <2>1 DEF Stands
<1> QED
  BY <1>1 DEF BookInv

(* A row is inserted; the request goes on with the new order or ends.      *)
LEMMA InsertKeepsCore ==
  ASSUME Core, NEW u \in User, NEW r \in Requests, Insert(u, r),
         book' = book, crashes' = crashes,
         pc' = "idle" \/ (pc' = "match" /\ order' = NewOrder(Len(orders) + 1, r))
  PROVE  Core'
<1> DEFINE n == Len(orders)
           o == NewOrder(n + 1, r)
           row == [user |-> u, order |-> [o EXCEPT !.price = Stored(@)], status |-> "PENDING"]
<1>1. /\ orders \in Seq(Row) /\ asked \in Seq(Requests) /\ Len(asked) = Len(orders) /\ n \in Nat
      /\ DOMAIN orders = 1 .. n
  <2>1. orders \in Seq(Row) /\ asked \in Seq(Requests) /\ Len(asked) = Len(orders)
    BY DEF Core, RowsInv
  <2> QED
    BY <2>1, LenProperties
<1>2. /\ n + 1 \in OrderId /\ orders' = Append(orders, row) /\ asked' = Append(asked, r)
      /\ pc' = "idle" \/ (pc' = "match" /\ order' = o)
  <2>1. o.id = n + 1
    BY DEF NewOrder
  <2> QED
    BY <2>1 DEF Insert
<1>3. /\ o \in Order /\ o.id = n + 1 /\ IsAsked(o, r) /\ o.price = r.price
      /\ o.filled = 0 /\ Remaining(o) > 0
      /\ row.order \in Order /\ row.order.id = n + 1 /\ IsAsked(row.order, r)
      /\ row.order.price = Stored(r.price) /\ Remaining(row.order) > 0
  BY <1>2, NewOrderIs
<1>4. row \in Row /\ row.status = "PENDING"
  BY <1>3 DEF Row, Status
<1> HIDE DEF n, o, row
<1>5. /\ orders' \in Seq(Row) /\ Len(orders') = n + 1 /\ DOMAIN orders' = 1 .. n + 1
      /\ orders'[n + 1] = row /\ \A i \in 1 .. n : orders'[i] = orders[i]
      /\ asked' \in Seq(Requests) /\ Len(asked') = n + 1
      /\ asked'[n + 1] = r /\ \A i \in 1 .. n : asked'[i] = asked[i]
  <2>1. Len(asked) = n
    BY <1>1 DEF n
  <2>2. /\ Append(orders, row) \in Seq(Row) /\ Len(Append(orders, row)) = n + 1
        /\ DOMAIN Append(orders, row) = 1 .. n + 1
        /\ Append(orders, row)[n + 1] = row /\ \A i \in 1 .. n : Append(orders, row)[i] = orders[i]
    BY <1>1, <1>4, AppendProperties DEF n
  <2>3. /\ Append(asked, r) \in Seq(Requests) /\ Len(Append(asked, r)) = n + 1
        /\ Append(asked, r)[n + 1] = r /\ \A i \in 1 .. n : Append(asked, r)[i] = asked[i]
    BY <1>1, <2>1, AppendProperties
  <2> QED
    BY <1>2, <2>2, <2>3
<1>6. RowsInv'
  <2>1. ASSUME NEW i \in 1 .. n + 1
        PROVE  /\ orders'[i].order.id = i /\ IsAsked(orders'[i].order, asked'[i])
               /\ orders'[i].order.price = Stored(asked'[i].price)
               /\ Open(orders'[i]) => Remaining(orders'[i].order) > 0
    <3>1. CASE i = n + 1
      BY <1>3, <1>5, <3>1
    <3>2. CASE i \in 1 .. n
      <4>1. orders'[i] = orders[i] /\ asked'[i] = asked[i] /\ i \in DOMAIN orders
        BY <1>1, <1>5, <3>2
      <4> QED
        BY <4>1 DEF Core, RowsInv
    <3> QED
      BY <1>1, <3>1, <3>2
  <2> QED
    BY <1>5, <2>1 DEF RowsInv
<1>7. BookInv'
  <2>1. \A i \in DOMAIN orders : i \in DOMAIN orders' /\ orders'[i] = orders[i] /\ asked'[i] = asked[i]
    BY <1>1, <1>5
  <2> QED
    BY <1>2, <2>1, BookStays DEF Core
<1>8. ~Holds(book', n + 1)
  BY <1>1, HeldHasRow DEF Core
<1>9. RequestInv'
  <2>1. orders'[n + 1].status = "PENDING" /\ n + 1 \in DOMAIN orders'
    BY <1>1, <1>4, <1>5
  <2>2. pc' \in Location /\ crashes' \in Nat
    BY <1>2 DEF Core, RequestInv, Location
  <2>3. Remaining(o) >= 0
    BY <1>3 DEF Remaining, Order
  <2>4. CASE pc' = "idle"
    BY <2>2, <2>4 DEF RequestInv
  <2>5. CASE pc' = "match" /\ order' = o
    BY <1>3, <1>5, <1>8, <2>1, <2>2, <2>3, <2>5 DEF RequestInv
  <2> QED
    BY <1>2, <2>4, <2>5
<1> QED
  BY <1>6, <1>7, <1>9 DEF Core

LEMMA MatchKeepsCore ==
  ASSUME Core, Match
  PROVE  Core'
<1> DEFINE opposite == Opposite(order.type)
           left == Incoming(book[opposite], order)
<1>1. /\ order' = left /\ book' = AfterMatch(book, order) /\ pc' \in {"update", "settle"}
      /\ orders' = orders /\ asked' = asked /\ crashes' = crashes /\ pc = "match"
  BY DEF Match, history
<1>2. /\ order \in Order /\ order.id = Len(orders) /\ order.id \in DOMAIN orders
      /\ orders[order.id].status = "PENDING"
      /\ IsAsked(order, asked[order.id]) /\ order.price = asked[order.id].price
      /\ Remaining(order) >= 0 /\ ~Holds(book, order.id)
  BY <1>1 DEF Core, RequestInv
<1>3. /\ book \in Books /\ Ranked(book)
      /\ \A side \in Side : \A p \in Price : \A i \in DOMAIN book[side][p] :
           Stands(book[side][p][i], side, p) /\ Remaining(book[side][p][i]) > 0
  BY DEF Core, BookInv, Stands
<1>4. \A id : Holds(book, id) => id < order.id
  <2> SUFFICES ASSUME NEW id, Holds(book, id) PROVE id < order.id
    OBVIOUS
  <2>1. id \in 1 .. Len(orders) /\ Len(orders) \in Nat
    BY HeldHasRow, RowFields DEF Core
  <2>2. id # order.id
    BY <1>2
  <2> QED
    BY <1>2, <2>1, <2>2
<1>5. /\ left \in Order /\ SameOrder(left, order) /\ Remaining(left) >= 0
      /\ book' \in Books /\ Ranked(book')
      /\ \A side \in Side : \A p \in Price : \A k \in DOMAIN book'[side][p] :
           \/ /\ book'[side][p][k] = left /\ Remaining(left) > 0
              /\ side = order.type /\ p = order.price /\ order.mode = "LIMIT"
           \/ /\ Remaining(book'[side][p][k]) > 0
              /\ \E j \in DOMAIN book[side][p] :
                   book'[side][p][k] = FilledBy(book[side][p][j], Given(book, order, side, p, j))
  <2>1. OrderId \subseteq Nat
    BY OrderIdIsNat
  <2> QED
    BY <1>1, <1>2, <1>3, <1>4, <2>1, MatchedBook
<1> HIDE DEF left
<1>6. RowsInv'
  BY <1>1 DEF Core, RowsInv, Open
<1>7. ASSUME NEW side \in Side, NEW p \in Price, NEW k \in DOMAIN book'[side][p]
      PROVE  Stands(book[side][p][k], side, p)'
  <2>1. CASE /\ book'[side][p][k] = left /\ Remaining(left) > 0
             /\ side = order.type /\ p = order.price /\ order.mode = "LIMIT"
    <3>1. Open(orders[order.id])
      BY <1>2 DEF Open
    <3>2. Near(order.price, order.price) \/ order.mode # "LIMIT"
      BY <1>2, OrderFields, PriceIsNat, NearItself
    <3> QED
      BY <1>1, <1>2, <1>5, <2>1, <3>1, <3>2, ZenonT(60) DEF Stands, SameOrder, IsAsked
  <2>2. CASE /\ Remaining(book'[side][p][k]) > 0
             /\ \E j \in DOMAIN book[side][p] :
                  book'[side][p][k] = FilledBy(book[side][p][j], Given(book, order, side, p, j))
    <3>1. PICK j \in DOMAIN book[side][p] :
            book'[side][p][k] = FilledBy(book[side][p][j], Given(book, order, side, p, j))
      BY <2>2
    <3>2. book[side][p][j] \in Order /\ Stands(book[side][p][j], side, p)
      BY <1>3, BookFields
    <3>3. SameOrder(book'[side][p][k], book[side][p][j])
      BY <3>1, <3>2 DEF SameOrder, FilledBy, Order
    <3> QED
      BY <1>1, <2>2, <3>2, <3>3 DEF Stands, SameOrder, IsAsked
  <2> QED
    BY <1>5, <2>1, <2>2
<1>8. BookInv'
  BY <1>5, <1>7 DEF BookInv
<1>9. Holds(book', left.id) => ~IsFilled(left)
  <2> SUFFICES ASSUME NEW side \in Side, NEW p \in Price, NEW k \in DOMAIN book'[side][p],
                      book'[side][p][k].id = left.id
               PROVE  ~IsFilled(left)
    BY DEF Holds
  <2>1. CASE Remaining(left) > 0
    BY <1>5, <2>1, FilledByKeeps
  <2>2. ASSUME NEW j \in DOMAIN book[side][p],
               book'[side][p][k] = FilledBy(book[side][p][j], Given(book, order, side, p, j))
        PROVE  FALSE
    <3>1. book[side][p][j].id = order.id
      BY <1>5, <2>2 DEF SameOrder, FilledBy
    <3> QED
      BY <1>2, <3>1 DEF Holds
  <2> QED
    BY <1>5, <2>1, <2>2
<1>10. RequestInv'
  BY <1>1, <1>2, <1>5, <1>9 DEF Core, RequestInv, Location, SameOrder, IsAsked
<1> QED
  BY <1>6, <1>8, <1>10 DEF Core

(* Neither the table nor the book changes, and the request goes on or      *)
(* ends.                                                                   *)
LEMMA SameBookKeepsCore ==
  ASSUME Core, orders' = orders, asked' = asked, book' = book, crashes' = crashes,
         \/ pc' = "idle"
         \/ pc = "settle" /\ pc' = "update" /\ order' = order
         \/ pc' = pc /\ order' = order /\ target' = target
  PROVE  Core'
<1>1. RowsInv'
  BY DEF Core, RowsInv, Open
<1>2. BookInv'
  BY BookStays DEF Core, Open
<1>3. pc' \in Location /\ crashes' \in Nat
  BY DEF Core, RequestInv, Location
<1>4. RequestInv'
  <2>1. CASE pc' = "idle"
    BY <1>3, <2>1 DEF RequestInv
  <2>2. CASE pc = "settle" /\ pc' = "update" /\ order' = order
    BY <1>3, <2>2 DEF Core, RequestInv
  <2>3. CASE pc' = pc /\ order' = order /\ target' = target
    BY <1>3, <2>3 DEF Core, RequestInv
  <2> QED
    BY <2>1, <2>2, <2>3
<1> QED
  BY <1>1, <1>2, <1>4 DEF Core

(* update_order_status writes one row.                                     *)
LEMMA UpdatedRow ==
  ASSUME Core, UpdateStatus
  PROVE  /\ order.id \in DOMAIN orders /\ orders' \in Seq(Row) /\ DOMAIN orders' = DOMAIN orders
         /\ Len(orders') = Len(orders)
         /\ \A i \in DOMAIN orders : i # order.id => orders'[i] = orders[i]
         /\ orders'[order.id].status = StatusOf(order)
         /\ orders'[order.id].order = [orders[order.id].order EXCEPT !.filled = order.filled]
<1> DEFINE id == order.id
           row == orders[id]
           new == [row EXCEPT !.status = StatusOf(order), !.order.filled = order.filled]
<1>1. order \in Order /\ id \in DOMAIN orders
  BY DEF UpdateStatus, Core, RequestInv
<1>2. orders \in Seq(Row) /\ Len(orders) \in Nat /\ DOMAIN orders = 1 .. Len(orders)
      /\ orders = [i \in 1 .. Len(orders) |-> orders[i]]
  <2>1. orders \in Seq(Row)
    BY DEF Core, RowsInv
  <2> QED
    BY <2>1, LenProperties
<1>3. orders' = [orders EXCEPT ![id] = new]
  <2>1. orders' = [orders EXCEPT ![id].status = StatusOf(order), ![id].order.filled = order.filled]
    BY DEF UpdateStatus
  <2> QED
    BY <1>1, <1>2, <2>1
<1>4. row \in Row
  BY <1>1, <1>2, ElementOfSeq
<1>5. /\ new \in Row /\ new.status = StatusOf(order)
      /\ new.order = [row.order EXCEPT !.filled = order.filled]
  BY <1>1, <1>4 DEF Row, StatusOf, Status, Order
<1> HIDE DEF new, id
<1>6. orders' \in Seq(Row) /\ Len(orders') = Len(orders)
  BY <1>1, <1>2, <1>3, <1>5, ExceptSeq
<1> QED
  BY <1>1, <1>2, <1>3, <1>5, <1>6 DEF id

LEMMA UpdateKeepsCore ==
  ASSUME Core, UpdateStatus
  PROVE  Core'
<1> DEFINE id == order.id
<1>1. /\ id \in DOMAIN orders /\ orders' \in Seq(Row) /\ DOMAIN orders' = DOMAIN orders
      /\ Len(orders') = Len(orders)
      /\ \A i \in DOMAIN orders : i # id => orders'[i] = orders[i]
      /\ orders'[id].status = StatusOf(order)
      /\ orders'[id].order = [orders[id].order EXCEPT !.filled = order.filled]
  BY UpdatedRow
<1>2. /\ asked' = asked /\ book' = book /\ crashes' = crashes /\ pc' = "idle" /\ pc = "update"
  BY DEF UpdateStatus, EndRequest, history
<1>3. /\ order \in Order /\ IsAsked(order, asked[id])
      /\ Holds(book, id) => ~IsFilled(order)
  BY <1>2 DEF Core, RequestInv
<1>4. orders[id].order \in Order /\ IsAsked(orders[id].order, asked[id])
      /\ orders[id].order.id = id /\ orders[id].order.price = Stored(asked[id].price)
  BY <1>1, RowFields DEF Core, RowsInv
<1>5. Open(orders'[id]) <=> ~IsFilled(order)
  BY <1>1 DEF Open, StatusOf
<1>6. /\ orders'[id].order.id = id /\ IsAsked(orders'[id].order, asked[id])
      /\ orders'[id].order.price = Stored(asked[id].price)
      /\ Open(orders'[id]) => Remaining(orders'[id].order) > 0
  <2>1. /\ orders'[id].order.id = id /\ IsAsked(orders'[id].order, asked[id])
        /\ orders'[id].order.price = Stored(asked[id].price)
        /\ Remaining(orders'[id].order) = Remaining(order)
    BY <1>1, <1>3, <1>4 DEF Order, IsAsked, Remaining
  <2>2. ~IsFilled(order) => Remaining(order) > 0
    BY <1>3, FilledByKeeps
  <2> QED
    BY <1>5, <2>1, <2>2
<1> HIDE DEF id
<1>7. RowsInv'
  <2>1. ASSUME NEW i \in DOMAIN orders'
        PROVE  /\ orders'[i].order.id = i /\ IsAsked(orders'[i].order, asked'[i])
               /\ orders'[i].order.price = Stored(asked'[i].price)
               /\ Open(orders'[i]) => Remaining(orders'[i].order) > 0
    <3>1. CASE i = id
      BY <1>2, <1>6, <3>1
    <3>2. CASE i # id
      BY <1>1, <1>2, <3>2 DEF Core, RowsInv
    <3> QED
      BY <3>1, <3>2
  <2>2. asked' \in Seq(Requests) /\ Len(asked') = Len(orders')
    BY <1>1, <1>2 DEF Core, RowsInv
  <2> QED
    BY <1>1, <2>1, <2>2 DEF RowsInv
<1>8. BookInv'
  <2>1. \A i \in DOMAIN orders : Holds(book, i) /\ Open(orders[i]) =>
          i \in DOMAIN orders' /\ Open(orders'[i]) /\ asked'[i] = asked[i]
    BY <1>1, <1>2, <1>3, <1>5 DEF Open, id
  <2> QED
    BY <1>2, <2>1, BookStays DEF Core
<1>9. RequestInv'
  BY <1>2 DEF Core, RequestInv, Location
<1> QED
  BY <1>7, <1>8, <1>9 DEF Core

LEMMA CancelKeepsCore ==
  ASSUME Core, NEW id \in OrderId, Cancel(id)
  PROVE  Core'
<1>1. /\ id \in DOMAIN orders /\ book' = Without(book, id) /\ target' = id /\ pc' = "mark_cancelled"
      /\ orders' = orders /\ asked' = asked /\ crashes' = crashes
  BY DEF Cancel, history
<1>2. RowsInv'
  BY <1>1 DEF Core, RowsInv, Open
<1>3. book \in Books /\ Ranked(book)
  BY DEF Core, BookInv
<1>4. /\ book' \in Books
      /\ \A side \in Side : \A p \in Price :
           /\ Thinned(book'[side][p], book[side][p])
           /\ \A k \in DOMAIN book'[side][p] :
                /\ book'[side][p][k].id # id
                /\ \E j \in DOMAIN book[side][p] : book'[side][p][k] = book[side][p][j]
  BY <1>1, <1>3, WithoutOne
<1>5. Ranked(book')
  BY <1>3, <1>4, ThinnedIsRanked
<1>6. ASSUME NEW side \in Side, NEW p \in Price, NEW k \in DOMAIN book'[side][p]
      PROVE  Stands(book[side][p][k], side, p)'
  <2>1. PICK j \in DOMAIN book[side][p] : book'[side][p][k] = book[side][p][j]
    BY <1>4
  <2>2. Stands(book[side][p][j], side, p)
    BY DEF Core, BookInv
  <2> QED
    BY <1>1, <2>1, <2>2 DEF Stands
<1>7. BookInv'
  BY <1>4, <1>5, <1>6 DEF BookInv
<1>8. ~Holds(book', id)
  BY <1>4 DEF Holds
<1>9. RequestInv'
  BY <1>1, <1>8 DEF Core, RequestInv, Location
<1> QED
  BY <1>2, <1>7, <1>9 DEF Core

(* cancel_order writes one row.                                            *)
LEMMA MarkedRow ==
  ASSUME Core, MarkCancelled
  PROVE  /\ target \in DOMAIN orders /\ orders' \in Seq(Row) /\ DOMAIN orders' = DOMAIN orders
         /\ Len(orders') = Len(orders)
         /\ \A i \in DOMAIN orders : i # target => orders'[i] = orders[i]
         /\ orders'[target].status = "CANCELLED" /\ orders'[target].order = orders[target].order
<1> DEFINE new == [orders[target] EXCEPT !.status = "CANCELLED"]
<1>1. target \in DOMAIN orders /\ orders' = [orders EXCEPT ![target] = new]
  BY DEF MarkCancelled, Core, RequestInv
<1>2. orders \in Seq(Row) /\ Len(orders) \in Nat /\ DOMAIN orders = 1 .. Len(orders)
  <2>1. orders \in Seq(Row)
    BY DEF Core, RowsInv
  <2> QED
    BY <2>1, LenProperties
<1>3. orders[target] \in Row
  BY <1>1, <1>2, ElementOfSeq
<1>4. new \in Row /\ new.status = "CANCELLED" /\ new.order = orders[target].order
  BY <1>3 DEF Row, Status
<1> HIDE DEF new
<1>5. orders' \in Seq(Row) /\ Len(orders') = Len(orders)
  BY <1>1, <1>2, <1>4, ExceptSeq
<1> QED
  BY <1>1, <1>2, <1>4, <1>5

LEMMA MarkKeepsCore ==
  ASSUME Core, MarkCancelled
  PROVE  Core'
<1>1. /\ target \in DOMAIN orders /\ orders' \in Seq(Row) /\ DOMAIN orders' = DOMAIN orders
      /\ Len(orders') = Len(orders)
      /\ \A i \in DOMAIN orders : i # target => orders'[i] = orders[i]
      /\ orders'[target].status = "CANCELLED" /\ orders'[target].order = orders[target].order
  BY MarkedRow
<1>2. asked' = asked /\ book' = book /\ crashes' = crashes /\ pc' = "idle" /\ ~Holds(book, target)
  BY DEF MarkCancelled, EndRequest, Core, RequestInv
<1>3. RowsInv'
  <2>1. ASSUME NEW i \in DOMAIN orders'
        PROVE  /\ orders'[i].order.id = i /\ IsAsked(orders'[i].order, asked'[i])
               /\ orders'[i].order.price = Stored(asked'[i].price)
               /\ Open(orders'[i]) => Remaining(orders'[i].order) > 0
    <3>1. Open(orders'[i]) => Open(orders[i])
      BY <1>1 DEF Open
    <3>2. orders'[i].order = orders[i].order
      BY <1>1
    <3> QED
      BY <1>1, <1>2, <3>1, <3>2 DEF Core, RowsInv
  <2>2. asked' \in Seq(Requests) /\ Len(asked') = Len(orders')
    BY <1>1, <1>2 DEF Core, RowsInv
  <2> QED
    BY <1>1, <2>1, <2>2 DEF RowsInv
<1>4. BookInv'
  <2>1. \A i \in DOMAIN orders : Holds(book, i) /\ Open(orders[i]) =>
          i \in DOMAIN orders' /\ Open(orders'[i]) /\ asked'[i] = asked[i]
    BY <1>1, <1>2 DEF Open
  <2> QED
    BY <1>2, <2>1, BookStays DEF Core
<1>5. RequestInv'
  BY <1>2 DEF Core, RequestInv, Location
<1> QED
  BY <1>3, <1>4, <1>5 DEF Core

LEMMA CrashKeepsCore ==
  ASSUME Core, Crash
  PROVE  Core'
<1>1. /\ book' = EmptyQueues /\ pc' = "down" /\ crashes' = crashes + 1
      /\ orders' = orders /\ asked' = asked
  BY DEF Crash
<1>2. RowsInv'
  BY <1>1 DEF Core, RowsInv, Open
<1>3. EmptyQueues \in Books /\ \A side \in Side : \A p \in Price : DOMAIN EmptyQueues[side][p] = {}
  BY DEF EmptyQueues, Books, Queues
<1>4. BookInv'
  BY <1>1, <1>3 DEF BookInv, Ranked
<1>5. crashes \in Nat
  BY DEF Core, RequestInv
<1>6. RequestInv'
  BY <1>1, <1>5 DEF RequestInv, Location
<1> QED
  BY <1>2, <1>4, <1>6 DEF Core

LEMMA RestartKeepsCore ==
  ASSUME Core, Restart
  PROVE  Core'
<1>1. /\ book' = Loaded /\ pc' = "idle" /\ crashes' = crashes /\ orders' = orders /\ asked' = asked
      /\ pc = "down"
  BY DEF Restart, history
<1>2. RowsInv'
  BY <1>1 DEF Core, RowsInv, Open
<1>3. orders \in Seq(Row) /\ DOMAIN orders \subseteq Nat
  <2>1. orders \in Seq(Row)
    BY DEF Core, RowsInv
  <2> QED
    BY <2>1, LenProperties
<1>4. Loaded \in Books
  BY <1>3, LoadedIsABook
<1>5. crashes # 0
  BY <1>1 DEF Core, RequestInv
<1>6. ASSUME NEW side \in Side, NEW p \in Price
      PROVE  /\ \A k \in DOMAIN Loaded[side][p] : Stands(Loaded[side][p][k], side, p)
             /\ \A i, j \in DOMAIN Loaded[side][p] : i < j => Loaded[side][p][i].id < Loaded[side][p][j].id
  <2> DEFINE q == Loaded[side][p]
  <2>1. PICK place :
          /\ KeepsOrder(place, q, orders)
          /\ \A k \in DOMAIN q :
               /\ q[k] = orders[place[k]].order /\ Open(orders[place[k]])
               /\ q[k].mode = "LIMIT" /\ q[k].type = side /\ q[k].price = p
    BY <1>3, LoadedRows
  <2> HIDE DEF q
  <2>2. ASSUME NEW k \in DOMAIN q
        PROVE  /\ place[k] \in DOMAIN orders /\ q[k].id = place[k]
               /\ Remaining(q[k]) > 0 /\ IsAsked(q[k], asked[place[k]]) /\ p = Stored(asked[place[k]].price)
               /\ asked[place[k]] \in Requests
    <3>1. place[k] \in DOMAIN orders
      BY <2>1 DEF KeepsOrder
    <3> QED
      BY <2>1, <3>1, RowFields DEF Core, RowsInv
  <2>3. ASSUME NEW k \in DOMAIN q PROVE Stands(q[k], side, p)
    <3>1. asked[place[k]].price \in Nat
      BY <2>2, StoredIsPrice, PriceIsNat
    <3>2. Near(asked[place[k]].price, p)
      BY <2>2, <3>1, StoredIsNear
    <3> QED
      BY <1>5, <2>1, <2>2, <3>2 DEF Stands, WholeCents
  <2>4. \A i, j \in DOMAIN q : i < j => q[i].id < q[j].id
    BY <2>1, <2>2 DEF KeepsOrder
  <2> QED
    BY <2>3, <2>4 DEF q
<1>7. Ranked(Loaded)
  <2> SUFFICES ASSUME NEW side1 \in Side, NEW side2 \in Side, NEW p1 \in Price, NEW p2 \in Price,
                      NEW i \in DOMAIN Loaded[side1][p1], NEW j \in DOMAIN Loaded[side2][p2],
                      Loaded[side1][p1][i].id = Loaded[side2][p2][j].id
               PROVE  side1 = side2 /\ p1 = p2
    BY <1>6 DEF Ranked
  <2>1. PICK a \in DOMAIN orders : orders[a].order = Loaded[side1][p1][i]
    <3>1. PICK place : /\ KeepsOrder(place, Loaded[side1][p1], orders)
                       /\ \A k \in DOMAIN Loaded[side1][p1] : Loaded[side1][p1][k] = orders[place[k]].order
      BY <1>3, LoadedRows
    <3> QED
      BY <3>1 DEF KeepsOrder
  <2>2. PICK b \in DOMAIN orders : orders[b].order = Loaded[side2][p2][j]
    <3>1. PICK place : /\ KeepsOrder(place, Loaded[side2][p2], orders)
                       /\ \A k \in DOMAIN Loaded[side2][p2] : Loaded[side2][p2][k] = orders[place[k]].order
      BY <1>3, LoadedRows
    <3> QED
      BY <3>1 DEF KeepsOrder
  <2>3. a = b
    BY <2>1, <2>2 DEF Core, RowsInv
  <2>4. Stands(Loaded[side1][p1][i], side1, p1) /\ Stands(Loaded[side2][p2][j], side2, p2)
    BY <1>6
  <2> QED
    BY <2>1, <2>2, <2>3, <2>4 DEF Stands
<1>8. BookInv'
  <2>1. ASSUME NEW side \in Side, NEW p \in Price, NEW k \in DOMAIN book'[side][p]
        PROVE  Stands(book[side][p][k], side, p)'
    <3>1. k \in DOMAIN Loaded[side][p] /\ book'[side][p][k] = Loaded[side][p][k]
      BY <1>1
    <3>2. Stands(Loaded[side][p][k], side, p)
      BY <1>6, <3>1
    <3> QED
      BY <1>1, <3>1, <3>2 DEF Stands
  <2> QED
    BY <1>1, <1>4, <1>7, <2>1 DEF BookInv
<1>9. RequestInv'
  BY <1>1 DEF Core, RequestInv, Location
<1> QED
  BY <1>2, <1>8, <1>9 DEF Core

LEMMA NextCore ==
  ASSUME Core, [Next]_vars
  PROVE  Core'
<1>0. ASSUME NEW u \in User, NEW r \in Requests, PlacedInDoubt(u, r) PROVE Core'
  <2>1. Insert(u, r) /\ book' = book /\ crashes' = crashes /\ pc' = "idle"
    BY <1>0 DEF PlacedInDoubt, Insert, memory
  <2> QED
    BY <2>1, InsertKeepsCore
<1>1. ASSUME NEW u \in User, NEW r \in Requests, Place(u, r) PROVE Core'
  BY <1>1, InsertKeepsCore DEF Place
<1>2. CASE Match
  BY <1>2, MatchKeepsCore
<1>3. CASE Settle
  BY <1>3, SameBookKeepsCore DEF Settle, history
<1>4. CASE SettleRefused
  BY <1>4, SameBookKeepsCore DEF SettleRefused, EndRequest, history
<1>5. CASE UpdateStatus
  BY <1>5, UpdateKeepsCore
<1>6. ASSUME NEW id \in OrderId, Cancel(id) PROVE Core'
  BY <1>6, CancelKeepsCore
<1>7. CASE MarkCancelled
  BY <1>7, MarkKeepsCore
<1>8. CASE TransactionFails
  BY <1>8, SameBookKeepsCore DEF TransactionFails, EndRequest
<1>9. CASE SettledInDoubt
  BY <1>9, SameBookKeepsCore DEF SettledInDoubt, EndRequest
<1>10. CASE Crash
  BY <1>10, CrashKeepsCore
<1>11. CASE Restart
  BY <1>11, RestartKeepsCore
<1>12. CASE RestartUnloaded
  BY <1>12, SameBookKeepsCore DEF RestartUnloaded
<1>13. CASE UNCHANGED vars
  BY <1>13, SameBookKeepsCore DEF vars, memory, history
<1> QED
  BY <1>0, <1>1, <1>2, <1>3, <1>4, <1>5, <1>6, <1>7, <1>8, <1>9, <1>10, <1>11, <1>12, <1>13 DEF Next

(* In every state the book, the table and the request in progress fit      *)
(* together.                                                               *)
THEOREM CoreHolds == Spec => []Core
<1>1. Init => Core
  BY InitCore
<1>2. Core /\ [Next]_vars => Core'
  BY NextCore
<1> QED
  BY <1>1, <1>2, PTL DEF Spec

(* First come, first served: the orders at a price stand in the order they *)
(* were accepted in, after whatever matches, cancellations and restarts.   *)
THEOREM FirstComeFirstServed == Spec => []TimePriority
<1>1. Core => TimePriority
  BY DEF Core, BookInv, Ranked, TimePriority
<1> QED
  BY <1>1, CoreHolds, PTL

(* What the table has closed is in no book: no match, and no restart, puts *)
(* an order back that was filled or cancelled.                             *)
THEOREM ClosedOrdersAreGone == Spec => []ClosedOrdersDoNotRest
<1>1. Core => ClosedOrdersDoNotRest
  <2> SUFFICES ASSUME Core, NEW o \in Resting(book) PROVE Open(orders[o.id])
    BY DEF ClosedOrdersDoNotRest
  <2>1. book \in Books
    BY DEF Core, BookInv
  <2>2. PICK side \in Side : \E p \in Price : \E i \in DOMAIN book[side][p] : book[side][p][i] = o
    BY <2>1, RestsIsHolds
  <2> QED
    BY <2>2 DEF Core, BookInv, Stands
<1> QED
  BY <1>1, CoreHolds, PTL

-----------------------------------------------------------------------------
(* The trades of an order                                                  *)

(* A row of the trades table.                                              *)
Billing ==
  [buyer : User, seller : User, buy : OrderId, sell : OrderId, price : Price, quantity : Nat]

Quantity == [tr \in Billing |-> tr.quantity]

Between(id) == {tr \in Billing : id \in {tr.buy, tr.sell}}

(* The quantity that trades ts give to or take from order id.              *)
QuantityOf(id, ts) == SumOf(Quantity, Among(ts, Between(id)))

LEMMA BillingFields ==
  ASSUME NEW tr \in Billing
  PROVE  /\ tr.buyer \in User /\ tr.seller \in User /\ tr.buy \in OrderId /\ tr.sell \in OrderId
         /\ tr.price \in Price /\ tr.price \in Nat /\ tr.quantity \in Nat
         /\ Quantity[tr] = tr.quantity
         /\ \A id : tr \in Between(id) <=> id \in {tr.buy, tr.sell}
BY PriceIsNat DEF Billing, Quantity, Between

LEMMA QuantityIsInt == Quantity \in [Billing -> Int]
BY DEF Quantity, Billing

LEMMA QuantityOfConcat ==
  ASSUME NEW id, NEW ts \in Seq(Billing), NEW more \in Seq(Billing)
  PROVE  /\ QuantityOf(id, ts) \in Int /\ QuantityOf(id, more) \in Int
         /\ QuantityOf(id, ts \o more) = QuantityOf(id, ts) + QuantityOf(id, more)
<1> DEFINE a == Among(ts, Between(id))
           b == Among(more, Between(id))
<1>1. /\ a \in Seq(Billing) /\ b \in Seq(Billing)
      /\ Among(ts \o more, Between(id)) = a \o b
  BY AmongConcat, ZenonT(60)
<1>2. Quantity \in [Billing -> Int]
  BY QuantityIsInt
<1> HIDE DEF a, b
<1>3. /\ SumOf(Quantity, a) \in Int /\ SumOf(Quantity, b) \in Int
      /\ SumOf(Quantity, a \o b) = SumOf(Quantity, a) + SumOf(Quantity, b)
  BY <1>1, <1>2, SumOfConcat
<1> QED
  BY <1>1, <1>3 DEF QuantityOf, a, b

LEMMA QuantityOfNone ==
  ASSUME NEW id, NEW ts \in Seq(Billing), \A k \in DOMAIN ts : ts[k].buy # id /\ ts[k].sell # id
  PROVE  QuantityOf(id, ts) = 0
<1>1. \A k \in DOMAIN ts : ts[k] \notin Between(id)
  BY DEF Between
<1>2. Among(ts, Between(id)) = <<>>
  BY <1>1, AmongNoMatch
<1> QED
  BY <1>2, SumOfNone DEF QuantityOf

LEMMA QuantityOfOne ==
  ASSUME NEW id, NEW ts \in Seq(Billing), NEW k \in DOMAIN ts,
         \A i \in DOMAIN ts : id \in {ts[i].buy, ts[i].sell} <=> i = k
  PROVE  QuantityOf(id, ts) = ts[k].quantity
<1>1. \A i \in DOMAIN ts : ts[i] \in Billing
  BY ElementOfSeq, LenProperties
<1>2. \A i \in DOMAIN ts : ts[i] \in Between(id) <=> i = k
  BY <1>1, BillingFields
<1>3. Among(ts, Between(id)) = <<ts[k]>>
  BY <1>2, AmongOne
<1>4. Quantity \in [Billing -> Int] /\ Quantity[ts[k]] = ts[k].quantity /\ Quantity[ts[k]] \in Int
  BY <1>1, QuantityIsInt, BillingFields
<1>5. SumOf(Quantity, <<ts[k]>>) = Quantity[ts[k]]
  <2>1. <<>> \in Seq(Billing) /\ <<ts[k]>> = Append(<<>>, ts[k]) /\ ts[k] \in Billing
    BY <1>1, EmptySeq
  <2>2. SumOf(Quantity, Append(<<>>, ts[k])) = SumOf(Quantity, <<>>) + Quantity[ts[k]]
    <3> DEFINE x == ts[k]
    <3>1. x \in Billing /\ <<>> \in Seq(Billing) /\ Quantity \in [Billing -> Int]
      BY <1>4, <2>1
    <3> HIDE DEF x
    <3>2. SumOf(Quantity, Append(<<>>, x)) = SumOf(Quantity, <<>>) + Quantity[x]
      BY ONLY <3>1, SumOfAppend
    <3> QED
      BY <3>2 DEF x
  <2>3. SumOf(Quantity, <<>>) = 0
    BY SumOfNone
  <2> QED
    BY <1>4, <2>1, <2>2, <2>3
<1> QED
  BY <1>3, <1>4, <1>5 DEF QuantityOf

(* Settled, of any trades.                                                 *)
SettledIn(id, ts) ==
  LET quantity(tr) == tr.quantity
  IN  SumOver(Where(ts, LAMBDA tr : id \in {tr.buy, tr.sell}), quantity)

LEMMA SettledIs ==
  ASSUME NEW ts \in Seq(Billing), NEW id
  PROVE  SettledIn(id, ts) = QuantityOf(id, ts)
<1> DEFINE I == {i \in DOMAIN ts : id \in {ts[i].buy, ts[i].sell}}
           J == {i \in DOMAIN ts : ts[i] \in Between(id)}
           found == RowsAt(ts, I)
<1>1. I = J
  <2>1. \A i \in DOMAIN ts : ts[i] \in Billing
    BY ElementOfSeq, LenProperties
  <2> QED
    BY <2>1, BillingFields
<1>2. Among(ts, Between(id)) = found
  BY <1>1 DEF Among
<1>3. found \in Seq(Billing)
  BY RowsAtIsSeq
<1>4. SettledIn(id, ts) = Total([k \in DOMAIN found |-> found[k].quantity])
  BY DEF SettledIn, SumOver, Where
<1> HIDE DEF found
<1>5. [k \in DOMAIN found |-> found[k].quantity] = [k \in DOMAIN found |-> Quantity[found[k]]]
  <2>1. \A k \in DOMAIN found : found[k] \in Billing
    BY <1>3, ElementOfSeq, LenProperties
  <2> QED
    BY <2>1, BillingFields
<1> QED
  BY <1>2, <1>4, <1>5 DEF QuantityOf, SumOf

-----------------------------------------------------------------------------
(* The invariant of the trades                                             *)

(* Beyond the limits of its orders by half the slack, at the most.         *)
WithinLimits(tr, slack) ==
  /\ asked[tr.buy].mode = "LIMIT" => 2 * (tr.price - asked[tr.buy].price) <= slack
  /\ asked[tr.sell].mode = "LIMIT" => 2 * (asked[tr.sell].price - tr.price) <= slack

(* A trade is between two orders of the table, a buy and a sell, within    *)
(* the limits of both, or half a cent of them once limits may have been    *)
(* rounded.                                                                *)
IsFair(tr) ==
  /\ tr.buy \in DOMAIN orders /\ tr.sell \in DOMAIN orders
  /\ asked[tr.buy].type = "BUY" /\ asked[tr.sell].type = "SELL"
  /\ WithinLimits(tr, Cent)
  /\ crashes = 0 \/ WholeCents => WithinLimits(tr, 0)

Involves(tr, id) == id \in {tr.buy, tr.sell}

(* No trade in the table involves an order that has none settled yet; the  *)
(* trades that wait to be settled are all of the order being placed, and   *)
(* of no cancelled one.                                                    *)
TradesInv ==
  /\ ledger.trades \in Seq(Billing)
  /\ \A k \in DOMAIN ledger.trades : IsFair(ledger.trades[k])
  /\ pc \in {"match", "settle"} =>
       \A k \in DOMAIN ledger.trades : ~Involves(ledger.trades[k], order.id)
  /\ pc = "settle" =>
       /\ trades \in Seq(Trade)
       /\ \A k \in DOMAIN trades :
            /\ IsFair(trades[k]) /\ Involves(trades[k], order.id)
            /\ \A id \in cancelled : ~Involves(trades[k], id)
  /\ cancelled \subseteq DOMAIN orders
  /\ \A id \in cancelled : orders[id].status = "CANCELLED"

LEMMA InitTrades == Init => TradesInv
<1> SUFFICES ASSUME Init PROVE TradesInv
  OBVIOUS
<1>1. ledger.trades = <<>> /\ pc = "idle" /\ cancelled = {}
  BY OpeningLedgerAssumption DEF Init
<1>2. <<>> \in Seq(Billing) /\ DOMAIN <<>> = {}
  BY EmptySeq
<1> QED
  BY <1>1, <1>2 DEF TradesInv

(* Batch, of any trades.                                                   *)
BilledOf(ts) == [k \in DOMAIN ts |-> Billed(ts[k])]

LEMMA BilledIs ==
  ASSUME Core, NEW ts \in Seq(Trade), \A k \in DOMAIN ts : IsFair(ts[k])
  PROVE  /\ BilledOf(ts) \in Seq(Billing) /\ DOMAIN BilledOf(ts) = DOMAIN ts
         /\ \A k \in DOMAIN ts :
              /\ ts[k] \in Trade
              /\ BilledOf(ts)[k].buy = ts[k].buy /\ BilledOf(ts)[k].sell = ts[k].sell
              /\ BilledOf(ts)[k].price = ts[k].price /\ BilledOf(ts)[k].quantity = ts[k].quantity
<1>1. DOMAIN ts = 1 .. Len(ts) /\ Len(ts) \in Nat
  BY LenProperties
<1>2. ASSUME NEW k \in DOMAIN ts
      PROVE  ts[k] \in Trade /\ Billed(ts[k]) \in Billing
  <2>1. ts[k] \in Trade /\ ts[k].buy \in DOMAIN orders /\ ts[k].sell \in DOMAIN orders
    BY <1>1, ElementOfSeq DEF IsFair
  <2>2. orders[ts[k].buy].user \in User /\ orders[ts[k].sell].user \in User
    BY <2>1, RowFields DEF Core, Row
  <2> QED
    BY <2>1, <2>2 DEF Billed, Billing, Trade
<1>3. BilledOf(ts) = [k \in 1 .. Len(ts) |-> Billed(ts[k])]
  BY <1>1 DEF BilledOf
<1>4. BilledOf(ts) \in Seq(Billing)
  BY <1>1, <1>2, <1>3
<1> QED
  BY <1>1, <1>2, <1>3, <1>4 DEF Billed

LEMMA BatchIs ==
  ASSUME Core, TradesInv, pc = "settle"
  PROVE  /\ Batch \in Seq(Billing) /\ DOMAIN Batch = DOMAIN trades
         /\ \A k \in DOMAIN trades :
              /\ trades[k] \in Trade
              /\ Batch[k].buy = trades[k].buy /\ Batch[k].sell = trades[k].sell
              /\ Batch[k].price = trades[k].price /\ Batch[k].quantity = trades[k].quantity
<1>1. Batch = BilledOf(trades)
  BY DEF Batch, BilledOf
<1>2. trades \in Seq(Trade) /\ \A k \in DOMAIN trades : IsFair(trades[k])
  BY DEF TradesInv
<1> QED
  BY <1>1, <1>2, BilledIs

LEMMA SettledTrades == \A l, ts : AfterTrades(l, ts).trades = l.trades \o ts
BY DEF AfterTrades

(* The trades of a match are fair, all of them of the order that came, and *)
(* of no other than the orders that rest.                                  *)
LEMMA MatchIsFair ==
  ASSUME Core, pc = "match"
  PROVE  LET made == Executions(book[Opposite(order.type)], order)
         IN  /\ made \in Seq(Trade)
             /\ \A k \in DOMAIN made :
                  /\ IsFair(made[k]) /\ Involves(made[k], order.id)
                  /\ \A id : Involves(made[k], id) => id = order.id \/ Holds(book, id)
<1> DEFINE opposite == Opposite(order.type)
           queues == book[opposite]
           made == Executions(queues, order)
           turn == Turns(queues, order)
           n == CardinalityOfMatched(queues, order)
<1>1. order \in Order /\ IsAsked(order, asked[order.id]) /\ order.price = asked[order.id].price
      /\ order.id \in DOMAIN orders
  BY DEF Core, RequestInv
<1>2. book \in Books
  BY DEF Core, BookInv
<1>3. opposite \in Side /\ order.type \in Side /\ opposite = Opposite(order.type) /\ queues \in Queues
  <2>1. order.type \in Side
    BY <1>1, OrderFields
  <2>2. opposite \in Side
    BY <2>1 DEF Opposite, Side
  <2> QED
    BY <1>2, <2>1, <2>2 DEF Books
<1> HIDE DEF opposite
<1>4. OpenSide(queues)
  <2>1. \A pos \in RestingAt(queues) : Remaining(At(queues, pos)) > 0
    BY <1>3, PositionsOfSide DEF At, Core, BookInv, Stands
  <2> QED
    BY <2>1 DEF OpenSide
<1>5. /\ n \in Nat /\ turn \in [1 .. n -> Matched(queues, order)]
      /\ made \in Seq(Trade) /\ Len(made) = n
      /\ \A k \in 1 .. n : made[k] = TradeAt(queues, order, turn[k])
  BY <1>1, <1>3, <1>4, TurnsAreASorting, ExecutionsAre
<1> HIDE DEF made, turn, n, queues
<1>6. DOMAIN made = 1 .. n
  BY <1>5, LenProperties
<1>7. ASSUME NEW pos \in Matched(queues, order)
      PROVE  LET tr == TradeAt(queues, order, pos)
             IN  /\ IsFair(tr) /\ Involves(tr, order.id)
                 /\ \A id : Involves(tr, id) => id = order.id \/ Holds(book, id)
  <2> DEFINE tr == TradeAt(queues, order, pos)
             o == At(queues, pos)
             p == pos[1]
  <2>1. pos \in RestingAt(queues) /\ Crosses(order, p)
    BY DEF Matched, Eligible
  <2>2. p \in Price /\ pos[2] \in DOMAIN queues[p] /\ o = book[opposite][p][pos[2]]
    BY <1>3, <2>1, PositionsOfSide DEF At, queues
  <2>3. Stands(o, opposite, p) /\ Holds(book, o.id)
    BY <1>3, <2>2 DEF Core, BookInv, Holds, queues
  <2>4. tr = CreateTrade(order, o, Fill(queues, order, pos), p)
    BY DEF TradeAt
  <2> HIDE DEF tr, o, p
  <2>5. /\ tr.price = p
        /\ \/ order.type = "BUY" /\ opposite = "SELL" /\ tr.buy = order.id /\ tr.sell = o.id
           \/ order.type = "SELL" /\ opposite = "BUY" /\ tr.buy = o.id /\ tr.sell = order.id
    BY <1>3, <2>4 DEF CreateTrade, Opposite, Side
  <2>6. p \in Nat /\ order.mode \in Mode /\ order.price \in Nat
    BY <1>1, <2>2, PriceIsNat, OrderFields
  <2>7. /\ order.mode = "LIMIT" /\ order.type = "BUY" => p <= order.price
        /\ order.mode = "LIMIT" /\ order.type = "SELL" => p >= order.price
    BY <2>1, <2>6 DEF Crosses, Mode
  <2>8. crashes = 0 \/ WholeCents => asked[o.id].price = p
    BY <2>3 DEF Stands
  <2>9. /\ o.id \in DOMAIN orders
        /\ asked[o.id].type = opposite /\ asked[order.id].type = order.type
        /\ Near(asked[o.id].price, p)
    BY <1>1, <2>3 DEF Stands, IsAsked
  <2>10. IsFair(tr)
    <3>1. asked[order.id].mode = order.mode /\ asked[order.id].price = order.price
      BY <1>1 DEF IsAsked
    <3>2. Cent \in Nat /\ asked[o.id].price \in Nat
      <4>1. o.id \in DOMAIN orders
        BY <2>9
      <4>2. asked[o.id] \in Requests
        BY <4>1, RowFields DEF Core
      <4> QED
        BY <4>2, CentAssumption, StoredIsPrice, PriceIsNat
    <3>3. WithinLimits(tr, Cent)
      BY <2>5, <2>6, <2>7, <2>9, <3>1, <3>2 DEF WithinLimits, Near
    <3>4. crashes = 0 \/ WholeCents => WithinLimits(tr, 0)
      BY <2>5, <2>6, <2>7, <2>8, <3>1 DEF WithinLimits
    <3> QED
      BY <1>1, <2>5, <2>9, <3>3, <3>4 DEF IsFair
  <2>11. Involves(tr, order.id) /\ \A id : Involves(tr, id) => id = order.id \/ Holds(book, id)
    BY <2>3, <2>5 DEF Involves
  <2> QED
    BY <2>10, <2>11 DEF tr
<1>8. \A k \in DOMAIN made :
        /\ IsFair(made[k]) /\ Involves(made[k], order.id)
        /\ \A id : Involves(made[k], id) => id = order.id \/ Holds(book, id)
  BY <1>5, <1>6, <1>7
<1> QED
  BY <1>5, <1>8 DEF made, queues, opposite

(* The table only grows, and so do the requests.                           *)
Grows ==
  /\ \A i \in DOMAIN orders : i \in DOMAIN orders' /\ asked'[i] = asked[i]
  /\ crashes' = 0 => crashes = 0

LEMMA FairStays ==
  ASSUME Grows, NEW tr, IsFair(tr)
  PROVE  IsFair(tr)'
BY DEF Grows, IsFair, WithinLimits, WholeCents

(* Settling appends the batch to the trades, and they are all fair.        *)
LEMMA SettledLedger ==
  ASSUME Core, TradesInv, pc = "settle", ledger' = AfterTrades(ledger, Batch)
  PROVE  /\ ledger'.trades = ledger.trades \o Batch
         /\ ledger.trades \in Seq(Billing) /\ Batch \in Seq(Billing)
         /\ ledger'.trades \in Seq(Billing)
         /\ \A k \in DOMAIN ledger'.trades : IsFair(ledger'.trades[k])
<1>1. ledger'.trades = ledger.trades \o Batch
  BY SettledTrades
<1>2. ledger.trades \in Seq(Billing) /\ Batch \in Seq(Billing)
  BY BatchIs DEF TradesInv
<1> DEFINE s == ledger.trades
           t == Batch
           all == s \o t
<1>3. /\ \A k \in DOMAIN s : IsFair(s[k])
      /\ \A k \in DOMAIN t : IsFair(t[k])
  BY BatchIs DEF TradesInv, IsFair, WithinLimits
<1> HIDE DEF s, t
<1>4. /\ Len(s) \in Nat /\ Len(t) \in Nat /\ DOMAIN s = 1 .. Len(s) /\ DOMAIN t = 1 .. Len(t)
      /\ all \in Seq(Billing) /\ DOMAIN all = 1 .. Len(s) + Len(t)
      /\ \A k \in 1 .. Len(s) + Len(t) : all[k] = IF k <= Len(s) THEN s[k] ELSE t[k - Len(s)]
  BY <1>2, LenProperties, ConcatProperties DEF s, t
<1> HIDE DEF all
<1>5. ASSUME NEW k \in DOMAIN all PROVE IsFair(all[k])
  <2>1. k \in 1 .. Len(s) + Len(t)
    BY <1>4
  <2>2. CASE k <= Len(s)
    <3>1. k \in DOMAIN s /\ all[k] = s[k]
      BY <1>4, <2>1, <2>2
    <3> QED
      BY <1>3, <3>1
  <2>3. CASE ~(k <= Len(s))
    <3>1. k - Len(s) \in DOMAIN t /\ all[k] = t[k - Len(s)]
      BY <1>4, <2>1, <2>3
    <3> QED
      BY <1>3, <3>1
  <2> QED
    BY <2>2, <2>3
<1> QED
  BY <1>1, <1>2, <1>4, <1>5 DEF all, s, t

(* A step that leaves the trades and the cancellations alone.              *)
LEMMA SameTradesKeep ==
  ASSUME TradesInv, Grows, ledger' = ledger, cancelled' = cancelled, orders' = orders,
         \/ pc' \notin {"match", "settle"}
         \/ pc' = pc /\ order' = order /\ trades' = trades
  PROVE  TradesInv'
<1>1. /\ ledger'.trades \in Seq(Billing)
      /\ \A k \in DOMAIN ledger.trades : IsFair(ledger.trades[k])'
  BY FairStays DEF TradesInv
<1>2. cancelled' \subseteq DOMAIN orders' /\ \A id \in cancelled' : orders'[id].status = "CANCELLED"
  BY DEF TradesInv
<1>3. CASE pc' \notin {"match", "settle"}
  BY <1>1, <1>2, <1>3 DEF TradesInv
<1>4. CASE pc' = pc /\ order' = order /\ trades' = trades
  <2>1. pc = "settle" => \A k \in DOMAIN trades : IsFair(trades[k])'
    BY <1>4, FairStays DEF TradesInv
  <2> QED
    BY <1>1, <1>2, <1>4, <2>1 DEF TradesInv, Involves
<1> QED
  BY <1>3, <1>4

LEMMA NextTrades ==
  ASSUME Core, TradesInv, [Next]_vars
  PROVE  TradesInv'
<1>0. /\ orders \in Seq(Row) /\ asked \in Seq(Requests) /\ Len(asked) = Len(orders)
      /\ Len(orders) \in Nat /\ DOMAIN orders = 1 .. Len(orders)
  <2>1. orders \in Seq(Row) /\ asked \in Seq(Requests) /\ Len(asked) = Len(orders)
    BY DEF Core, RowsInv
  <2> QED
    BY <2>1, LenProperties
<1>1. ASSUME NEW u \in User, NEW r \in Requests, Insert(u, r),
             ledger' = ledger, crashes' = crashes, cancelled' = cancelled,
             pc' = "idle" \/ (pc' = "match" /\ order' = NewOrder(Len(orders) + 1, r))
      PROVE  TradesInv'
  <2> DEFINE n == Len(orders)
             row == [user |-> u, order |-> [NewOrder(n + 1, r) EXCEPT !.price = Stored(@)],
                     status |-> "PENDING"]
  <2>1. /\ orders' = Append(orders, row) /\ asked' = Append(asked, r)
        /\ ledger' = ledger /\ crashes' = crashes /\ cancelled' = cancelled
    <3>1. NewOrder(n + 1, r).id = n + 1
      BY DEF NewOrder
    <3> QED
      BY <1>1, <3>1 DEF Insert
  <2>2. pc' = "idle" \/ (pc' = "match" /\ order'.id = n + 1)
    BY <1>1 DEF NewOrder
  <2> HIDE DEF row
  <2>3. /\ DOMAIN orders' = 1 .. n + 1
        /\ \A i \in 1 .. n : orders'[i] = orders[i] /\ asked'[i] = asked[i]
    <3>1. \A i \in 1 .. n : Append(orders, row)[i] = orders[i]
      BY <1>0
    <3>2. \A i \in 1 .. n : Append(asked, r)[i] = asked[i]
      BY <1>0
    <3>3. DOMAIN Append(orders, row) = 1 .. n + 1
      BY <1>0
    <3> QED
      BY <2>1, <3>1, <3>2, <3>3
  <2>4. Grows
    BY <1>0, <2>1, <2>3 DEF Grows
  <2>5. \A k \in DOMAIN ledger.trades :
          IsFair(ledger.trades[k])' /\ ~Involves(ledger.trades[k], n + 1)
    <3>1. \A k \in DOMAIN ledger.trades : IsFair(ledger.trades[k])'
      BY <2>1, <2>4, FairStays DEF TradesInv
    <3>2. \A k \in DOMAIN ledger.trades : ~Involves(ledger.trades[k], n + 1)
      BY <1>0 DEF TradesInv, IsFair, Involves
    <3> QED
      BY <3>1, <3>2
  <2>6. cancelled' \subseteq DOMAIN orders' /\ \A id \in cancelled' : orders'[id].status = "CANCELLED"
    BY <1>0, <2>1, <2>3 DEF TradesInv
  <2> QED
    BY <2>1, <2>2, <2>5, <2>6 DEF TradesInv, Involves
<1>2. CASE Match
  <2> DEFINE made == Executions(book[Opposite(order.type)], order)
             left == Incoming(book[Opposite(order.type)], order)
  <2>1. /\ pc = "match" /\ trades' = made /\ order' = left /\ pc' \in {"update", "settle"}
        /\ orders' = orders /\ ledger' = ledger /\ asked' = asked /\ crashes' = crashes
        /\ cancelled' = cancelled
    BY <1>2 DEF Match, history
  <2>2. left.id = order.id
    <3>1. order \in Order
      BY <2>1 DEF Core, RequestInv
    <3> QED
      BY <3>1 DEF Incoming, FilledBy, Order
  <2>3. /\ made \in Seq(Trade)
        /\ \A k \in DOMAIN made :
             /\ IsFair(made[k]) /\ Involves(made[k], order.id)
             /\ \A id : Involves(made[k], id) => id = order.id \/ Holds(book, id)
    BY <2>1, MatchIsFair
  <2> HIDE DEF made, left
  <2>4. Grows
    BY <2>1 DEF Grows
  <2>5. \A id \in cancelled : id # order.id /\ ~Holds(book, id)
    <3>1. orders[order.id].status = "PENDING"
      BY <2>1 DEF Core, RequestInv
    <3> QED
      BY <3>1, HeldHasRow DEF Core, TradesInv, Open
  <2>6. \A k \in DOMAIN trades' :
          /\ IsFair(trades[k])' /\ Involves(trades'[k], order'.id)
          /\ \A id \in cancelled : ~Involves(trades'[k], id)
    <3> SUFFICES ASSUME NEW k \in DOMAIN trades'
                 PROVE  /\ IsFair(trades[k])' /\ Involves(trades'[k], order'.id)
                        /\ \A id \in cancelled : ~Involves(trades'[k], id)
      OBVIOUS
    <3>1. k \in DOMAIN made /\ trades'[k] = made[k]
      BY <2>1
    <3>2. IsFair(trades[k])'
      BY <2>1, <2>3, <3>1 DEF IsFair, WithinLimits, WholeCents
    <3> QED
      BY <2>1, <2>2, <2>3, <2>5, <3>1, <3>2
  <2>7. \A k \in DOMAIN ledger.trades :
          IsFair(ledger.trades[k])' /\ ~Involves(ledger.trades[k], left.id)
    BY <2>1, <2>2, <2>4, FairStays DEF TradesInv
  <2> QED
    BY <2>1, <2>3, <2>6, <2>7 DEF TradesInv, Involves
<1>3. ASSUME pc = "settle", ledger' = AfterTrades(ledger, Batch), pc' \in {"update", "idle"},
             orders' = orders, asked' = asked, crashes' = crashes, cancelled' = cancelled
      PROVE  TradesInv'
  <2>1. /\ ledger'.trades \in Seq(Billing)
        /\ \A k \in DOMAIN ledger'.trades : IsFair(ledger'.trades[k])
    BY <1>3, SettledLedger
  <2>2. \A k \in DOMAIN ledger'.trades : IsFair(ledger.trades[k])'
    BY <1>3, <2>1 DEF IsFair, WithinLimits, WholeCents
  <2> QED
    BY <1>3, <2>1, <2>2 DEF TradesInv
<1>4. CASE Settle
  BY <1>3, <1>4 DEF Settle, history
<1>5. CASE SettleRefused
  BY <1>5, SameTradesKeep DEF SettleRefused, EndRequest, history, Grows
<1>6. CASE UpdateStatus
  <2>1. /\ ledger' = ledger /\ pc' = "idle" /\ asked' = asked /\ crashes' = crashes /\ cancelled' = cancelled
        /\ pc = "update"
    BY <1>6 DEF UpdateStatus, EndRequest, history
  <2>2. /\ order.id \in DOMAIN orders /\ DOMAIN orders' = DOMAIN orders
        /\ \A i \in DOMAIN orders : i # order.id => orders'[i] = orders[i]
    BY <1>6, UpdatedRow
  <2>3. Grows
    BY <2>1, <2>2 DEF Grows
  <2>4. \A k \in DOMAIN ledger.trades : IsFair(ledger.trades[k])'
    BY <2>1, <2>3, FairStays DEF TradesInv
  <2>5. orders[order.id].status = "PENDING"
    BY <2>1 DEF Core, RequestInv
  <2>6. cancelled' \subseteq DOMAIN orders' /\ \A id \in cancelled' : orders'[id].status = "CANCELLED"
    BY <2>1, <2>2, <2>5 DEF TradesInv
  <2> QED
    BY <2>1, <2>4, <2>6 DEF TradesInv
<1>7. ASSUME NEW id \in OrderId, Cancel(id) PROVE TradesInv'
  BY <1>7, SameTradesKeep DEF Cancel, history, Grows
<1>8. CASE MarkCancelled
  <2>1. /\ ledger' = ledger /\ pc' = "idle" /\ asked' = asked /\ crashes' = crashes
        /\ cancelled' = cancelled \cup {target}
    BY <1>8 DEF MarkCancelled, EndRequest
  <2>2. /\ target \in DOMAIN orders /\ DOMAIN orders' = DOMAIN orders
        /\ \A i \in DOMAIN orders : i # target => orders'[i] = orders[i]
        /\ orders'[target].status = "CANCELLED"
    BY <1>8, MarkedRow
  <2>3. Grows
    BY <2>1, <2>2 DEF Grows
  <2>4. \A k \in DOMAIN ledger.trades : IsFair(ledger.trades[k])'
    BY <2>1, <2>3, FairStays DEF TradesInv
  <2>5. cancelled' \subseteq DOMAIN orders' /\ \A id \in cancelled' : orders'[id].status = "CANCELLED"
    BY <2>1, <2>2 DEF TradesInv
  <2> QED
    BY <2>1, <2>4, <2>5 DEF TradesInv
<1>9. CASE TransactionFails
  BY <1>9, SameTradesKeep DEF TransactionFails, EndRequest, Grows
<1>10. CASE SettledInDoubt
  BY <1>3, <1>10 DEF SettledInDoubt, EndRequest
<1>11. CASE Crash
  <2>1. Grows
    BY <1>11 DEF Crash, Grows, Core, RequestInv
  <2> QED
    BY <1>11, <2>1, SameTradesKeep DEF Crash
<1>12. CASE Restart
  BY <1>12, SameTradesKeep DEF Restart, history, Grows
<1>13. CASE RestartUnloaded
  BY <1>13, SameTradesKeep DEF RestartUnloaded, Grows
<1>14. CASE UNCHANGED vars
  BY <1>14, SameTradesKeep DEF vars, memory, history, Grows
<1>15. ASSUME NEW u \in User, NEW r \in Requests, Place(u, r) \/ PlacedInDoubt(u, r)
       PROVE  TradesInv'
  <2>1. /\ Insert(u, r) /\ ledger' = ledger /\ crashes' = crashes /\ cancelled' = cancelled
        /\ pc' = "idle" \/ (pc' = "match" /\ order' = NewOrder(Len(orders) + 1, r))
    <3>1. CASE Place(u, r)
      BY <3>1 DEF Place
    <3>2. CASE PlacedInDoubt(u, r)
      BY <3>2 DEF PlacedInDoubt, Insert, memory
    <3> QED
      BY <1>15, <3>1, <3>2
  <2> QED
    BY <1>1, <2>1
<1> QED
  BY <1>2, <1>4, <1>5, <1>6, <1>7, <1>8, <1>9, <1>10, <1>11, <1>12, <1>13, <1>14, <1>15 DEF Next

(* In every state the trades fit the requests they come from.              *)
THEOREM TradesHold == Spec => [](Core /\ TradesInv)
<1>1. Init => Core /\ TradesInv
  BY InitCore, InitTrades
<1>2. (Core /\ TradesInv) /\ [Next]_vars => (Core /\ TradesInv)'
  BY NextCore, NextTrades
<1> QED
  BY <1>1, <1>2, PTL DEF Spec

(* Nobody trades at a price worse than the limit asked for, until a        *)
(* restart reads limits back as the column rounded them; and from then on  *)
(* at one worse by half a cent at the most.                                *)
THEOREM LimitsHold == Spec => []LimitsAreHonoured
<1>1. Core /\ TradesInv => LimitsAreHonoured
  <2> SUFFICES ASSUME Core, TradesInv PROVE LimitsAreHonoured
    OBVIOUS
  <2>1. CASE crashes = 0
    BY <2>1 DEF TradesInv, IsFair, WithinLimits, LimitsAreHonoured
  <2>2. CASE crashes # 0
    BY <2>2 DEF TradesInv, IsFair, WithinLimits, LimitsAreHonoured
  <2> QED
    BY <2>1, <2>2
<1> QED
  BY <1>1, TradesHold, PTL

(* When the column can hold every price that is asked for, restarts change *)
(* nothing: no trade is worse than a limit at all.                         *)
THEOREM LimitsAreExact ==
  WholeCents => (Spec => [](\A k \in DOMAIN ledger.trades : WithinLimits(ledger.trades[k], 0)))
<1> SUFFICES ASSUME WholeCents
             PROVE  Spec => [](\A k \in DOMAIN ledger.trades : WithinLimits(ledger.trades[k], 0))
  OBVIOUS
<1>1. Core /\ TradesInv => \A k \in DOMAIN ledger.trades : WithinLimits(ledger.trades[k], 0)
  BY DEF TradesInv, IsFair
<1> QED
  BY <1>1, TradesHold, PTL

(* A confirmed cancellation is final: nothing more is traded of the order, *)
(* not from the book, and not after a restart.                             *)
THEOREM CancellationIsFinal == Spec => CancelIsFinal
<1>1. ASSUME Core, TradesInv, [Next]_vars, NEW id \in cancelled
      PROVE  Settled(id)' = Settled(id)
  <2>1. TradesInv'
    BY <1>1, NextTrades
  <2>2. Settled(id) = QuantityOf(id, ledger.trades) /\ Settled(id)' = QuantityOf(id, ledger'.trades)
    <3>1. ledger.trades \in Seq(Billing) /\ ledger'.trades \in Seq(Billing)
      BY <1>1, <2>1 DEF TradesInv
    <3>2. Settled(id) = SettledIn(id, ledger.trades) /\ Settled(id)' = SettledIn(id, ledger'.trades)
      BY DEF Settled, SettledIn, TradesWith, SumOver, Where
    <3> QED
      BY <3>1, <3>2, SettledIs
  <2>3. CASE ledger' = ledger
    BY <2>2, <2>3
  <2>4. CASE pc = "settle" /\ ledger' = AfterTrades(ledger, Batch)
    <3>1. /\ ledger'.trades = ledger.trades \o Batch
          /\ ledger.trades \in Seq(Billing) /\ Batch \in Seq(Billing)
      BY <1>1, <2>4, SettledLedger
    <3>2. \A k \in DOMAIN Batch : Batch[k].buy # id /\ Batch[k].sell # id
      BY <1>1, <2>4, BatchIs DEF TradesInv, Involves
    <3>3. QuantityOf(id, Batch) = 0
      BY <3>1, <3>2, QuantityOfNone
    <3>4. QuantityOf(id, ledger.trades) \in Int
          /\ QuantityOf(id, ledger.trades \o Batch) = QuantityOf(id, ledger.trades) + QuantityOf(id, Batch)
      BY <3>1, QuantityOfConcat
    <3> QED
      BY <2>2, <3>1, <3>3, <3>4
  <2>5. ledger' = ledger \/ (pc = "settle" /\ ledger' = AfterTrades(ledger, Batch))
    BY <1>1 DEF Next, vars, Place, PlacedInDoubt, Match, Settle, SettleRefused, UpdateStatus, Cancel,
                MarkCancelled,
                TransactionFails, SettledInDoubt, Crash, Restart, RestartUnloaded
  <2> QED
    BY <2>3, <2>4, <2>5
<1>2. Core /\ TradesInv /\ [Next]_vars => [\A id \in cancelled : Settled(id)' = Settled(id)]_vars
  BY <1>1
<1> QED
  BY <1>2, TradesHold, PTL DEF Spec, CancelIsFinal

-----------------------------------------------------------------------------
(* What a match trades of each order                                       *)

LEMMA QuantityOfNat ==
  ASSUME NEW id, NEW ts \in Seq(Billing)
  PROVE  QuantityOf(id, ts) \in Nat
<1>1. Among(ts, Between(id)) \in Seq(Billing)
  BY RowsAtIsSeq DEF Among
<1>2. Quantity \in [Billing -> Nat]
  BY DEF Quantity, Billing
<1> QED
  BY <1>1, <1>2, SumOfNat DEF QuantityOf

(* No two places of a side hold the same order.                            *)
LEMMA OnePlace ==
  ASSUME NEW b \in Books, Ranked(b), NEW side \in Side,
         NEW pos1 \in RestingAt(b[side]), NEW pos2 \in RestingAt(b[side]),
         At(b[side], pos1).id = At(b[side], pos2).id
  PROVE  pos1 = pos2
<1> DEFINE p1 == pos1[1]
           i1 == pos1[2]
           p2 == pos2[1]
           i2 == pos2[2]
<1>1. /\ pos1 = <<p1, i1>> /\ p1 \in Price /\ i1 \in DOMAIN b[side][p1] /\ i1 \in Nat
      /\ pos2 = <<p2, i2>> /\ p2 \in Price /\ i2 \in DOMAIN b[side][p2] /\ i2 \in Nat
      /\ b[side][p1][i1].id = b[side][p2][i2].id
  <2>1. b[side] \in Queues
    BY DEF Books
  <2>2. /\ pos1 = <<p1, i1>> /\ p1 \in Price /\ i1 \in DOMAIN b[side][p1] /\ i1 \in Nat
        /\ At(b[side], pos1) = b[side][p1][i1]
    BY <2>1, PositionsOfSide DEF At
  <2>3. /\ pos2 = <<p2, i2>> /\ p2 \in Price /\ i2 \in DOMAIN b[side][p2] /\ i2 \in Nat
        /\ At(b[side], pos2) = b[side][p2][i2]
    BY <2>1, PositionsOfSide DEF At
  <2> QED
    BY <2>2, <2>3
<1> HIDE DEF p1, i1, p2, i2
<1>2. p1 = p2
  BY <1>1 DEF Ranked
<1>3. /\ i1 < i2 => b[side][p1][i1].id < b[side][p1][i2].id
      /\ i2 < i1 => b[side][p1][i2].id < b[side][p1][i1].id
  BY <1>1, <1>2 DEF Ranked
<1>4. b[side][p1][i1].id \in Nat /\ b[side][p1][i2].id \in Nat
  BY <1>1, <1>2, BookFields, OrderIdIsNat
<1>5. i1 = i2
  BY <1>1, <1>2, <1>3, <1>4
<1> QED
  BY <1>1, <1>2, <1>5

(* The bill of a match moves of every order what the match has filled of   *)
(* it.                                                                     *)
LEMMA MatchQuantities ==
  ASSUME Core, pc = "match"
  PROVE  LET queues == book[Opposite(order.type)]
             bill == BilledOf(Executions(queues, order))
         IN  /\ bill \in Seq(Billing)
             /\ QuantityOf(order.id, bill) = TotalFill(queues, order)
             /\ \A pos \in RestingAt(queues) :
                  QuantityOf(At(queues, pos).id, bill) = Fill(queues, order, pos)
             /\ \A id : id # order.id /\ (\A pos \in RestingAt(queues) : At(queues, pos).id # id)
                  => QuantityOf(id, bill) = 0
             /\ OpenSide(queues) /\ queues \in Queues
<1> DEFINE opposite == Opposite(order.type)
           queues == book[opposite]
           made == Executions(queues, order)
           bill == BilledOf(made)
           turn == Turns(queues, order)
           n == CardinalityOfMatched(queues, order)
           M == Matched(queues, order)
<1>1. order \in Order /\ order.id \in DOMAIN orders /\ ~Holds(book, order.id)
  BY DEF Core, RequestInv
<1>2. book \in Books /\ Ranked(book)
  BY DEF Core, BookInv
<1>3. opposite \in Side /\ order.type \in Side /\ queues \in Queues
  <2>1. order.type \in Side
    BY <1>1, OrderFields
  <2>2. opposite \in Side
    BY <2>1 DEF Opposite, Side
  <2> QED
    BY <1>2, <2>1, <2>2 DEF Books
<1> HIDE DEF opposite
<1>4. OpenSide(queues)
  <2>1. \A pos \in RestingAt(queues) : Remaining(At(queues, pos)) > 0
    BY <1>3, PositionsOfSide DEF At, Core, BookInv, Stands
  <2> QED
    BY <2>1 DEF OpenSide
<1>5. /\ n \in Nat /\ turn \in [1 .. n -> M]
      /\ \A a, b \in 1 .. n : a # b => turn[a] # turn[b]
      /\ \A pos \in M : \E a \in 1 .. n : turn[a] = pos
      /\ made \in Seq(Trade) /\ Len(made) = n
      /\ \A k \in 1 .. n : made[k] = TradeAt(queues, order, turn[k])
  BY <1>1, <1>3, <1>4, TurnsAreASorting, ExecutionsAre
<1>6. /\ \A k \in DOMAIN made : IsFair(made[k]) /\ Involves(made[k], order.id)
  BY MatchIsFair DEF opposite
<1>7. M \subseteq RestingAt(queues) /\ IsFiniteSet(M)
      /\ \A pos \in RestingAt(queues) : pos \in M <=> Fill(queues, order, pos) # 0
  <2>1. M \subseteq RestingAt(queues)
    BY DEF Matched, Eligible
  <2>2. \A pos \in RestingAt(queues) : Fill(queues, order, pos) \in Nat
    BY <1>1, <1>3, <1>4, FillBounds
  <2>3. \A pos \in RestingAt(queues) : pos \in M <=> Fill(queues, order, pos) # 0
    BY <2>2 DEF Matched, Fill
  <2> QED
    BY <1>3, <2>1, <2>3, FinitelyManyRest, FS_Subset
<1> HIDE DEF made, turn, n, queues, M
<1>8. DOMAIN made = 1 .. n
  BY <1>5, LenProperties
<1>9. /\ bill \in Seq(Billing) /\ DOMAIN bill = 1 .. n
      /\ \A k \in 1 .. n :
           /\ bill[k].buy = made[k].buy /\ bill[k].sell = made[k].sell
           /\ bill[k].quantity = made[k].quantity
  BY <1>5, <1>6, <1>8, BilledIs
<1> HIDE DEF bill
<1>10. ASSUME NEW k \in 1 .. n
       PROVE  /\ bill[k] \in Billing /\ bill[k].quantity = Fill(queues, order, turn[k])
              /\ turn[k] \in M /\ turn[k] \in RestingAt(queues)
              /\ {bill[k].buy, bill[k].sell} = {order.id, At(queues, turn[k]).id}
  <2>1. made[k] = TradeAt(queues, order, turn[k]) /\ turn[k] \in M
    BY <1>5
  <2>2. bill[k] \in Billing
    BY <1>9, ElementOfSeq, LenProperties
  <2> QED
    BY <1>7, <1>9, <2>1, <2>2 DEF TradeAt, CreateTrade
<1>11. QuantityOf(order.id, bill) = TotalFill(queues, order)
  <2> DEFINE G == [pos \in M |-> Fill(queues, order, pos)]
  <2>1. G \in [M -> Int]
    <3>1. \A pos \in M : Fill(queues, order, pos) \in Int
      BY <1>1, <1>3, <1>4, <1>7, FillBounds DEF queues
    <3> QED
      BY <3>1
  <2>2. turn \in Seq(M) /\ SumOf(G, turn) = SumIn(G, M)
    <3> HIDE DEF G
    <3>1. /\ IsFiniteSet(M) /\ n \in Nat /\ turn \in [1 .. n -> M]
          /\ \A a, b \in 1 .. n : a # b => turn[a] # turn[b]
          /\ \A pos \in M : \E a \in 1 .. n : turn[a] = pos
      BY <1>5, <1>7
    <3> QED
      BY <2>1, <3>1, SortedSum
  <2>3. SumIn(G, M) = TotalFill(queues, order)
    <3>1. [pos \in M |-> G[pos]] = [pos \in M |-> Fill(queues, order, pos)]
      OBVIOUS
    <3> QED
      BY <3>1 DEF SumIn, TotalFill, M
  <2>4. Among(bill, Between(order.id)) = bill
    <3>1. \A k \in DOMAIN bill : bill[k] \in Between(order.id)
      <4> SUFFICES ASSUME NEW k \in DOMAIN bill PROVE bill[k] \in Between(order.id)
        OBVIOUS
      <4>1. bill[k] \in Billing /\ order.id \in {bill[k].buy, bill[k].sell}
        BY <1>9, <1>10
      <4> QED
        BY <4>1 DEF Between
    <3> QED
      BY <1>9, <3>1, AmongAll
  <2>5. SumOf(Quantity, bill) = SumOf(G, turn)
    <3>1. DOMAIN turn = 1 .. n
      BY <1>5
    <3>2. [k \in DOMAIN bill |-> Quantity[bill[k]]] = [k \in DOMAIN turn |-> G[turn[k]]]
      BY <1>9, <1>10, <3>1, BillingFields
    <3> QED
      BY <3>2 DEF SumOf
  <2> QED
    BY <2>2, <2>3, <2>4, <2>5 DEF QuantityOf
<1>12. ASSUME NEW pos \in RestingAt(queues)
       PROVE  QuantityOf(At(queues, pos).id, bill) = Fill(queues, order, pos)
  <2> DEFINE id == At(queues, pos).id
  <2>1. id # order.id
    BY <1>1, <1>3, PositionsOfSide DEF Holds, At, queues
  <2>2. \A other \in RestingAt(queues) : At(queues, other).id = id => other = pos
    BY <1>2, <1>3, OnePlace DEF queues
  <2>3. ASSUME NEW i \in 1 .. n
        PROVE  id \in {bill[i].buy, bill[i].sell} <=> turn[i] = pos
    BY <1>10, <2>1, <2>2
  <2> HIDE DEF id
  <2>4. CASE pos \in M
    <3>1. PICK k \in 1 .. n : turn[k] = pos
      BY <1>5, <2>4
    <3>2. k \in DOMAIN bill /\ bill \in Seq(Billing)
      BY <1>9
    <3>a. \A i \in DOMAIN bill : id \in {bill[i].buy, bill[i].sell} <=> i = k
      BY <1>5, <1>9, <2>3, <3>1
    <3>3. QuantityOf(id, bill) = bill[k].quantity
      BY ONLY <3>2, <3>a, QuantityOfOne
    <3> QED
      BY <1>10, <3>1, <3>3 DEF id
  <2>5. CASE pos \notin M
    <3>1. \A i \in DOMAIN bill : bill[i].buy # id /\ bill[i].sell # id
      BY <1>9, <1>10, <2>3, <2>5
    <3>2. QuantityOf(id, bill) = 0
      BY <1>9, <3>1, QuantityOfNone
    <3> QED
      BY <1>7, <2>5, <3>2 DEF id
  <2> QED
    BY <2>4, <2>5
<1>13. ASSUME NEW id, id # order.id, \A pos \in RestingAt(queues) : At(queues, pos).id # id
       PROVE  QuantityOf(id, bill) = 0
  <2>1. \A i \in DOMAIN bill : bill[i].buy # id /\ bill[i].sell # id
    BY <1>9, <1>10, <1>13
  <2> QED
    BY <1>9, <2>1, QuantityOfNone
<1> QED
  BY <1>3, <1>4, <1>9, <1>11, <1>12, <1>13 DEF bill, made, queues, opposite

-----------------------------------------------------------------------------
(* The invariant of the quantities                                         *)

Pending(id) == IF pc = "settle" THEN QuantityOf(id, Batch) ELSE 0

(* What is settled of order id, or waits to be.                            *)
Claimed(id) == QuantityOf(id, ledger.trades) + Pending(id)

(* The filled quantity of the order being placed is what its trades move;  *)
(* until a restart, the filled quantity of a resting order covers all that *)
(* was traded of it, and no more is traded of any order than was asked for.*)
Covered ==
  crashes = 0 =>
    /\ \A side \in Side : \A p \in Price : \A i \in DOMAIN book[side][p] :
         Claimed(book[side][p][i].id) <= book[side][p][i].filled
    /\ \A id \in DOMAIN orders : Claimed(id) <= asked[id].quantity

QuantityInv ==
  /\ pc = "settle" => QuantityOf(order.id, Batch) = order.filled
  /\ pc = "update" => QuantityOf(order.id, ledger.trades) = order.filled
  /\ Covered

LEMMA ClaimedIsNat ==
  ASSUME Core, TradesInv, NEW id
  PROVE  /\ Claimed(id) \in Nat /\ Pending(id) \in Nat /\ QuantityOf(id, ledger.trades) \in Nat
         /\ Claimed(id) = QuantityOf(id, ledger.trades) + Pending(id)
<1>1. QuantityOf(id, ledger.trades) \in Nat
  BY QuantityOfNat DEF TradesInv
<1>2. Pending(id) \in Nat
  <2>1. CASE pc = "settle"
    BY <2>1, BatchIs, QuantityOfNat DEF Pending
  <2>2. CASE pc # "settle"
    BY <2>2 DEF Pending
  <2> QED
    BY <2>1, <2>2
<1> QED
  BY <1>1, <1>2 DEF Claimed

LEMMA InitQuantities == Init => QuantityInv
<1> SUFFICES ASSUME Init PROVE QuantityInv
  OBVIOUS
<1>1. pc = "idle" /\ orders = <<>> /\ book = EmptyQueues
  BY DEF Init
<1>2. \A side \in Side : \A p \in Price : DOMAIN EmptyQueues[side][p] = {}
  BY DEF EmptyQueues
<1> QED
  BY <1>1, <1>2 DEF QuantityInv, Covered

(* Nothing is settled and nothing new waits to be.                         *)
LEMMA NothingClaimed ==
  ASSUME Core, TradesInv, ledger' = ledger, pc' # "settle", NEW id
  PROVE  /\ Claimed(id)' \in Nat /\ Claimed(id)' <= Claimed(id)
         /\ Claimed(id)' = QuantityOf(id, ledger.trades)
<1>1. /\ Pending(id) \in Nat /\ QuantityOf(id, ledger.trades) \in Nat
      /\ Claimed(id) = QuantityOf(id, ledger.trades) + Pending(id)
  BY ClaimedIsNat
<1>2. Claimed(id)' = QuantityOf(id, ledger.trades) + 0
  BY DEF Claimed, Pending
<1> QED
  BY <1>1, <1>2

(* What waits is settled.                                                  *)
LEMMA BatchClaimed ==
  ASSUME Core, TradesInv, pc = "settle", ledger' = AfterTrades(ledger, Batch), pc' # "settle", NEW id
  PROVE  /\ Claimed(id)' \in Nat /\ Claimed(id)' <= Claimed(id)
         /\ QuantityOf(id, ledger'.trades) = QuantityOf(id, ledger.trades) + QuantityOf(id, Batch)
<1>1. /\ ledger'.trades = ledger.trades \o Batch
      /\ ledger.trades \in Seq(Billing) /\ Batch \in Seq(Billing)
  BY SettledLedger
<1>2. /\ QuantityOf(id, ledger.trades) \in Int /\ QuantityOf(id, Batch) \in Int
      /\ QuantityOf(id, ledger.trades \o Batch) = QuantityOf(id, ledger.trades) + QuantityOf(id, Batch)
  BY <1>1, QuantityOfConcat
<1>3. Claimed(id)' = QuantityOf(id, ledger'.trades) + 0
  BY DEF Claimed, Pending
<1>4. Claimed(id) = QuantityOf(id, ledger.trades) + QuantityOf(id, Batch)
  BY DEF Claimed, Pending
<1>5. Claimed(id) \in Nat
  BY ClaimedIsNat
<1> QED
  BY <1>1, <1>2, <1>3, <1>4, <1>5

(* A match claims what it trades.                                          *)
LEMMA MatchClaims ==
  ASSUME Core, TradesInv, Match, NEW id
  PROVE  LET bill == BilledOf(Executions(book[Opposite(order.type)], order))
         IN  /\ Claimed(id)' = Claimed(id) + QuantityOf(id, bill)
             /\ pc' = "settle" => QuantityOf(id, Batch)' = QuantityOf(id, bill)
             /\ pc' # "settle" => QuantityOf(id, bill) = 0
             /\ Claimed(id) = QuantityOf(id, ledger.trades)
<1> DEFINE made == Executions(book[Opposite(order.type)], order)
           bill == BilledOf(made)
<1>1. /\ pc = "match" /\ trades' = made /\ orders' = orders /\ ledger' = ledger
      /\ pc' = IF made = <<>> THEN "update" ELSE "settle"
  BY DEF Match
<1>2. bill \in Seq(Billing)
  BY <1>1, MatchQuantities
<1>3. Batch' = bill
  BY <1>1 DEF Batch, BilledOf, Billed
<1>4. QuantityOf(id, ledger.trades) \in Nat /\ QuantityOf(id, bill) \in Nat
  BY <1>2, QuantityOfNat DEF TradesInv
<1>5. Claimed(id) = QuantityOf(id, ledger.trades)
  BY <1>1, <1>4 DEF Claimed, Pending
<1>6. CASE made = <<>>
  <2>1. DOMAIN bill = {}
    BY <1>6 DEF BilledOf
  <2>2. QuantityOf(id, bill) = 0
    BY <1>2, <2>1, QuantityOfNone
  <2>3. Claimed(id)' = QuantityOf(id, ledger.trades) + 0
    BY <1>1, <1>6 DEF Claimed, Pending
  <2> QED
    BY <1>1, <1>4, <1>5, <1>6, <2>2, <2>3
<1>7. CASE made # <<>>
  <2>1. QuantityOf(id, Batch)' = QuantityOf(id, Batch')
    BY DEF QuantityOf
  <2>2. Claimed(id)' = QuantityOf(id, ledger.trades) + QuantityOf(id, Batch')
    BY <1>1, <1>7, <2>1 DEF Claimed, Pending
  <2> QED
    BY <1>1, <1>3, <1>5, <1>7, <2>1, <2>2
<1> QED
  BY <1>6, <1>7

(* The book has the same orders or fewer, and no order has a greater claim.*)
LEMMA NoMoreClaimed ==
  ASSUME Core, TradesInv, QuantityInv,
         crashes' = crashes,
         DOMAIN orders' = DOMAIN orders, asked' = asked,
         \A id : Claimed(id)' \in Nat /\ Claimed(id)' <= Claimed(id),
         \A side \in Side : \A p \in Price : \A i \in DOMAIN book'[side][p] :
           \E j \in DOMAIN book[side][p] : book'[side][p][i] = book[side][p][j]
  PROVE  Covered'
<1>1. \A id : Claimed(id) \in Nat
  BY ClaimedIsNat
<1>2. ASSUME crashes' = 0, NEW id \in DOMAIN orders'
      PROVE  Claimed(id)' <= asked'[id].quantity
  <2>1. /\ Claimed(id)' \in Nat /\ Claimed(id) \in Nat
        /\ Claimed(id)' <= Claimed(id) /\ Claimed(id) <= asked[id].quantity
    BY <1>1, <1>2 DEF QuantityInv, Covered
  <2>2. asked[id].quantity \in Nat
    BY RowFields, StoredIsPrice DEF Core
  <2> QED
    BY <2>1, <2>2
<1>3. ASSUME crashes' = 0, NEW side \in Side, NEW p \in Price, NEW i \in DOMAIN book'[side][p]
      PROVE  Claimed(book[side][p][i].id)' <= book'[side][p][i].filled
  <2>1. PICK j \in DOMAIN book[side][p] : book'[side][p][i] = book[side][p][j]
    OBVIOUS
  <2> DEFINE o == book[side][p][j]
  <2>2. o \in Order /\ o.filled \in Nat
    BY BookFields, OrderFields DEF Core, BookInv
  <2>3. Claimed(o.id) <= o.filled
    BY <1>3 DEF QuantityInv, Covered
  <2>4. PICK id : id = o.id
    OBVIOUS
  <2>5. Claimed(book[side][p][i].id)' = Claimed(id)'
    BY <2>1, <2>4 DEF Claimed, Pending
  <2>6. Claimed(id)' \in Nat /\ Claimed(id)' <= Claimed(id) /\ Claimed(id) \in Nat /\ Claimed(id) <= o.filled
    BY <1>1, <2>3, <2>4
  <2> QED
    BY <2>1, <2>2, <2>5, <2>6
<1> QED
  BY <1>2, <1>3 DEF Covered

LEMMA InsertQuantities ==
  ASSUME Core, TradesInv, QuantityInv, NEW u \in User, NEW r \in Requests, Insert(u, r),
         pc' \in {"idle", "match"}, ledger' = ledger, crashes' = crashes, book' = book
  PROVE  QuantityInv'
<1> DEFINE n == Len(orders)
           row == [user |-> u, order |-> [NewOrder(n + 1, r) EXCEPT !.price = Stored(@)],
                   status |-> "PENDING"]
<1>1. /\ orders' = Append(orders, row) /\ asked' = Append(asked, r)
      /\ pc' \in {"idle", "match"} /\ ledger' = ledger /\ crashes' = crashes /\ book' = book
      /\ pc = "idle"
  <2>1. NewOrder(n + 1, r).id = n + 1
    BY DEF NewOrder
  <2> QED
    BY <2>1 DEF Insert
<1> HIDE DEF row
<1>2. /\ orders \in Seq(Row) /\ asked \in Seq(Requests) /\ Len(asked) = n /\ n \in Nat
      /\ DOMAIN orders = 1 .. n
  <2>1. orders \in Seq(Row) /\ asked \in Seq(Requests) /\ Len(asked) = n
    BY DEF Core, RowsInv
  <2> QED
    BY <2>1, LenProperties
<1>3. /\ DOMAIN orders' = 1 .. n + 1 /\ asked'[n + 1] = r
      /\ \A i \in 1 .. n : asked'[i] = asked[i]
  BY <1>1, <1>2
<1>4. \A id : Claimed(id)' = QuantityOf(id, ledger.trades) /\ Claimed(id) = Claimed(id)'
  <2> SUFFICES ASSUME NEW id PROVE Claimed(id)' = QuantityOf(id, ledger.trades) /\ Claimed(id) = Claimed(id)'
    OBVIOUS
  <2>1. Claimed(id)' = QuantityOf(id, ledger.trades)
    BY <1>1, NothingClaimed
  <2>2. Claimed(id) = QuantityOf(id, ledger.trades) + 0 /\ QuantityOf(id, ledger.trades) \in Nat
    BY <1>1, ClaimedIsNat DEF Claimed, Pending
  <2> QED
    BY <2>1, <2>2
<1>5. ASSUME NEW id, id = n + 1 PROVE Claimed(id)' = 0
  <2>1. \A k \in DOMAIN ledger.trades : ledger.trades[k].buy # id /\ ledger.trades[k].sell # id
    BY <1>2, <1>5 DEF TradesInv, IsFair
  <2>2. QuantityOf(id, ledger.trades) = 0
    BY <2>1, QuantityOfNone DEF TradesInv
  <2> QED
    BY <1>4, <2>2
<1>6. ASSUME crashes' = 0, NEW id \in DOMAIN orders'
      PROVE  Claimed(id)' <= asked'[id].quantity
  <2>1. CASE id = n + 1
    <3>1. Claimed(id)' = 0 /\ asked'[id] = r /\ r.quantity \in Nat
      BY <1>3, <1>5, <2>1, StoredIsPrice
    <3> QED
      BY <3>1
  <2>2. CASE id \in 1 .. n
    BY <1>1, <1>2, <1>3, <1>4, <1>6, <2>2 DEF QuantityInv, Covered
  <2> QED
    BY <1>2, <1>3, <2>1, <2>2
<1>7. ASSUME crashes' = 0, NEW side \in Side, NEW p \in Price, NEW i \in DOMAIN book'[side][p]
      PROVE  Claimed(book[side][p][i].id)' <= book'[side][p][i].filled
  <2>1. PICK id : id = book[side][p][i].id
    OBVIOUS
  <2>2. Claimed(book[side][p][i].id)' = Claimed(id)'
    BY <1>1, <2>1 DEF Claimed, Pending
  <2>3. Claimed(id) <= book[side][p][i].filled
    BY <1>1, <1>7, <2>1 DEF QuantityInv, Covered
  <2> QED
    BY <1>1, <1>4, <2>2, <2>3
<1> QED
  BY <1>1, <1>6, <1>7 DEF QuantityInv, Covered

(* A match offers no more of an order than was left to trade of it.        *)
LEMMA MatchQuantitiesKeep ==
  ASSUME Core, TradesInv, QuantityInv, Match
  PROVE  QuantityInv'
<1> DEFINE opposite == Opposite(order.type)
           queues == book[opposite]
           bill == BilledOf(Executions(queues, order))
           left == Incoming(queues, order)
<1>1. /\ pc = "match" /\ order' = left /\ book' = AfterMatch(book, order)
      /\ orders' = orders /\ ledger' = ledger /\ asked' = asked /\ crashes' = crashes
      /\ pc' \in {"settle", "update"}
  BY DEF Match, history
<1>2. /\ order \in Order /\ order.id = Len(orders) /\ order.id \in DOMAIN orders
      /\ IsAsked(order, asked[order.id]) /\ order.filled = 0
      /\ Remaining(order) >= 0 /\ ~Holds(book, order.id)
  BY <1>1 DEF Core, RequestInv
<1>3. /\ book \in Books /\ Ranked(book)
      /\ \A side \in Side : \A p \in Price : \A i \in DOMAIN book[side][p] :
           Stands(book[side][p][i], side, p) /\ Remaining(book[side][p][i]) > 0
  BY DEF Core, BookInv, Stands
<1>4. \A id : Holds(book, id) => id < order.id
  <2> SUFFICES ASSUME NEW id, Holds(book, id) PROVE id < order.id
    OBVIOUS
  <2>1. id \in 1 .. Len(orders) /\ Len(orders) \in Nat
    BY HeldHasRow, RowFields DEF Core
  <2>2. id # order.id
    BY <1>2
  <2> QED
    BY <1>2, <2>1, <2>2
<1>5. /\ left \in Order /\ SameOrder(left, order)
      /\ left.filled = order.filled + TotalFill(queues, order)
      /\ \A side \in Side : \A p \in Price : \A k \in DOMAIN book'[side][p] :
           \/ book'[side][p][k] = left
           \/ \E j \in DOMAIN book[side][p] :
                book'[side][p][k] = FilledBy(book[side][p][j], Given(book, order, side, p, j))
  <2>1. OrderId \subseteq Nat
    BY OrderIdIsNat
  <2> QED
    BY <1>1, <1>2, <1>3, <1>4, <2>1, MatchedBook
<1>6. /\ bill \in Seq(Billing)
      /\ QuantityOf(order.id, bill) = TotalFill(queues, order)
      /\ \A pos \in RestingAt(queues) : QuantityOf(At(queues, pos).id, bill) = Fill(queues, order, pos)
      /\ \A id : id # order.id /\ (\A pos \in RestingAt(queues) : At(queues, pos).id # id)
           => QuantityOf(id, bill) = 0
      /\ OpenSide(queues) /\ queues \in Queues
  BY <1>1, MatchQuantities
<1>7. TotalFill(queues, order) \in Nat /\ TotalFill(queues, order) <= Remaining(order)
  BY <1>2, <1>6, TotalFillBounds
<1>8. \A id : /\ Claimed(id)' = Claimed(id) + QuantityOf(id, bill)
              /\ pc' = "settle" => QuantityOf(id, Batch)' = QuantityOf(id, bill)
              /\ pc' # "settle" => QuantityOf(id, bill) = 0
              /\ Claimed(id) = QuantityOf(id, ledger.trades)
              /\ Claimed(id) \in Nat
  BY MatchClaims, ClaimedIsNat
<1>9. opposite \in Side
  BY <1>2, OrderFields DEF Opposite, Side
<1> HIDE DEF bill, left, queues, opposite
<1>10. Claimed(order.id) = 0
  <2>1. \A k \in DOMAIN ledger.trades :
          ledger.trades[k].buy # order.id /\ ledger.trades[k].sell # order.id
    BY <1>1 DEF TradesInv, Involves
  <2>2. QuantityOf(order.id, ledger.trades) = 0
    BY <2>1, QuantityOfNone DEF TradesInv
  <2> QED
    BY <1>8, <2>2
<1>11. left.filled = TotalFill(queues, order) /\ left.id = order.id
  BY <1>2, <1>5, <1>7 DEF SameOrder
<1>12. /\ pc' = "settle" => QuantityOf(order.id, Batch)' = left.filled
       /\ pc' = "update" => QuantityOf(order.id, ledger.trades)' = left.filled
  <2> PICK id : id = left.id
    OBVIOUS
  <2>1. QuantityOf(order.id, Batch)' = QuantityOf(id, Batch)'
    BY <1>1 DEF QuantityOf
  <2>2. QuantityOf(order.id, ledger.trades)' = QuantityOf(id, ledger.trades)
    BY <1>1 DEF QuantityOf
  <2>3. QuantityOf(id, bill) = left.filled
    BY <1>6, <1>11
  <2>4. pc' = "settle" => QuantityOf(id, Batch)' = left.filled
    BY <1>8, <2>3
  <2>5. pc' = "update" => QuantityOf(id, bill) = 0 /\ QuantityOf(id, ledger.trades) = 0
    BY <1>8, <1>10, <1>11
  <2> QED
    BY <2>1, <2>2, <2>3, <2>4, <2>5
(* What each order of the book is given is what the bill moves of it.      *)
<1>13. ASSUME NEW side \in Side, NEW p \in Price, NEW j \in DOMAIN book[side][p]
       PROVE  /\ QuantityOf(book[side][p][j].id, bill) = Given(book, order, side, p, j)
              /\ Given(book, order, side, p, j) \in Nat
              /\ Given(book, order, side, p, j) <= Remaining(book[side][p][j])
              /\ book[side][p][j] \in Order
  <2>1. book[side] \in Queues /\ book[side][p][j] \in Order /\ Remaining(book[side][p][j]) > 0
    BY <1>3, BookFields
  <2>2. /\ <<p, j>> \in RestingAt(book[side]) /\ At(book[side], <<p, j>>) = book[side][p][j]
    BY <2>1, PositionsOfSide
  <2>3. CASE side = opposite
    <3>1. Given(book, order, side, p, j) = Fill(queues, order, <<p, j>>)
      BY <2>3 DEF Given, queues, opposite
    <3>2. QuantityOf(book[side][p][j].id, bill) = Fill(queues, order, <<p, j>>)
      BY <1>6, <2>2, <2>3 DEF queues
    <3>3. /\ Fill(queues, order, <<p, j>>) \in Nat
          /\ Fill(queues, order, <<p, j>>) <= Remaining(book[side][p][j])
      BY <1>2, <1>6, <2>2, <2>3, FillBounds DEF queues
    <3> QED
      BY <2>1, <3>1, <3>2, <3>3
  <2>4. CASE side # opposite
    <3>1. Given(book, order, side, p, j) = 0
      BY <2>4 DEF Given, opposite
    <3>2. book[side][p][j].id # order.id
      BY <1>2 DEF Holds
    <3>3. \A pos \in RestingAt(queues) : At(queues, pos).id # book[side][p][j].id
      BY <1>3, <1>6, <1>9, <2>4, PositionsOfSide DEF Ranked, At, queues
    <3>4. QuantityOf(book[side][p][j].id, bill) = 0
      BY <1>6, <3>2, <3>3
    <3>5. Remaining(book[side][p][j]) \in Int
      BY <2>1, FilledByKeeps
    <3> QED
      BY <2>1, <3>1, <3>4, <3>5
  <2> QED
    BY <2>3, <2>4
<1>14. ASSUME crashes = 0, NEW id \in DOMAIN orders
       PROVE  Claimed(id) + QuantityOf(id, bill) <= asked[id].quantity
  <2>1. CASE id = order.id
    <3>1. Remaining(order) <= order.quantity /\ order.quantity = asked[id].quantity /\ order.quantity \in Nat
      BY <1>2, <2>1, OrderFields DEF Remaining, IsAsked
    <3>2. Remaining(order) \in Int
      BY <1>2, FilledByKeeps
    <3> QED
      BY <1>6, <1>7, <1>10, <2>1, <3>1, <3>2
  <2>2. CASE id # order.id /\ \E pos \in RestingAt(queues) : At(queues, pos).id = id
    <3>1. PICK pos \in RestingAt(queues) : At(queues, pos).id = id
      BY <2>2
    <3> DEFINE p == pos[1]
               j == pos[2]
               o == book[opposite][p][j]
    <3>2. p \in Price /\ j \in DOMAIN book[opposite][p] /\ o.id = id
      BY <1>6, <3>1, PositionsOfSide DEF At, queues
    <3> HIDE DEF p, j
    <3>3. /\ QuantityOf(id, bill) \in Nat /\ QuantityOf(id, bill) <= Remaining(o) /\ o \in Order
      BY <1>9, <1>13, <3>2
    <3>4. Stands(o, opposite, p) /\ Claimed(o.id) <= o.filled
      BY <1>3, <1>9, <1>14, <3>2 DEF QuantityInv, Covered
    <3>5. o.quantity = asked[id].quantity /\ o.quantity \in Nat /\ o.filled \in Nat
      BY <3>2, <3>3, <3>4, OrderFields DEF Stands, IsAsked
    <3>6. Remaining(o) = o.quantity - o.filled
      BY DEF Remaining
    <3> HIDE DEF o
    <3> QED
      BY <1>8, <3>2, <3>3, <3>4, <3>5, <3>6
  <2>3. CASE id # order.id /\ ~\E pos \in RestingAt(queues) : At(queues, pos).id = id
    <3>1. QuantityOf(id, bill) = 0
      BY <1>6, <2>3
    <3>2. Claimed(id) <= asked[id].quantity /\ Claimed(id) \in Nat
      BY <1>8, <1>14 DEF QuantityInv, Covered
    <3> QED
      BY <3>1, <3>2
  <2> QED
    BY <2>1, <2>2, <2>3
<1>15. ASSUME crashes' = 0, NEW id \in DOMAIN orders'
       PROVE  Claimed(id)' <= asked'[id].quantity
  BY <1>1, <1>8, <1>14, <1>15
<1>16. ASSUME crashes' = 0, NEW side \in Side, NEW p \in Price, NEW k \in DOMAIN book'[side][p]
       PROVE  Claimed(book[side][p][k].id)' <= book'[side][p][k].filled
  <2>1. PICK id : id = book'[side][p][k].id
    OBVIOUS
  <2>2. Claimed(book[side][p][k].id)' = Claimed(id)'
    BY <2>1 DEF Claimed, Pending
  <2>3. Claimed(id)' = Claimed(id) + QuantityOf(id, bill)
    BY <1>8
  <2>4. CASE book'[side][p][k] = left
    <3>1. id = order.id /\ left.filled = TotalFill(queues, order)
      BY <1>11, <2>1, <2>4
    <3>2. Claimed(id) = 0 /\ QuantityOf(id, bill) = TotalFill(queues, order)
      BY <1>6, <1>10, <3>1
    <3> QED
      BY <1>7, <2>2, <2>3, <2>4, <3>1, <3>2
  <2>5. ASSUME NEW j \in DOMAIN book[side][p],
               book'[side][p][k] = FilledBy(book[side][p][j], Given(book, order, side, p, j))
        PROVE  Claimed(id)' <= book'[side][p][k].filled
    <3> DEFINE o == book[side][p][j]
               n == Given(book, order, side, p, j)
    <3>1. QuantityOf(o.id, bill) = n /\ n \in Nat /\ o \in Order
      BY <1>13
    <3>2. /\ book'[side][p][k].filled = o.filled + n /\ book'[side][p][k].id = o.id /\ o.filled \in Nat
      <4>1. PICK x : x = book'[side][p][k]
        OBVIOUS
      <4>2. x = FilledBy(o, n)
        BY <2>5, <4>1
      <4>3. o \in Order /\ n \in Nat
        BY <3>1
      <4> HIDE DEF o, n
      <4>4. x.filled = o.filled + n /\ x.id = o.id /\ o.filled \in Nat
        BY ONLY <4>2, <4>3, FilledByKeeps, OrderFields DEF SameOrder
      <4> QED
        BY <4>1, <4>4
    <3>3. Claimed(o.id) <= o.filled
      BY <1>1, <1>16 DEF QuantityInv, Covered
    <3> HIDE DEF o, n
    <3>4. id = o.id /\ Claimed(id) \in Nat
      BY <1>8, <2>1, <3>2
    <3> QED
      BY <2>3, <3>1, <3>2, <3>3, <3>4
  <2> QED
    BY <1>5, <2>2, <2>4, <2>5
<1> QED
  BY <1>1, <1>12, <1>15, <1>16 DEF QuantityInv, Covered

LEMMA NextQuantities ==
  ASSUME Core, TradesInv, QuantityInv, [Next]_vars
  PROVE  QuantityInv'
<1>0. \A side \in Side : \A p \in Price : \A i \in DOMAIN book[side][p] :
        \E j \in DOMAIN book[side][p] : book[side][p][i] = book[side][p][j]
  OBVIOUS
<1>1. ASSUME NEW u \in User, NEW r \in Requests, Place(u, r) \/ PlacedInDoubt(u, r)
      PROVE  QuantityInv'
  BY <1>1, InsertQuantities DEF Place, PlacedInDoubt, memory, Insert
<1>2. CASE Match
  BY <1>2, MatchQuantitiesKeep
(* Nothing is settled, and the request ends or waits for a restart.        *)
<1>3. ASSUME crashes' = crashes, ledger' = ledger, asked' = asked, DOMAIN orders' = DOMAIN orders,
             pc' \notin {"settle", "update"},
             \A side \in Side : \A p \in Price : \A i \in DOMAIN book'[side][p] :
               \E j \in DOMAIN book[side][p] : book'[side][p][i] = book[side][p][j]
      PROVE  QuantityInv'
  <2>1. \A id : Claimed(id)' \in Nat /\ Claimed(id)' <= Claimed(id)
    BY <1>3, NothingClaimed
  <2>2. Covered'
    BY <1>3, <2>1, NoMoreClaimed
  <2> QED
    BY <1>3, <2>2 DEF QuantityInv
(* What waited is settled.                                                 *)
<1>4. ASSUME pc = "settle", ledger' = AfterTrades(ledger, Batch), pc' \notin {"settle", "update"},
             orders' = orders, book' = book, asked' = asked, crashes' = crashes
      PROVE  QuantityInv'
  <2>1. \A id : Claimed(id)' \in Nat /\ Claimed(id)' <= Claimed(id)
    BY <1>4, BatchClaimed
  <2>2. Covered'
    BY <1>0, <1>4, <2>1, NoMoreClaimed
  <2> QED
    BY <1>4, <2>2 DEF QuantityInv
<1>5. CASE Settle
  <2>1. /\ pc = "settle" /\ ledger' = AfterTrades(ledger, Batch) /\ pc' = "update" /\ order' = order
        /\ orders' = orders /\ book' = book /\ asked' = asked /\ crashes' = crashes
    BY <1>5 DEF Settle, history
  <2>2. \A id : Claimed(id)' \in Nat /\ Claimed(id)' <= Claimed(id)
    BY <2>1, BatchClaimed
  <2>3. Covered'
    BY <1>0, <2>1, <2>2, NoMoreClaimed
  <2>4. QuantityOf(order.id, ledger.trades)' = order.filled
    <3> PICK id : id = order.id
      OBVIOUS
    <3>1. \A k \in DOMAIN ledger.trades : ledger.trades[k].buy # id /\ ledger.trades[k].sell # id
      BY <2>1 DEF TradesInv, Involves
    <3>2. QuantityOf(id, ledger.trades) = 0
      BY <3>1, QuantityOfNone DEF TradesInv
    <3>3. QuantityOf(id, ledger'.trades) = QuantityOf(id, ledger.trades) + QuantityOf(id, Batch)
      BY <2>1, BatchClaimed
    <3>4. QuantityOf(id, Batch) = order.filled
      BY <2>1 DEF QuantityInv
    <3>5. order.filled \in Nat
      BY <2>1, OrderFields DEF Core, RequestInv
    <3>6. QuantityOf(order.id, ledger.trades)' = QuantityOf(id, ledger'.trades)
      BY <2>1 DEF QuantityOf
    <3> QED
      BY <3>2, <3>3, <3>4, <3>5, <3>6
  <2> QED
    BY <2>1, <2>3, <2>4 DEF QuantityInv
<1>6. CASE SettleRefused
  BY <1>0, <1>3, <1>6 DEF SettleRefused, EndRequest, history
<1>7. CASE UpdateStatus
  <2>1. DOMAIN orders' = DOMAIN orders
    BY <1>7, UpdatedRow
  <2> QED
    BY <1>0, <1>3, <1>7, <2>1 DEF UpdateStatus, EndRequest, history
<1>8. ASSUME NEW id \in OrderId, Cancel(id) PROVE QuantityInv'
  <2>1. /\ book' = Without(book, id) /\ pc' = "mark_cancelled" /\ crashes' = crashes
        /\ ledger' = ledger /\ asked' = asked /\ orders' = orders
    BY <1>8 DEF Cancel, history
  <2>2. book \in Books
    BY DEF Core, BookInv
  <2>3. \A side \in Side : \A p \in Price : \A i \in DOMAIN book'[side][p] :
          \E j \in DOMAIN book[side][p] : book'[side][p][i] = book[side][p][j]
    BY <2>1, <2>2, WithoutOne DEF Core, BookInv
  <2> QED
    BY <1>3, <2>1, <2>3
<1>9. CASE MarkCancelled
  <2>1. DOMAIN orders' = DOMAIN orders
    BY <1>9, MarkedRow
  <2> QED
    BY <1>0, <1>3, <1>9, <2>1 DEF MarkCancelled, EndRequest
<1>10. CASE TransactionFails
  BY <1>0, <1>3, <1>10 DEF TransactionFails, EndRequest
<1>11. CASE SettledInDoubt
  BY <1>4, <1>11 DEF SettledInDoubt, EndRequest
<1>12. CASE Crash
  <2>1. pc' = "down" /\ crashes' # 0
    BY <1>12 DEF Crash, Core, RequestInv
  <2> QED
    BY <2>1 DEF QuantityInv, Covered
<1>13. CASE Restart
  <2>1. pc' = "idle" /\ crashes' # 0
    BY <1>13 DEF Restart, history, Core, RequestInv
  <2> QED
    BY <2>1 DEF QuantityInv, Covered
<1>14. CASE RestartUnloaded
  BY <1>0, <1>3, <1>14 DEF RestartUnloaded
<1>15. CASE UNCHANGED vars
  <2>1. /\ crashes' = crashes /\ ledger' = ledger /\ asked' = asked /\ orders' = orders /\ pc' = pc
        /\ book' = book /\ trades' = trades /\ order' = order
    BY <1>15 DEF vars, memory, history
  <2>2. Batch' = Batch
    BY <2>1 DEF Batch, Billed
  <2>3. \A id : Claimed(id)' \in Nat /\ Claimed(id)' <= Claimed(id)
    <3> SUFFICES ASSUME NEW id PROVE Claimed(id)' \in Nat /\ Claimed(id)' <= Claimed(id)
      OBVIOUS
    <3>1. Claimed(id)' = Claimed(id)
      BY <2>1, <2>2 DEF Claimed, Pending, QuantityOf
    <3>2. Claimed(id) \in Nat
      BY ClaimedIsNat
    <3> QED
      BY <3>1, <3>2
  <2>4. Covered'
    BY <1>0, <2>1, <2>3, NoMoreClaimed
  <2>5. QuantityOf(order.id, Batch)' = QuantityOf(order.id, Batch)
        /\ QuantityOf(order.id, ledger.trades)' = QuantityOf(order.id, ledger.trades)
    BY <2>1, <2>2 DEF QuantityOf
  <2> QED
    BY <2>1, <2>4, <2>5 DEF QuantityInv
<1> QED
  BY <1>1, <1>2, <1>5, <1>6, <1>7, <1>8, <1>9, <1>10, <1>11, <1>12, <1>13, <1>14, <1>15 DEF Next

(* What is traded of an order, settled or about to be, is never more than  *)
(* the book says is filled of it, nor than was asked for, until a restart. *)
(* It may be less: a batch that is refused leaves its fills in the book.   *)
(* Of the order being placed it is what its trades move, no less.          *)
THEOREM QuantitiesHold == Spec => [](Core /\ TradesInv /\ QuantityInv)
<1>1. Init => Core /\ TradesInv /\ QuantityInv
  BY InitCore, InitTrades, InitQuantities
<1>2. (Core /\ TradesInv /\ QuantityInv) /\ [Next]_vars => (Core /\ TradesInv /\ QuantityInv)'
  BY NextCore, NextTrades, NextQuantities
<1> QED
  BY <1>1, <1>2, PTL DEF Spec

LEMMA SettledIsQuantity ==
  ASSUME TradesInv, NEW id
  PROVE  Settled(id) = QuantityOf(id, ledger.trades)
<1>1. Settled(id) = SettledIn(id, ledger.trades)
  BY DEF Settled, SettledIn, TradesWith, SumOver, Where
<1> QED
  BY <1>1, SettledIs DEF TradesInv

(* The filled quantity a client is sent, and the status that follows from  *)
(* it, are what the trades table has of the order.                         *)
THEOREM RepliesAreTrue == Spec => []RepliesAreSettled
<1>1. TradesInv /\ QuantityInv => RepliesAreSettled
  BY SettledIsQuantity DEF QuantityInv, RepliesAreSettled
<1> QED
  BY <1>1, QuantitiesHold, PTL

(* Until a restart the book never offers what is settled, and nobody       *)
(* trades more than was asked for.                                         *)
THEOREM NothingIsOfferedTwice == Spec => []NeverOfferedTwice
<1>1. Core /\ TradesInv /\ QuantityInv => NeverOfferedTwice
  <2> SUFFICES ASSUME Core, TradesInv, QuantityInv, crashes = 0
               PROVE  /\ \A o \in Resting(book) : o.filled >= Settled(o.id)
                      /\ \A id \in DOMAIN orders : Settled(id) <= asked[id].quantity
    BY DEF NeverOfferedTwice
  <2>1. \A id : Settled(id) \in Nat /\ Claimed(id) \in Nat /\ Settled(id) <= Claimed(id)
    <3> SUFFICES ASSUME NEW id
                 PROVE  Settled(id) \in Nat /\ Claimed(id) \in Nat /\ Settled(id) <= Claimed(id)
      OBVIOUS
    <3>1. /\ Claimed(id) \in Nat /\ Pending(id) \in Nat /\ QuantityOf(id, ledger.trades) \in Nat
          /\ Claimed(id) = QuantityOf(id, ledger.trades) + Pending(id)
      BY ClaimedIsNat
    <3> QED
      BY <3>1, SettledIsQuantity
  <2>2. ASSUME NEW o \in Resting(book)
        PROVE  o.filled >= Settled(o.id)
    <3>1. book \in Books
      BY DEF Core, BookInv
    <3>2. PICK side \in Side, p \in Price : \E i \in DOMAIN book[side][p] : book[side][p][i] = o
      BY <3>1, RestsIsHolds
    <3>3. Claimed(o.id) <= o.filled
      BY <3>2 DEF QuantityInv, Covered
    <3>4. o.filled \in Nat
      BY <3>1, <3>2, BookFields, OrderFields
    <3> QED
      BY <2>1, <3>3, <3>4
  <2>3. ASSUME NEW id \in DOMAIN orders
        PROVE  Settled(id) <= asked[id].quantity
    <3>1. Claimed(id) <= asked[id].quantity
      BY DEF QuantityInv, Covered
    <3>2. asked[id].quantity \in Nat
      BY RowFields, StoredIsPrice DEF Core
    <3> QED
      BY <2>1, <3>1, <3>2
  <2> QED
    BY <2>2, <2>3
<1> QED
  BY <1>1, QuantitiesHold, PTL

-----------------------------------------------------------------------------
(* What the trades of a buy cost                                           *)

(* A quotient is cut off to whole gold: it is the greatest that fits.      *)
LEMMA Truncated ==
  ASSUME NEW value \in Nat
  PROVE  /\ value \div Scale \in Nat
         /\ Scale * (value \div Scale) <= value
         /\ \A c \in Nat : Scale * c <= value => c <= value \div Scale
<1>1. Scale \in Nat \ {0}
  BY ScaleAssumption
<1>2. PICK q : q = value \div Scale
  OBVIOUS
<1>3. q \in Nat /\ value = Scale * q + (value % Scale) /\ value % Scale \in 0 .. Scale - 1
  BY <1>1, <1>2
<1>4. PICK r \in 0 .. Scale - 1 : value = Scale * q + r
  BY <1>3
<1>5. Scale * q \in Nat
  BY <1>1, <1>3
<1>6. ASSUME NEW c \in Nat, Scale * c <= value
      PROVE  c <= q
  <2> SUFFICES ASSUME c >= q + 1 PROVE FALSE
    BY <1>3
  <2>1. PICK d \in Nat : c = q + 1 + d
    <3>1. c - (q + 1) \in Nat
      BY <1>3
    <3> QED
      BY <1>3, <3>1
  <2>2. Scale * c = Scale * q + Scale + Scale * d /\ Scale * d \in Nat
    BY <1>1, <1>3, <2>1
  <2> QED
    BY <1>1, <1>4, <1>5, <1>6, <2>2
<1> QED
  BY <1>1, <1>2, <1>3, <1>4, <1>5, <1>6

(* A product of doubles is cut off to whole gold: what is left fits, and   *)
(* is at most one below the greatest that fits.                            *)
LEMMA WholeIs ==
  ASSUME NEW price \in Nat, NEW quantity \in Nat
  PROVE  /\ Whole(price, quantity, Scale) \in Nat
         /\ Scale * Whole(price, quantity, Scale) <= price * quantity
         /\ \A c \in Nat : Scale * c <= price * quantity => c <= Whole(price, quantity, Scale) + 1
<1> DEFINE short == IF <<price, quantity, Scale>> \in FallsShort THEN 1 ELSE 0
<1>1. price * quantity - short \in Nat /\ price * quantity \in Nat /\ short \in {0, 1}
  <2>1. CASE <<price, quantity, Scale>> \in FallsShort
    <3>1. price \in Nat \ {0} /\ quantity \in Nat \ {0}
      BY <2>1, FallsShortAssumption
    <3>2. PICK a \in Nat : price = a + 1
      <4>1. price - 1 \in Nat
        BY <3>1
      <4> QED
        BY <4>1
    <3>3. PICK b \in Nat : quantity = b + 1
      <4>1. quantity - 1 \in Nat
        BY <3>1
      <4> QED
        BY <4>1
    <3>4. price * quantity = a * b + a + b + 1 /\ a * b \in Nat
      BY <3>2, <3>3
    <3> QED
      BY <2>1, <3>4
  <2>2. CASE <<price, quantity, Scale>> \notin FallsShort
    BY <2>2
  <2> QED
    BY <2>1, <2>2
<1>2. PICK value \in Nat : value = price * quantity - short
  BY <1>1
<1>3. Whole(price, quantity, Scale) = value \div Scale
  BY <1>2 DEF Whole
<1> HIDE DEF short
<1>4. PICK w \in Nat : w = value \div Scale
  BY Truncated
<1>5. Scale * w <= value /\ Scale * w \in Nat /\ \A c \in Nat : Scale * c <= value => c <= w
  BY <1>4, Truncated, ScaleAssumption
<1>6. ASSUME NEW c \in Nat, Scale * c <= price * quantity, ~(c <= w + 1)
      PROVE  FALSE
  <2>1. c - 1 \in Nat /\ ~(c - 1 <= w)
    BY <1>6
  <2>2. Scale * (c - 1) = Scale * c - Scale /\ Scale * c \in Nat /\ Scale >= 1
    BY <1>6, ScaleAssumption
  <2>3. Scale * (c - 1) <= value
    BY <1>1, <1>2, <1>6, <2>2, ScaleAssumption
  <2> QED
    BY <1>5, <2>1, <2>3
<1>7. value <= price * quantity
  BY <1>1, <1>2
<1> QED
  BY <1>1, <1>3, <1>4, <1>5, <1>6, <1>7

Costs == [tr \in Billing |-> Cost(tr)]

LEMMA CostsAreNat ==
  ASSUME NEW tr \in Billing
  PROVE  /\ Costs[tr] = Cost(tr) /\ Costs[tr] \in Nat
         /\ Scale * Costs[tr] <= tr.price * tr.quantity
<1>1. tr.price \in Nat /\ tr.quantity \in Nat
  BY BillingFields
<1>2. Costs[tr] = Cost(tr) /\ Cost(tr) = Whole(tr.price, tr.quantity, Scale)
  BY DEF Costs, Cost
<1> QED
  BY <1>1, <1>2, WholeIs

LEMMA ProductIsMonotone ==
  ASSUME NEW a \in Nat, NEW b \in Nat, NEW c \in Nat, a <= b
  PROVE  a * c <= b * c /\ a * c \in Nat /\ b * c \in Nat /\ c * a <= c * b
<1>1. PICK d \in Nat : b = a + d
  <2>1. b - a \in Nat
    OBVIOUS
  <2> QED
    BY <2>1
<1>2. b * c = a * c + d * c /\ d * c \in Nat /\ a * c \in Nat
  BY <1>1
<1> QED
  BY <1>1, <1>2

(* Trades within a price cost, each truncated, no more than that price for *)
(* all that they move.                                                     *)
LEMMA CostsWithin ==
  ASSUME NEW limit \in Nat, NEW T, T = {tr \in Billing : tr.price <= limit}
  PROVE  \A s \in Seq(T) :
           /\ SumOf(Costs, s) \in Nat /\ SumOf(Quantity, s) \in Nat
           /\ Scale * SumOf(Costs, s) <= limit * SumOf(Quantity, s)
<1> DEFINE C == [tr \in T |-> Costs[tr]]
           Q == [tr \in T |-> Quantity[tr]]
           P == {s \in Seq(T) : /\ SumOf(C, s) \in Nat /\ SumOf(Q, s) \in Nat
                                /\ Scale * SumOf(C, s) <= limit * SumOf(Q, s)}
<1>1. Scale \in Nat
  BY ScaleAssumption
<1>2. C \in [T -> Int] /\ Q \in [T -> Int]
  BY CostsAreNat, BillingFields
<1>3. ASSUME NEW x \in T
      PROVE  C[x] \in Nat /\ Q[x] \in Nat /\ Scale * C[x] <= limit * Q[x]
  <2>1. x \in Billing /\ x.price <= limit /\ x.price \in Nat /\ x.quantity \in Nat
        /\ C[x] = Costs[x] /\ Q[x] = x.quantity
    BY BillingFields
  <2>2. C[x] \in Nat /\ Scale * C[x] <= x.price * x.quantity
    BY <2>1, CostsAreNat
  <2>3. x.price * x.quantity <= limit * x.quantity
        /\ x.price * x.quantity \in Nat /\ limit * x.quantity \in Nat
    BY <2>1, ProductIsMonotone
  <2>4. Scale * C[x] \in Nat
    BY <1>1, <2>2
  <2> QED
    BY <2>1, <2>2, <2>3, <2>4
<1> HIDE DEF C, Q
<1>4. <<>> \in P
  <2>1. SumOf(C, <<>>) = 0 /\ SumOf(Q, <<>>) = 0 /\ <<>> \in Seq(T)
    BY SumOfNone, EmptySeq
  <2> QED
    BY <1>1, <2>1
<1>5. ASSUME NEW s \in P \cap Seq(T), NEW x \in T
      PROVE  Append(s, x) \in P
  <2>1. /\ Append(s, x) \in Seq(T)
        /\ SumOf(C, Append(s, x)) = SumOf(C, s) + C[x]
        /\ SumOf(Q, Append(s, x)) = SumOf(Q, s) + Q[x]
    <3>1. s \in Seq(T)
      OBVIOUS
    <3>2. Append(s, x) \in Seq(T)
      BY <3>1, AppendProperties
    <3>3. SumOf(C, Append(s, x)) = SumOf(C, s) + C[x] /\ SumOf(Q, Append(s, x)) = SumOf(Q, s) + Q[x]
      BY ONLY <1>2, <3>1, x \in T, SumOfAppend
    <3> QED
      BY <3>2, <3>3
  <2>2. PICK a \in Nat, b \in Nat : a = SumOf(C, s) /\ b = SumOf(Q, s) /\ Scale * a <= limit * b
    OBVIOUS
  <2>3. PICK c \in Nat, q \in Nat : c = C[x] /\ q = Q[x] /\ Scale * c <= limit * q
    BY <1>3
  <2>4. Scale * (a + c) = Scale * a + Scale * c /\ limit * (b + q) = limit * b + limit * q
        /\ Scale * a \in Nat /\ Scale * c \in Nat /\ limit * b \in Nat /\ limit * q \in Nat
    BY <1>1
  <2>5. Scale * (a + c) <= limit * (b + q)
    <3> PICK sa, sc, lb, lq : sa = Scale * a /\ sc = Scale * c /\ lb = limit * b /\ lq = limit * q
      OBVIOUS
    <3>1. sa \in Nat /\ sc \in Nat /\ lb \in Nat /\ lq \in Nat /\ sa <= lb /\ sc <= lq
      BY <2>2, <2>3, <2>4
    <3>2. sa + sc <= lb + lq
      BY <3>1
    <3> QED
      BY <2>4, <3>2
  <2>6. SumOf(C, Append(s, x)) = a + c /\ SumOf(Q, Append(s, x)) = b + q
        /\ a + c \in Nat /\ b + q \in Nat
    BY ONLY <2>1, <2>2, <2>3, a \in Nat, b \in Nat, c \in Nat, q \in Nat, SMTT(60)
  <2> QED
    BY <2>1, <2>5, <2>6
<1>6. Seq(T) \subseteq P
  <2> HIDE DEF P
  <2> QED
    BY <1>4, <1>5, RowsInduction
<1> SUFFICES ASSUME NEW s \in Seq(T)
             PROVE  SumOf(C, s) = SumOf(Costs, s) /\ SumOf(Q, s) = SumOf(Quantity, s)
  BY <1>6
<1>7. \A k \in DOMAIN s : s[k] \in T
  BY ElementOfSeq, LenProperties
<1>8. /\ [k \in DOMAIN s |-> C[s[k]]] = [k \in DOMAIN s |-> Costs[s[k]]]
      /\ [k \in DOMAIN s |-> Q[s[k]]] = [k \in DOMAIN s |-> Quantity[s[k]]]
  BY <1>7 DEF C, Q
<1> QED
  BY <1>8 DEF SumOf

(* The cost of an order's trades, over the rows Among finds.               *)
CostIn(id, ts) == SumOver(Where(ts, LAMBDA tr : id \in {tr.buy, tr.sell}), Cost)

LEMMA CostInIs ==
  ASSUME NEW ts \in Seq(Billing), NEW id
  PROVE  CostIn(id, ts) = SumOf(Costs, Among(ts, Between(id)))
<1> DEFINE I == {i \in DOMAIN ts : id \in {ts[i].buy, ts[i].sell}}
           J == {i \in DOMAIN ts : ts[i] \in Between(id)}
           found == RowsAt(ts, I)
<1>1. I = J
  <2>1. \A i \in DOMAIN ts : ts[i] \in Billing
    BY ElementOfSeq, LenProperties
  <2> QED
    BY <2>1, BillingFields
<1>2. Among(ts, Between(id)) = found
  BY <1>1 DEF Among
<1>3. found \in Seq(Billing)
  BY RowsAtIsSeq
<1>4. CostIn(id, ts) = Total([k \in DOMAIN found |-> Cost(found[k])])
  BY DEF CostIn, SumOver, Where
<1> HIDE DEF found
<1>5. [k \in DOMAIN found |-> Cost(found[k])] = [k \in DOMAIN found |-> Costs[found[k]]]
  <2>1. \A k \in DOMAIN found : found[k] \in Billing
    BY <1>3, ElementOfSeq, LenProperties
  <2> QED
    BY <2>1, CostsAreNat
<1> QED
  BY <1>2, <1>4, <1>5 DEF SumOf

(* What Among finds is in the table and of the kind that is looked for.    *)
LEMMA AmongFinds ==
  ASSUME NEW S, NEW s \in Seq(S), NEW R, NEW T, \A i \in DOMAIN s : s[i] \in R => s[i] \in T
  PROVE  Among(s, R) \in Seq(T)
<1> DEFINE I == {i \in DOMAIN s : s[i] \in R}
           found == RowsAt(s, I)
<1>1. /\ found \in Seq(S)
      /\ \E place : /\ KeepsOrder(place, found, s)
                    /\ \A k \in DOMAIN found : place[k] \in I /\ found[k] = s[place[k]]
  <2> HIDE DEF I
  <2> QED
    BY FoundInOrder
<1> HIDE DEF found
<1>2. \A k \in DOMAIN found : found[k] \in T
  BY <1>1
<1>3. found = [k \in 1 .. Len(found) |-> found[k]] /\ DOMAIN found = 1 .. Len(found) /\ Len(found) \in Nat
  BY <1>1, LenProperties
<1>4. found \in Seq(T)
  BY <1>2, <1>3
<1> QED
  BY <1>4 DEF Among, found

(* Until a restart the trades of a LIMIT buy, however many they are, cost  *)
(* at most one gold more than validate_buy_order looked for, whichever     *)
(* products fall short.                                                    *)
THEOREM BuysStayWithinValidation == Spec => []CostWithinValidation
<1>1. ASSUME Core, TradesInv, QuantityInv, crashes = 0, NEW id \in DOMAIN orders,
             asked[id].type = "BUY", asked[id].mode = "LIMIT"
      PROVE  SumOver(TradesWith(id), Cost) <= RequiredGold(asked[id], 0) + 1
  <2> DEFINE limit == asked[id].price
             wanted == asked[id].quantity
             T == {tr \in Billing : tr.price <= limit}
             rows == Among(ledger.trades, Between(id))
  <2>1. limit \in Nat /\ wanted \in Nat
    BY <1>1, RowFields, StoredIsPrice, PriceIsNat DEF Core
  <2>2. ledger.trades \in Seq(Billing)
    BY <1>1 DEF TradesInv
  <2>3. \A i \in DOMAIN ledger.trades : ledger.trades[i] \in Between(id) => ledger.trades[i] \in T
    <3> SUFFICES ASSUME NEW i \in DOMAIN ledger.trades, ledger.trades[i] \in Between(id)
                 PROVE  ledger.trades[i] \in T
      OBVIOUS
    <3> DEFINE tr == ledger.trades[i]
    <3>1. IsFair(tr)
      BY <1>1 DEF TradesInv
    <3>2. tr \in Billing /\ id \in {tr.buy, tr.sell}
      BY DEF Between
    <3>3. tr.buy = id
      BY <1>1, <3>1, <3>2 DEF IsFair
    <3>4. tr.price <= limit
      <4>1. 2 * (tr.price - limit) <= 0
        BY <1>1, <3>1, <3>3 DEF IsFair, WithinLimits
      <4> QED
        BY <2>1, <3>2, <4>1, BillingFields
    <3> QED
      BY <3>2, <3>4
  <2>4. rows \in Seq(T)
    <3> HIDE DEF T
    <3> QED
      BY <2>2, <2>3, AmongFinds
  <2>5. /\ SumOf(Costs, rows) \in Nat /\ SumOf(Quantity, rows) \in Nat
        /\ Scale * SumOf(Costs, rows) <= limit * SumOf(Quantity, rows)
    BY <2>1, <2>4, CostsWithin
  <2>6. SumOf(Quantity, rows) <= wanted
    <3>1. SumOf(Quantity, rows) = QuantityOf(id, ledger.trades)
      BY DEF QuantityOf
    <3>2. /\ Claimed(id) \in Nat /\ Pending(id) \in Nat /\ QuantityOf(id, ledger.trades) \in Nat
          /\ Claimed(id) = QuantityOf(id, ledger.trades) + Pending(id)
      BY <1>1, ClaimedIsNat
    <3>3. Claimed(id) <= wanted
      BY <1>1 DEF QuantityInv, Covered
    <3> HIDE DEF wanted
    <3> QED
      BY <2>1, <3>1, <3>2, <3>3
  <2>7. SumOver(TradesWith(id), Cost) = SumOf(Costs, rows)
    <3>1. SumOver(TradesWith(id), Cost) = CostIn(id, ledger.trades)
      BY DEF CostIn, TradesWith, SumOver, Where
    <3> QED
      BY <2>2, <3>1, CostInIs
  <2>8. RequiredGold(asked[id], 0) = Whole(limit, wanted, Scale)
    BY <1>1 DEF RequiredGold
  <2>9. PICK c \in Nat, q \in Nat : c = SumOf(Costs, rows) /\ q = SumOf(Quantity, rows)
    BY <2>5
  <2>10. Scale * c <= limit * q /\ q <= wanted
    BY <2>5, <2>6, <2>9
  <2> HIDE DEF limit, wanted, rows
  <2>11. limit * q <= limit * wanted /\ limit * q \in Nat /\ limit * wanted \in Nat
    BY <2>1, <2>10, ProductIsMonotone
  <2>12. Scale * c <= limit * wanted
    <3>1. Scale * c \in Nat
      BY ScaleAssumption
    <3> QED
      BY <2>10, <2>11, <3>1
  <2>13. c <= Whole(limit, wanted, Scale) + 1
    BY <2>1, <2>12, WholeIs
  <2> QED
    BY <2>7, <2>8, <2>9, <2>13
<1>2. Core /\ TradesInv /\ QuantityInv => CostWithinValidation
  BY <1>1 DEF CostWithinValidation
<1> QED
  BY <1>2, QuantitiesHold, PTL

-----------------------------------------------------------------------------
(* The book is not crossed                                                 *)

(* When something is left of the incoming order, every order it crosses    *)
(* has been given all that it had.                                         *)
LEMMA AllServed ==
  ASSUME NEW queues \in Queues, OpenSide(queues), NEW o \in Order,
         TotalFill(queues, o) < Remaining(o), NEW pos \in Eligible(queues, o)
  PROVE  Fill(queues, o, pos) = Remaining(At(queues, pos))
<1> DEFINE S == RestingAt(queues)
           F == Filled(queues, o)
           G == Owned(queues)
           E == Eligible(queues, o)
           M == Matched(queues, o)
           B == Before(queues, o, pos)
           R == Remaining(o)
           own == Remaining(At(queues, pos))
<1>1. E \in SUBSET S /\ M \in SUBSET E /\ IsFiniteSet(S) /\ pos \in S
  BY FinitelyManyRest DEF Matched, Eligible
<1>2. \A x \in S : Fill(queues, o, x) \in Nat /\ F[x] = Fill(queues, o, x)
  BY FillBounds DEF Filled
<1>3. F \in [S -> Nat] /\ F \in [S -> Int]
  BY FillBounds DEF Filled
<1>4. \A x \in S : G[x] = Remaining(At(queues, x)) /\ G[x] \in Nat
  BY OwnedIsInt DEF OpenSide, Owned
<1>5. G \in [S -> Nat] /\ G \in [S -> Int]
  BY <1>4 DEF Owned
<1>6. R \in Int /\ TotalFill(queues, o) \in Int
  <2>1. R \in Int
    BY OrderFields DEF Remaining
  <2>2. TotalFill(queues, o) = SumFunction([x \in M |-> Fill(queues, o, x)])
    BY DEF TotalFill
  <2>3. [x \in M |-> Fill(queues, o, x)] = [x \in M |-> F[x]]
    BY <1>1, <1>2
  <2>4. TotalFill(queues, o) = SumIn(F, M)
    BY <2>2, <2>3 DEF SumIn
  <2>5. M \in SUBSET S
    BY <1>1
  <2> HIDE DEF S, F, M
  <2> QED
    BY <1>1, <1>3, <2>1, <2>4, <2>5, SumParts
<1>7. TotalFill(queues, o) = SumIn(F, M) /\ R >= 0
  <2>1. TotalFill(queues, o) = SumFunction([x \in M |-> Fill(queues, o, x)])
    BY DEF TotalFill
  <2>2. [x \in M |-> Fill(queues, o, x)] = [x \in M |-> F[x]]
    BY <1>1, <1>2
  <2>3. TotalFill(queues, o) = SumIn(F, M)
    BY <2>1, <2>2 DEF SumIn
  <2>4. SumIn(F, M) \in Nat
    <3> HIDE DEF S, F, M, E
    <3> QED
      BY <1>1, <1>3, SumGrowsWithin
  <2> QED
    BY <1>6, <2>3, <2>4
<1>8. SumIn(F, E) = SumIn(F, M)
  <2>1. \A x \in E : x \notin M => F[x] = 0
    BY <1>1, <1>2 DEF Matched
  <2> HIDE DEF S, F, M, E
  <2> QED
    BY <1>1, <1>3, <2>1, SumWithoutZeros
<1>9. SumIn(F, E) = IF SumIn(G, E) <= R THEN SumIn(G, E) ELSE R
  <2>1. \A x \in E : Before(queues, o, x) \subseteq E
    BY DEF Before
  <2> QED
    BY <1>7, <2>1, FirstServed
<1>10. B \in SUBSET (E \ {pos})
  <2>1. Opposite(o.type) \in Side
    BY OrderFields DEF Opposite, Side
  <2>2. ~Precedes(Opposite(o.type), pos, pos)
    BY <1>1, <2>1, MatchOrderIsTotal DEF IsTotalOrder, MatchOrder
  <2> QED
    BY <2>2 DEF Before
<1>11. Ahead(queues, o, pos) = SumIn(G, B)
  BY <1>1, AheadIsSum
<1>12. own \in Nat /\ own = G[pos]
  BY <1>1, <1>4
<1> HIDE DEF S, F, G, E, M, B, R, own
<1>13. SumIn(G, B) \in Nat /\ SumIn(G, E \ {pos}) \in Nat /\ SumIn(G, B) <= SumIn(G, E \ {pos})
  <2>1. E \ {pos} \in SUBSET S
    BY <1>1
  <2> QED
    BY <1>1, <1>5, <1>10, <2>1, SumGrowsWithin
<1>14. SumIn(G, E) = own + SumIn(G, E \ {pos})
  <2>1. pos \in E
    BY DEF E
  <2> QED
    BY <1>1, <1>5, <1>12, <2>1, SumParts
<1>15. SumIn(G, E) < R
  <2>1. SumIn(G, E) \in Int
    BY <1>12, <1>13, <1>14
  <2> QED
    BY <1>6, <1>7, <1>8, <1>9, <2>1 DEF R
<1>16. R - SumIn(G, B) > own
  BY <1>6, <1>12, <1>13, <1>14, <1>15
<1>17. Fill(queues, o, pos) =
         IF R - Ahead(queues, o, pos) <= 0 THEN 0
         ELSE IF R - Ahead(queues, o, pos) < own THEN R - Ahead(queues, o, pos) ELSE own
  BY DEF Fill, R, own
<1>18. Fill(queues, o, pos) = own
  BY <1>6, <1>11, <1>12, <1>13, <1>16, <1>17
<1> QED
  BY <1>18 DEF own

(* Until a restart, whoever would buy for as much as another asks has      *)
(* bought.                                                                 *)
NotCrossed ==
  crashes = 0 =>
    \A bid, ask \in Price : book["BUY"][bid] # <<>> /\ book["SELL"][ask] # <<>> => bid < ask

(* Levels only empty.                                                      *)
LEMMA StaysUncrossed ==
  ASSUME NotCrossed,
         crashes' = 0 => crashes = 0 /\ \A side \in Side : \A p \in Price :
                                           book[side][p] = <<>> => book'[side][p] = <<>>
  PROVE  NotCrossed'
BY DEF NotCrossed, Side

(* A match leaves no order in the book that another would trade with.      *)
LEMMA MatchUncrosses ==
  ASSUME Core, NotCrossed, Match
  PROVE  NotCrossed'
<1> DEFINE opposite == Opposite(order.type)
           queues == book[opposite]
           left == Incoming(queues, order)
<1>1. /\ pc = "match" /\ book' = AfterMatch(book, order) /\ crashes' = crashes
  BY DEF Match, history
<1>2. order \in Order /\ Remaining(order) >= 0 /\ order.id = Len(orders) /\ ~Holds(book, order.id)
      /\ order.filled = 0
  BY <1>1 DEF Core, RequestInv
<1>3. /\ book \in Books /\ Ranked(book)
      /\ \A side \in Side : \A p \in Price : \A i \in DOMAIN book[side][p] :
           Remaining(book[side][p][i]) > 0
  BY DEF Core, BookInv, Stands
<1>4. \A id : Holds(book, id) => id < order.id
  <2> SUFFICES ASSUME NEW id, Holds(book, id) PROVE id < order.id
    OBVIOUS
  <2>1. id \in 1 .. Len(orders) /\ Len(orders) \in Nat
    BY HeldHasRow, RowFields DEF Core
  <2>2. id # order.id
    BY <1>2
  <2> QED
    BY <1>2, <2>1, <2>2
<1>5. /\ left \in Order /\ left.filled = order.filled + TotalFill(queues, order)
      /\ SameOrder(left, order) /\ book' \in Books
      /\ \A side \in Side : \A p \in Price : \A k \in DOMAIN book'[side][p] :
           \/ /\ book'[side][p][k] = left /\ Remaining(left) > 0
              /\ side = order.type /\ p = order.price /\ order.mode = "LIMIT"
           \/ /\ Remaining(book'[side][p][k]) > 0
              /\ \E j \in DOMAIN book[side][p] :
                   book'[side][p][k] = FilledBy(book[side][p][j], Given(book, order, side, p, j))
  <2>1. OrderId \subseteq Nat
    BY OrderIdIsNat
  <2> QED
    BY <1>1, <1>2, <1>3, <1>4, <2>1, MatchedBook
<1>6. /\ order.type \in Side /\ opposite \in Side /\ opposite # order.type /\ queues \in Queues
      /\ order.price \in Nat
  <2>1. order.type \in Side
    BY <1>2, OrderFields
  <2>2. opposite \in Side /\ opposite # order.type
    BY <2>1 DEF Opposite, Side
  <2> QED
    BY <1>2, <1>3, <2>1, <2>2, OrderFields, PriceIsNat DEF Books
<1>7. OpenSide(queues)
  <2>1. \A pos \in RestingAt(queues) : Remaining(At(queues, pos)) > 0
    BY <1>3, <1>6, PositionsOfSide DEF At
  <2> QED
    BY <2>1 DEF OpenSide
<1>8. \A side \in Side : \A p \in Price :
        /\ book[side][p] \in Seq(Order) /\ book'[side][p] \in Seq(Order)
  BY <1>3, <1>5, BookFields
<1>9. \A side \in Side : \A p \in Price :
        /\ book[side][p] # <<>> <=> 1 \in DOMAIN book[side][p]
        /\ book'[side][p] # <<>> <=> 1 \in DOMAIN book'[side][p]
  <2>1. \A s \in Seq(Order) : s # <<>> <=> 1 \in DOMAIN s
    BY EmptySeq, LenProperties
  <2> QED
    BY <1>8, <2>1
<1> HIDE DEF left, queues, opposite
(* Levels of the other side that the order crosses are empty when          *)
(* something is left of it.                                                *)
<1>10. ASSUME Remaining(left) > 0, NEW p \in Price, book'[opposite][p] # <<>>
       PROVE  ~Crosses(order, p) /\ book[opposite][p] # <<>>
  <2>1. PICK j \in DOMAIN book[opposite][p] :
          /\ Remaining(book'[opposite][p][1]) > 0
          /\ book'[opposite][p][1] = FilledBy(book[opposite][p][j], Given(book, order, opposite, p, j))
    BY <1>5, <1>6, <1>9, <1>10
  <2>2. <<p, j>> \in RestingAt(queues) /\ At(queues, <<p, j>>) = book[opposite][p][j]
    BY <1>6, <2>1, PositionsOfSide DEF queues
  <2>3. ASSUME Crosses(order, p) PROVE FALSE
    <3>1. <<p, j>> \in Eligible(queues, order)
      BY <2>2, <2>3 DEF Eligible
    <3>2. Remaining(left) = order.quantity - TotalFill(queues, order) /\ Remaining(order) = order.quantity
      <4>1. left.quantity = order.quantity
        BY <1>5 DEF SameOrder
      <4>2. TotalFill(queues, order) \in Nat
        BY <1>2, <1>6, <1>7, TotalFillBounds
      <4>3. order.quantity \in Nat
        BY <1>2, OrderFields
      <4> QED
        BY <1>2, <1>5, <4>1, <4>2, <4>3 DEF Remaining
    <3>3. TotalFill(queues, order) < Remaining(order)
      <4>1. TotalFill(queues, order) \in Nat
        BY <1>2, <1>6, <1>7, TotalFillBounds
      <4>2. order.quantity \in Nat
        BY <1>2, OrderFields
      <4> QED
        BY <1>10, <3>2, <4>1, <4>2
    <3>4. Fill(queues, order, <<p, j>>) = Remaining(book[opposite][p][j])
      BY <1>2, <1>6, <1>7, <2>2, <3>1, <3>3, AllServed
    <3>5. Given(book, order, opposite, p, j) = Remaining(book[opposite][p][j])
      BY <3>4 DEF Given, opposite, queues
    <3>6. book[opposite][p][j] \in Order /\ Given(book, order, opposite, p, j) \in Nat
      <4>1. book[opposite][p][j] \in Order
        BY <1>3, <1>6, <2>1, BookFields
      <4> QED
        BY <1>2, <1>3, <1>6, <1>7, <2>1, <4>1, GivenIsNat DEF opposite, queues
    <3>7. Remaining(book'[opposite][p][1]) = Remaining(book[opposite][p][j]) - Given(book, order, opposite, p, j)
      BY <2>1, <3>6, FilledByKeeps
    <3> QED
      BY <2>1, <3>5, <3>6, <3>7
  <2>4. book[opposite][p] # <<>>
    BY <2>1
  <2> QED
    BY <2>3, <2>4
<1>11. ASSUME NEW side \in Side, NEW p \in Price, book'[side][p] # <<>>
       PROVE  \/ book[side][p] # <<>>
              \/ side = order.type /\ p = order.price /\ order.mode = "LIMIT" /\ Remaining(left) > 0
  <2>1. 1 \in DOMAIN book'[side][p]
    BY <1>9, <1>11
  <2>2. CASE \E j \in DOMAIN book[side][p] : TRUE
    BY <2>2
  <2>3. CASE ~\E j \in DOMAIN book[side][p] : TRUE
    BY <1>5, <2>1, <2>3
  <2> QED
    BY <2>2, <2>3
<1>12. ASSUME crashes' = 0, NEW bid \in Price, NEW ask \in Price,
              book'["BUY"][bid] # <<>>, book'["SELL"][ask] # <<>>
       PROVE  bid < ask
  <2>1. "BUY" \in Side /\ "SELL" \in Side /\ bid \in Nat /\ ask \in Nat
    BY PriceIsNat DEF Side
  <2>2. CASE book["BUY"][bid] # <<>> /\ book["SELL"][ask] # <<>>
    BY <1>1, <1>12, <2>2 DEF NotCrossed
  <2>3. CASE book["BUY"][bid] = <<>>
    <3>1. order.type = "BUY" /\ bid = order.price /\ order.mode = "LIMIT" /\ Remaining(left) > 0
      BY <1>11, <1>12, <2>1, <2>3
    <3>2. opposite = "SELL"
      BY <3>1 DEF opposite, Opposite
    <3>3. ~Crosses(order, ask)
      BY <1>10, <1>12, <3>1, <3>2
    <3> QED
      BY <2>1, <3>1, <3>3 DEF Crosses
  <2>4. CASE book["SELL"][ask] = <<>>
    <3>1. order.type = "SELL" /\ ask = order.price /\ order.mode = "LIMIT" /\ Remaining(left) > 0
      BY <1>11, <1>12, <2>1, <2>4
    <3>2. opposite = "BUY"
      BY <3>1 DEF opposite, Opposite
    <3>3. ~Crosses(order, bid)
      BY <1>10, <1>12, <3>1, <3>2
    <3> QED
      BY <2>1, <3>1, <3>3 DEF Crosses
  <2> QED
    BY <2>2, <2>3, <2>4
<1> QED
  BY <1>12 DEF NotCrossed

LEMMA NextUncrossed ==
  ASSUME Core, NotCrossed, [Next]_vars
  PROVE  NotCrossed'
<1>1. CASE Match
  BY <1>1, MatchUncrosses
<1>2. CASE book' = book /\ crashes' = crashes
  BY <1>2, StaysUncrossed
<1>3. ASSUME NEW id \in OrderId, Cancel(id) PROVE NotCrossed'
  <2>1. book' = Without(book, id) /\ crashes' = crashes
    BY <1>3 DEF Cancel, history
  <2>2. book \in Books
    BY DEF Core, BookInv
  <2>3. ASSUME NEW side \in Side, NEW p \in Price, book[side][p] = <<>>
        PROVE  book'[side][p] = <<>>
    <3>1. /\ Without(book, id) \in Books
          /\ \A k \in DOMAIN Without(book, id)[side][p] : \E j \in DOMAIN book[side][p] : TRUE
      BY <2>2, WithoutOne
    <3>2. DOMAIN Without(book, id)[side][p] = {}
      BY <2>3, <3>1
    <3>3. Without(book, id)[side][p] \in Seq(Order)
      BY <3>1, BookFields
    <3>4. \A s \in Seq(Order) : DOMAIN s = {} => s = <<>>
      BY EmptySeq, LenProperties
    <3> QED
      BY <2>1, <3>2, <3>3, <3>4
  <2> QED
    BY <2>1, <2>3, StaysUncrossed
<1>4. CASE Crash \/ Restart
  <2>1. crashes' # 0
    BY <1>4 DEF Crash, Restart, history, Core, RequestInv
  <2> QED
    BY <2>1 DEF NotCrossed
<1>5. \/ Match
      \/ book' = book /\ crashes' = crashes
      \/ \E id \in OrderId : Cancel(id)
      \/ Crash \/ Restart
  BY DEF Next, vars, memory, history, Place, PlacedInDoubt, Match, Settle, SettleRefused,
         UpdateStatus, MarkCancelled,
         TransactionFails, SettledInDoubt, RestartUnloaded
<1> QED
  BY <1>1, <1>2, <1>3, <1>4, <1>5

(* As long as the server has not restarted, whoever would buy for as much  *)
(* as another asks has bought.                                             *)
THEOREM BookIsUncrossed == Spec => [](Core /\ NotCrossed)
<1>1. Init => Core /\ NotCrossed
  <2>1. Init => NotCrossed
    BY DEF Init, NotCrossed, EmptyQueues, Side
  <2> QED
    BY <2>1, InitCore
<1>2. (Core /\ NotCrossed) /\ [Next]_vars => (Core /\ NotCrossed)'
  BY NextCore, NextUncrossed
<1> QED
  BY <1>1, <1>2, PTL DEF Spec

-----------------------------------------------------------------------------
(* The types *)

LEMMA RankOfIsRank ==
  ASSUME NEW xp \in Nat
  PROVE  RankOf(xp) \in Rank
<1>1. PICK base \in Rank : Threshold[base] = 0
  BY ThresholdAssumption DEF Rank
<1>2. Threshold \in [Rank -> Nat]
  BY ThresholdAssumption DEF Rank
<1>3. \E r \in Rank : /\ Threshold[r] <= xp
                     /\ \A s \in Rank : Threshold[s] <= xp => Threshold[s] <= Threshold[r]
  BY <1>1, <1>2, HighestExists
<1> QED
  BY <1>3, Zenon DEF RankOf

(* What any of the trades move is a whole number of gold pieces or cards.  *)
LEMMA SumOfRowsType ==
  ASSUME NEW rows \in Seq(Billing)
  PROVE  /\ Total([k \in DOMAIN rows |-> Cost(rows[k])]) \in Int
         /\ Total([k \in DOMAIN rows |-> rows[k].quantity]) \in Int
<1> DEFINE costs == [k \in 1 .. Len(rows) |-> Cost(rows[k])]
           cards == [k \in 1 .. Len(rows) |-> rows[k].quantity]
<1>1. /\ Len(rows) \in Nat /\ DOMAIN rows = 1 .. Len(rows)
      /\ \A k \in 1 .. Len(rows) : rows[k] \in Billing
  BY LenProperties, ElementOfSeq
<1>2. \A k \in 1 .. Len(rows) : Cost(rows[k]) \in Int /\ rows[k].quantity \in Int
  <2> SUFFICES ASSUME NEW k \in 1 .. Len(rows)
               PROVE  Cost(rows[k]) \in Int /\ rows[k].quantity \in Int
    OBVIOUS
  <2>1. rows[k] \in Billing
    BY <1>1
  <2>2. Cost(rows[k]) \in Nat /\ rows[k].quantity \in Nat
    BY <2>1, CostsAreNat, BillingFields
  <2> QED
    BY <2>2
<1>3. costs \in Seq(Int) /\ cards \in Seq(Int)
  BY <1>1, <1>2
<1>4. Total(costs) \in Int /\ Total(cards) \in Int
  <2> HIDE DEF costs, cards
  <2> QED
    BY <1>3, TotalIsInt
<1> QED
  BY <1>1, <1>4

LEMMA SettlingTypes ==
  ASSUME NEW u, NEW ts \in Seq(Billing)
  PROVE  GoldFlow(u, ts) \in Int /\ CardFlow(u, ts) \in Int /\ Sides(u, ts) \in Nat
<1>1. BoughtBy(u, ts) \in Seq(Billing) /\ SoldBy(u, ts) \in Seq(Billing)
  BY RowsAtIsSeq DEF BoughtBy, SoldBy, Where
<1>2. GoldFlow(u, ts) \in Int
  <2>1. /\ SumOver(SoldBy(u, ts), Cost) \in Int
        /\ SumOver(BoughtBy(u, ts), Cost) \in Int
    BY <1>1, SumOfRowsType DEF SumOver
  <2> QED
    BY <2>1 DEF GoldFlow
<1>3. CardFlow(u, ts) \in Int
  <2> DEFINE bought == Total([k \in DOMAIN BoughtBy(u, ts) |-> BoughtBy(u, ts)[k].quantity])
             sold   == Total([k \in DOMAIN SoldBy(u, ts) |-> SoldBy(u, ts)[k].quantity])
  <2>1. bought \in Int /\ sold \in Int
    BY <1>1, SumOfRowsType
  <2>2. CardFlow(u, ts) = bought - sold
    BY DEF CardFlow, SumOver
  <2> HIDE DEF bought, sold
  <2> QED
    BY <2>1, <2>2
<1>4. Sides(u, ts) \in Nat
  <2>1. Len(BoughtBy(u, ts)) \in Nat /\ Len(SoldBy(u, ts)) \in Nat
    BY <1>1, LenProperties
  <2> QED
    BY <2>1 DEF Sides
<1> QED
  BY <1>2, <1>3, <1>4

LEMMA AfterTradesIsLedger ==
  ASSUME NEW l, IsLedger(l), NEW ts \in Seq(Billing)
  PROVE  IsLedger(AfterTrades(l, ts))
<1> DEFINE gold  == [u \in User |-> l.gold[u] + GoldFlow(u, ts)]
           cards == [u \in User |-> l.cards[u] + CardFlow(u, ts)]
           xp    == [u \in User |-> l.xp[u] + TradeXp * Sides(u, ts)]
           level == [u \in User |-> IF Sides(u, ts) > 0 THEN RankOf(xp[u]) ELSE l.level[u]]
           all   == [gold |-> gold, cards |-> cards, xp |-> xp, level |-> level,
                     trades |-> l.trades \o ts]
<1>1. AfterTrades(l, ts) = all
  BY DEF AfterTrades
<1>2. ASSUME NEW u \in User
      PROVE  /\ l.gold[u] + GoldFlow(u, ts) \in Int /\ l.cards[u] + CardFlow(u, ts) \in Int
             /\ l.xp[u] + TradeXp * Sides(u, ts) \in Nat /\ l.level[u] \in Rank
  <2>1. GoldFlow(u, ts) \in Int /\ CardFlow(u, ts) \in Int /\ Sides(u, ts) \in Nat
    BY SettlingTypes
  <2>2. l.gold[u] \in Int /\ l.cards[u] \in Int /\ l.xp[u] \in Nat /\ l.level[u] \in Rank
    BY DEF IsLedger
  <2>3. TradeXp * Sides(u, ts) \in Nat
    BY <2>1, XpAssumption
  <2> QED
    BY <2>1, <2>2, <2>3
<1>3. gold \in [User -> Int] /\ cards \in [User -> Int] /\ xp \in [User -> Nat]
  BY <1>2
<1>4. level \in [User -> Rank]
  <2> HIDE DEF xp
  <2> QED
    BY <1>2, <1>3, RankOfIsRank
<1> HIDE DEF gold, cards, xp, level
<1> QED
  BY <1>1, <1>3, <1>4 DEF IsLedger

(* Between requests, and before it has matched, there are no trades to     *)
(* settle.                                                                 *)
LedgerInv == IsLedger(ledger) /\ (trades # <<>> => pc \in {"settle", "update"})

LEMMA NextLedger ==
  ASSUME Core, TradesInv, LedgerInv, [Next]_vars
  PROVE  LedgerInv'
<1>1. pc = "settle" => IsLedger(AfterTrades(ledger, Batch))
  BY BatchIs, AfterTradesIsLedger DEF LedgerInv
<1>2. ASSUME NEW u \in User, NEW r \in Requests, Place(u, r) \/ PlacedInDoubt(u, r)
      PROVE  LedgerInv'
  BY <1>2 DEF Place, PlacedInDoubt, Insert, memory, LedgerInv
<1>3. CASE Match
  BY <1>3 DEF Match, LedgerInv
<1>4. CASE Settle
  BY <1>1, <1>4 DEF Settle, LedgerInv
<1>5. CASE SettleRefused
  BY <1>5 DEF SettleRefused, EndRequest, LedgerInv
<1>6. CASE UpdateStatus
  BY <1>6 DEF UpdateStatus, EndRequest, LedgerInv
<1>7. ASSUME NEW id \in OrderId, Cancel(id) PROVE LedgerInv'
  BY <1>7 DEF Cancel, LedgerInv
<1>8. CASE MarkCancelled
  BY <1>8 DEF MarkCancelled, EndRequest, LedgerInv
<1>9. CASE TransactionFails
  BY <1>9 DEF TransactionFails, EndRequest, LedgerInv
<1>10. CASE SettledInDoubt
  BY <1>1, <1>10 DEF SettledInDoubt, EndRequest, LedgerInv
<1>11. CASE Crash
  BY <1>11 DEF Crash, LedgerInv
<1>12. CASE Restart \/ RestartUnloaded
  BY <1>12 DEF Restart, RestartUnloaded, LedgerInv
<1>13. CASE UNCHANGED vars
  BY <1>13 DEF vars, memory, LedgerInv
<1> QED
  BY <1>2, <1>3, <1>4, <1>5, <1>6, <1>7, <1>8, <1>9, <1>10, <1>11, <1>12, <1>13 DEF Next

(* Each step of a request finds what it needs, the row of the order it     *)
(* places or cancels, and the ledger stays a ledger, for any players,      *)
(* requests, faults and crashes.                                           *)
THEOREM OrderServiceTypes == Spec => []TypeOK
<1>1. Init => LedgerInv
  BY OpeningLedgerAssumption DEF Init, LedgerInv
<1>2. (Core /\ TradesInv /\ LedgerInv) /\ [Next]_vars => LedgerInv'
  BY NextLedger
<1>3. Core /\ LedgerInv => TypeOK
  BY DEF Core, RowsInv, BookInv, RequestInv, Books, LedgerInv, TypeOK
<1>4. Spec => []LedgerInv
  BY <1>1, <1>2, TradesHold, PTL DEF Spec
<1> QED
  BY <1>3, <1>4, CoreHolds, PTL
=============================================================================
