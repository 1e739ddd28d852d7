----------------------------- MODULE RowsProofs -----------------------------
(***************************************************************************)
(* Facts about sums and selections of rows, for all sequences.  They rest  *)
(* on induction, which is stated here over sets: a set that contains 0 and *)
(* the successor of each of its members contains the natural numbers.      *)
(***************************************************************************)
EXTENDS Rows, FiniteSetsExt, SequenceTheorems, FiniteSetTheorems, WellFoundedInduction, TLAPS

(* The counterexamples to n \in S would have a least member.               *)
THEOREM SetInduction ==
  ASSUME NEW S, 0 \in S, \A n \in S \cap Nat : n + 1 \in S
  PROVE  Nat \subseteq S
<1> DEFINE less == OpToRel(<, Nat)
           T == Nat \ S
<1>1. ASSUME T # {}
      PROVE  \E x \in T : \A y \in T : <<y, x>> \notin less
  <2>1. IsWellFoundedOn(less, Nat) /\ T \subseteq Nat
    BY NatLessThanWellFounded, Zenon
  <2> HIDE DEF less, T
  <2> QED
    BY <1>1, <2>1, WFMin
<1>2. ASSUME NEW y \in Nat, NEW x \in Nat, y < x
      PROVE  <<y, x>> \in less
  BY <1>2, Zenon DEF OpToRel
<1> HIDE DEF less
<1>3. ASSUME NEW x \in T, \A y \in T : <<y, x>> \notin less
      PROVE  FALSE
  <2>1. x - 1 \in Nat /\ x - 1 < x
    OBVIOUS
  <2>2. x - 1 \in S \cap Nat
    BY <1>2, <1>3, <2>1
  <2>3. (x - 1) + 1 \in S
    BY <2>2
  <2> QED
    BY <2>3
<1> QED
  BY <1>1, <1>3

(* Of the thresholds up to n, of which there is one, one is the highest.   *)
THEOREM HighestExists ==
  ASSUME NEW R, NEW T \in [R -> Nat], NEW base \in R, T[base] = 0, NEW n \in Nat
  PROVE  \E r \in R : T[r] <= n /\ \A s \in R : T[s] <= n => T[s] <= T[r]
<1> DEFINE IsHighest(m, r) == T[r] <= m /\ \A s \in R : T[s] <= m => T[s] <= T[r]
           P == {m \in Nat : \E r \in R : IsHighest(m, r)}
<1>1. 0 \in P
  BY SMTT(30)
<1>2. ASSUME NEW m \in P \cap Nat PROVE m + 1 \in P
  <2>1. CASE \E r \in R : T[r] = m + 1
    BY <2>1, SMTT(30)
  <2>2. CASE \A r \in R : T[r] # m + 1
    <3>1. \A r \in R : T[r] <= m + 1 <=> T[r] <= m
      BY <2>2, SMTT(30)
    <3>2. PICK r \in R : IsHighest(m, r)
      OBVIOUS
    <3>3. IsHighest(m + 1, r)
      BY <3>1, <3>2
    <3> HIDE DEF IsHighest
    <3> QED
      BY <3>3
  <2> QED
    BY <2>1, <2>2
<1>3. Nat \subseteq P
  <2> HIDE DEF P
  <2> QED
    BY <1>1, <1>2, SetInduction
<1> QED
  BY <1>3

(* The same over sequences: a set that contains the empty sequence and is  *)
(* closed under Append contains every sequence.                            *)
THEOREM RowsInduction ==
  ASSUME NEW S, NEW P, <<>> \in P,
         \A s \in P \cap Seq(S), x \in S : Append(s, x) \in P
  PROVE  Seq(S) \subseteq P
<1> DEFINE N == {n \in Nat : \A s \in Seq(S) : Len(s) = n => s \in P}
<1>1. 0 \in N
  BY EmptySeq
<1>2. ASSUME NEW n \in N \cap Nat PROVE n + 1 \in N
  <2> SUFFICES ASSUME NEW s \in Seq(S), Len(s) = n + 1 PROVE s \in P
    OBVIOUS
  <2> DEFINE front == SubSeq(s, 1, n)
  <2>1. /\ front \in Seq(S) /\ Len(front) = n
        /\ s[n + 1] \in S
        /\ s = Append(front, s[n + 1])
    <3>1. Len(s) # 0 /\ n \in Nat /\ n = Len(s) - 1
      BY <1>2
    <3>2. front \in Seq(S) /\ Len(front) = n /\ \A i \in 1 .. n : front[i] = s[i]
      BY <3>1, SubSeqProperties
    <3>3. s[n + 1] \in S
      BY <3>1, ElementOfSeq
    <3> DEFINE t == Append(front, s[n + 1])
    <3>4. t \in Seq(S) /\ Len(t) = n + 1 /\ \A i \in 1 .. n + 1 : t[i] = s[i]
      <4> HIDE DEF front
      <4> QED
        BY <3>1, <3>2, <3>3, AppendProperties
    <3>5. t = s
      <4> HIDE DEF t
      <4> QED
        BY <3>4, SeqEqual
    <3> QED
      BY <3>2, <3>3, <3>5
  <2>2. front \in P
    BY <2>1, <1>2
  <2> QED
    BY <2>1, <2>2
<1>3. Nat \subseteq N
  <2> HIDE DEF N
  <2> QED
    BY <1>1, <1>2, SetInduction
<1> QED
  BY <1>3, LenProperties

-----------------------------------------------------------------------------
(* A recursive function that maps the places 0 .. n to V: f[0] is given,   *)
(* and f[i] is the step G from the place i and f[i - 1].                   *)
IsRecursive(f, n, V, base, G) ==
  /\ \A i \in 0 .. n : f[i] \in V
  /\ f[0] = base
  /\ \A i \in 1 .. n : f[i] = G[i][f[i - 1]]

(* A function defined by recursion over 0 .. n exists.                     *)
THEOREM RecursionExists ==
  ASSUME NEW n \in Nat, NEW V, NEW base \in V, NEW G \in [1 .. n -> [V -> V]]
  PROVE  \E f \in [0 .. n -> V] : IsRecursive(f, n, V, base, G)
<1> DEFINE P == {m \in Nat : m <= n => \E f \in [0 .. m -> V] : IsRecursive(f, m, V, base, G)}
<1>1. 0 \in P
  <2> DEFINE f == [i \in 0 .. 0 |-> base]
  <2>1. f \in [0 .. 0 -> V] /\ IsRecursive(f, 0, V, base, G)
    BY DEF IsRecursive
  <2> QED
    BY <2>1
<1>2. ASSUME NEW m \in P \cap Nat PROVE m + 1 \in P
  <2> SUFFICES ASSUME m + 1 <= n
               PROVE  \E f \in [0 .. m + 1 -> V] : IsRecursive(f, m + 1, V, base, G)
    OBVIOUS
  <2>1. PICK f \in [0 .. m -> V] : IsRecursive(f, m, V, base, G)
    OBVIOUS
  <2>2. f[m] \in V /\ G[m + 1][f[m]] \in V
    BY <2>1 DEF IsRecursive
  <2> DEFINE g == [i \in 0 .. m + 1 |-> IF i = m + 1 THEN G[m + 1][f[m]] ELSE f[i]]
  <2>3. /\ g \in [0 .. m + 1 -> V] /\ g[m + 1] = G[m + 1][f[m]]
        /\ \A i \in 0 .. m : g[i] = f[i]
    BY <2>1, <2>2 DEF IsRecursive
  <2> HIDE DEF g
  <2>4. g[0] = base
    BY <2>1, <2>3 DEF IsRecursive
  <2>5. \A i \in 1 .. m + 1 : g[i] = G[i][g[i - 1]]
    <3> SUFFICES ASSUME NEW i \in 1 .. m + 1 PROVE g[i] = G[i][g[i - 1]]
      OBVIOUS
    <3>1. CASE i = m + 1
      <4>1. i - 1 = m /\ g[m] = f[m]
        BY <2>3, <3>1
      <4> QED
        BY <2>3, <3>1, <4>1
    <3>2. CASE i # m + 1
      <4>1. i \in 1 .. m /\ i \in 0 .. m /\ i - 1 \in 0 .. m
        BY <3>2
      <4>2. f[i] = G[i][f[i - 1]]
        BY <2>1, <4>1 DEF IsRecursive
      <4>3. g[i] = f[i] /\ g[i - 1] = f[i - 1]
        BY <2>3, <4>1
      <4> QED
        BY <4>2, <4>3
    <3> QED
      BY <3>1, <3>2
  <2>6. IsRecursive(g, m + 1, V, base, G)
    BY <2>3, <2>4, <2>5 DEF IsRecursive
  <2> QED
    BY <2>3, <2>6
<1>3. Nat \subseteq P
  <2> HIDE DEF P
  <2> QED
    BY <1>1, <1>2, SetInduction
<1> QED
  BY <1>3

(* Where the steps agree, so do the functions.                             *)
THEOREM RecursionUnique ==
  ASSUME NEW m \in Nat, NEW V, NEW base, NEW f, NEW G, NEW g, NEW H,
         IsRecursive(f, m, V, base, G), IsRecursive(g, m, V, base, H),
         \A i \in 1 .. m, v \in V : G[i][v] = H[i][v]
  PROVE  f[m] = g[m]
<1> DEFINE P == {j \in Nat : j <= m => f[j] = g[j]}
<1>1. 0 \in P
  BY DEF IsRecursive
<1>2. ASSUME NEW j \in P \cap Nat PROVE j + 1 \in P
  <2> SUFFICES ASSUME j + 1 <= m PROVE f[j + 1] = g[j + 1]
    OBVIOUS
  <2>1. j + 1 \in 1 .. m /\ (j + 1) - 1 = j /\ j \in 0 .. m
    OBVIOUS
  <2>2. f[j + 1] = G[j + 1][f[j]] /\ g[j + 1] = H[j + 1][g[j]]
    BY <2>1 DEF IsRecursive
  <2>3. f[j] \in V /\ f[j] = g[j]
    BY <2>1 DEF IsRecursive
  <2> QED
    BY <2>1, <2>2, <2>3
<1>3. Nat \subseteq P
  <2> HIDE DEF P
  <2> QED
    BY <1>1, <1>2, SetInduction
<1> QED
  BY <1>3

-----------------------------------------------------------------------------
(* Sums *)

SumStep(s) == [i \in 1 .. Len(s) |-> [v \in Int |-> v + s[i]]]

LEMMA RunningTotalDef ==
  ASSUME NEW s \in Seq(Int)
  PROVE  /\ RunningTotal(s) \in [0 .. Len(s) -> Int]
         /\ IsRecursive(RunningTotal(s), Len(s), Int, 0, SumStep(s))
<1> DEFINE n == Len(s)
           Def(f) == [i \in 0 .. n |-> IF i = 0 THEN 0 ELSE f[i - 1] + s[i]]
<1>1. n \in Nat /\ SumStep(s) \in [1 .. n -> [Int -> Int]]
      /\ \A i \in 1 .. n, v \in Int : SumStep(s)[i][v] = v + s[i]
  BY LenProperties DEF SumStep
<1>2. RunningTotal(s) = CHOOSE f : f = Def(f)
  BY DEF RunningTotal
<1> HIDE DEF n
<1>3. PICK f \in [0 .. n -> Int] : IsRecursive(f, n, Int, 0, SumStep(s))
  <2>1. n \in Nat /\ 0 \in Int
    BY <1>1
  <2>2. SumStep(s) \in [1 .. n -> [Int -> Int]]
    BY <1>1
  <2> QED
    BY <2>1, <2>2, RecursionExists
<1>4. f = Def(f)
  <2>1. ASSUME NEW i \in 0 .. n, i # 0 PROVE f[i] = f[i - 1] + s[i]
    <3>1. i \in 1 .. n /\ f[i - 1] \in Int
      BY <1>1, <1>3, <2>1
    <3> QED
      BY <1>1, <1>3, <3>1 DEF IsRecursive
  <2>2. f[0] = 0
    BY <1>3 DEF IsRecursive
  <2>3. \A i \in 0 .. n : f[i] = IF i = 0 THEN 0 ELSE f[i - 1] + s[i]
    BY <2>1, <2>2
  <2> QED
    BY <1>3, <2>3
<1> DEFINE g == RunningTotal(s)
<1>5. g = Def(g)
  BY <1>2, <1>4, Zenon
<1> HIDE DEF g
<1>6. /\ g[0] = 0
      /\ \A i \in 1 .. n : g[i] = g[i - 1] + s[i]
  <2>1. \A i \in 0 .. n : g[i] = IF i = 0 THEN 0 ELSE g[i - 1] + s[i]
    <3>1. \A i \in 0 .. n : Def(g)[i] = IF i = 0 THEN 0 ELSE g[i - 1] + s[i]
      OBVIOUS
    <3> HIDE DEF Def
    <3> QED
      BY <3>1, <1>5
  <2> QED
    BY <1>1, <2>1
<1>7. \A i \in 1 .. n : i \in 0 .. n /\ i - 1 \in 0 .. n /\ s[i] \in Int
  BY <1>1, ElementOfSeq DEF n
<1> HIDE DEF Def
<1>8. \A i \in 0 .. n : g[i] \in Int
  <2> DEFINE P == {j \in Nat : j <= n => g[j] \in Int}
  <2>1. 0 \in P
    BY <1>6
  <2>2. ASSUME NEW j \in P \cap Nat PROVE j + 1 \in P
    <3> SUFFICES ASSUME j + 1 <= n PROVE g[j + 1] \in Int
      OBVIOUS
    <3>1. j + 1 \in 1 .. n /\ (j + 1) - 1 = j /\ g[j] \in Int
      BY <1>1
    <3> QED
      BY <1>6, <1>7, <3>1
  <2>3. Nat \subseteq P
    <3> HIDE DEF P
    <3> QED
      BY <2>1, <2>2, SetInduction
  <2> QED
    BY <1>1, <2>3
<1>9. g \in [0 .. n -> Int]
  <2>1. g = [i \in 0 .. n |-> g[i]]
    BY <1>5 DEF Def
  <2> QED
    BY <1>8, <2>1
<1>10. IsRecursive(g, n, Int, 0, SumStep(s))
  BY <1>1, <1>6, <1>7, <1>8 DEF IsRecursive
<1> QED
  BY <1>9, <1>10 DEF g, n

(* The sum of no numbers is 0.                                             *)
THEOREM TotalEmpty == Total(<<>>) = 0
<1>1. IsRecursive(RunningTotal(<<>>), 0, Int, 0, SumStep(<<>>))
  BY RunningTotalDef, EmptySeq
<1> QED
  BY <1>1 DEF IsRecursive, Total

(* The sum of a column is an integer.                                      *)
THEOREM TotalIsInt ==
  ASSUME NEW s \in Seq(Int)
  PROVE  Total(s) \in Int
BY RunningTotalDef, LenProperties DEF Total

(* One more number adds itself to the sum.                                 *)
THEOREM TotalAppend ==
  ASSUME NEW s \in Seq(Int), NEW x \in Int
  PROVE  Total(Append(s, x)) = Total(s) + x
<1> DEFINE t == Append(s, x)
           f == RunningTotal(s)
           g == RunningTotal(t)
           n == Len(s)
<1>1. /\ t \in Seq(Int) /\ n \in Nat /\ Len(t) = n + 1 /\ t[n + 1] = x
      /\ \A i \in 1 .. n : s[i] = t[i]
  BY AppendProperties, LenProperties
<1>2. /\ f \in [0 .. n -> Int]
      /\ IsRecursive(f, n, Int, 0, SumStep(s))
      /\ g \in [0 .. n + 1 -> Int]
      /\ IsRecursive(g, n + 1, Int, 0, SumStep(t))
  BY <1>1, RunningTotalDef
<1>3. Total(s) = f[n] /\ Total(t) = g[Len(t)]
  BY DEF Total
<1>4. ASSUME NEW i \in 1 .. n, NEW v \in Int
      PROVE  SumStep(s)[i][v] = SumStep(t)[i][v]
  <2> HIDE DEF t
  <2>1. i \in 1 .. Len(s) /\ i \in 1 .. Len(t) /\ s[i] = t[i]
    BY <1>1
  <2> QED
    BY <2>1 DEF SumStep
<1>5. SumStep(t)[n + 1][g[n]] = g[n] + x
  <2> HIDE DEF t, g, n
  <2>1. n + 1 \in 1 .. Len(t) /\ g[n] \in Int
    BY <1>1, <1>2
  <2> QED
    BY <1>1, <2>1 DEF SumStep
<1> HIDE DEF t, f, g, n
<1>6. f[n] = g[n]
  <2>1. n \in Nat /\ f \in [0 .. n -> Int]
    BY <1>1, <1>2
  <2>2. IsRecursive(f, n, Int, 0, SumStep(s)) /\ IsRecursive(g, n, Int, 0, SumStep(t))
    BY <1>1, <1>2 DEF IsRecursive
  <2>3. \A i \in 1 .. n, v \in Int : SumStep(s)[i][v] = SumStep(t)[i][v]
    BY <1>4
  <2> QED
    BY <2>1, <2>2, <2>3, RecursionUnique
<1>7. g[n + 1] = SumStep(t)[n + 1][g[n]]
  <2>1. n + 1 \in 1 .. n + 1 /\ (n + 1) - 1 = n
    BY <1>1
  <2> QED
    BY <1>2, <2>1 DEF IsRecursive
<1> QED
  BY <1>1, <1>3, <1>5, <1>6, <1>7 DEF t

(* The sum of a column of computed numbers, one more row being added.      *)
THEOREM ColumnAppend ==
  ASSUME NEW T, NEW rows \in Seq(T), NEW x \in T, NEW F \in [T -> Int]
  PROVE  /\ Total([k \in DOMAIN rows |-> F[rows[k]]]) \in Int
         /\ Total([k \in DOMAIN Append(rows, x) |-> F[Append(rows, x)[k]]])
              = Total([k \in DOMAIN rows |-> F[rows[k]]]) + F[x]
<1> DEFINE more == Append(rows, x)
           n == Len(rows)
           old == [k \in DOMAIN rows |-> F[rows[k]]]
           new == [k \in DOMAIN more |-> F[more[k]]]
<1>1. /\ n \in Nat /\ DOMAIN rows = 1 .. n /\ \A k \in 1 .. n : rows[k] \in T
      /\ more \in Seq(T) /\ DOMAIN more = 1 .. n + 1 /\ more[n + 1] = x
      /\ \A k \in 1 .. n : more[k] = rows[k]
  BY AppendProperties, LenProperties, ElementOfSeq
<1> HIDE DEF more, n
<1>2. old \in Seq(Int) /\ Len(old) = n /\ \A k \in 1 .. n : old[k] = F[rows[k]]
  <2>1. old \in [1 .. n -> Int]
    BY <1>1
  <2>2. \A k \in 1 .. n : old[k] = F[rows[k]]
    BY <1>1
  <2> HIDE DEF old
  <2> QED
    BY <1>1, <2>1, <2>2
<1>3. new \in [1 .. n + 1 -> Int]
  <2>1. \A k \in 1 .. n + 1 : more[k] \in T
    BY <1>1
  <2> QED
    BY <1>1, <2>1
<1>4. \A k \in 1 .. n + 1 : new[k] = F[more[k]]
  BY <1>1
<1> HIDE DEF old, new
<1>5. Append(old, F[x]) \in Seq(Int) /\ Len(Append(old, F[x])) = n + 1
      /\ Append(old, F[x])[n + 1] = F[x]
      /\ \A k \in 1 .. n : Append(old, F[x])[k] = old[k]
  BY <1>2, AppendProperties
<1>6. new = Append(old, F[x])
  <2>1. new \in Seq(Int) /\ Len(new) = n + 1
    BY <1>1, <1>3
  <2>2. \A k \in 1 .. n + 1 : new[k] = Append(old, F[x])[k]
    <3> SUFFICES ASSUME NEW k \in 1 .. n + 1 PROVE new[k] = Append(old, F[x])[k]
      OBVIOUS
    <3>1. CASE k = n + 1
      BY <1>1, <1>4, <1>5, <3>1
    <3>2. CASE k # n + 1
      <4>1. k \in 1 .. n
        BY <1>1, <3>2
      <4> QED
        BY <1>1, <1>2, <1>4, <1>5, <4>1
    <3> QED
      BY <3>1, <3>2
  <2> QED
    BY <1>5, <2>1, <2>2, SeqEqual
<1>7. Total(old) \in Int /\ Total(Append(old, F[x])) = Total(old) + F[x]
  BY <1>2, TotalIsInt, TotalAppend
<1> QED
  BY <1>6, <1>7 DEF old, new, more

-----------------------------------------------------------------------------
(* Selections *)

RowStep(s, I, S) ==
  [i \in 1 .. Len(s) |-> [v \in Seq(S) |-> IF i \in I THEN Append(v, s[i]) ELSE v]]

LEMMA RunningRowsDef ==
  ASSUME NEW S, NEW s \in Seq(S), NEW I
  PROVE  /\ RunningRows(s, I) \in [0 .. Len(s) -> Seq(S)]
         /\ IsRecursive(RunningRows(s, I), Len(s), Seq(S), <<>>, RowStep(s, I, S))
<1> DEFINE n == Len(s)
           Next(f, i) == IF i \in I THEN Append(f[i - 1], s[i]) ELSE f[i - 1]
           Def(f) == [i \in 0 .. n |-> IF i = 0 THEN <<>> ELSE Next(f, i)]
<1>1. n \in Nat /\ \A i \in 1 .. n : s[i] \in S
  BY LenProperties, ElementOfSeq
<1>2. \A i \in 1 .. n : \A v \in Seq(S) :
        RowStep(s, I, S)[i][v] = IF i \in I THEN Append(v, s[i]) ELSE v
  BY DEF RowStep
<1>3. RowStep(s, I, S) \in [1 .. n -> [Seq(S) -> Seq(S)]]
  BY <1>1, AppendProperties DEF RowStep
<1>4. RunningRows(s, I) = CHOOSE f : f = Def(f)
  BY DEF RunningRows
<1> HIDE DEF n
<1>5. PICK f \in [0 .. n -> Seq(S)] : IsRecursive(f, n, Seq(S), <<>>, RowStep(s, I, S))
  BY <1>1, <1>3, EmptySeq, RecursionExists
<1>6. f = Def(f)
  <2>1. ASSUME NEW i \in 0 .. n, i # 0 PROVE f[i] = Next(f, i)
    <3>1. i \in 1 .. n /\ f[i - 1] \in Seq(S)
      BY <1>1, <1>5, <2>1
    <3> QED
      BY <1>2, <1>5, <3>1 DEF IsRecursive
  <2>2. f[0] = <<>>
    BY <1>5 DEF IsRecursive
  <2> HIDE DEF Next
  <2>3. \A i \in 0 .. n : f[i] = IF i = 0 THEN <<>> ELSE Next(f, i)
    BY <2>1, <2>2
  <2> QED
    BY <1>5, <2>3
<1> DEFINE g == RunningRows(s, I)
<1>7. g = Def(g)
  BY <1>4, <1>6, Zenon
<1> HIDE DEF g, Next
<1>8. /\ g[0] = <<>>
      /\ \A i \in 1 .. n : g[i] = Next(g, i)
  <2>1. \A i \in 0 .. n : g[i] = IF i = 0 THEN <<>> ELSE Next(g, i)
    <3>1. \A i \in 0 .. n : Def(g)[i] = IF i = 0 THEN <<>> ELSE Next(g, i)
      OBVIOUS
    <3> HIDE DEF Def
    <3> QED
      BY <3>1, <1>7
  <2> QED
    BY <1>1, <2>1
<1>9. g = [i \in 0 .. n |-> g[i]]
  BY <1>7 DEF Def
<1> HIDE DEF Def
<1>10. \A i \in 0 .. n : g[i] \in Seq(S)
  <2> DEFINE P == {j \in Nat : j <= n => g[j] \in Seq(S)}
  <2>1. 0 \in P
    BY <1>8, EmptySeq
  <2>2. ASSUME NEW j \in P \cap Nat PROVE j + 1 \in P
    <3> SUFFICES ASSUME j + 1 <= n PROVE g[j + 1] \in Seq(S)
      OBVIOUS
    <3>1. j + 1 \in 1 .. n /\ (j + 1) - 1 = j /\ g[j] \in Seq(S)
      BY <1>1
    <3>2. s[j + 1] \in S
      BY <1>1, <3>1
    <3>3. g[j + 1] = IF j + 1 \in I THEN Append(g[j], s[j + 1]) ELSE g[j]
      BY <1>8, <3>1 DEF Next
    <3>4. Append(g[j], s[j + 1]) \in Seq(S)
      BY <3>1, <3>2, AppendProperties
    <3> QED
      BY <3>1, <3>3, <3>4
  <2>3. Nat \subseteq P
    <3> HIDE DEF P
    <3> QED
      BY <2>1, <2>2, SetInduction
  <2> QED
    BY <1>1, <2>3
<1>11. IsRecursive(g, n, Seq(S), <<>>, RowStep(s, I, S))
  <2>1. ASSUME NEW i \in 1 .. n PROVE g[i] = RowStep(s, I, S)[i][g[i - 1]]
    <3>1. i - 1 \in 0 .. n
      BY <1>1
    <3>2. g[i - 1] \in Seq(S)
      BY <1>10, <3>1
    <3>3. g[i] = Next(g, i)
      BY <1>8
    <3> QED
      BY <1>2, <3>2, <3>3 DEF Next
  <2> QED
    BY <1>8, <1>10, <2>1 DEF IsRecursive
<1> QED
  BY <1>9, <1>10, <1>11 DEF g, n

(* In an empty table nothing is found.                                     *)
THEOREM RowsAtEmpty ==
  ASSUME NEW I
  PROVE  RowsAt(<<>>, I) = <<>>
<1>1. <<>> \in Seq({}) /\ Len(<<>>) = 0
  BY EmptySeq
<1>2. IsRecursive(RunningRows(<<>>, I), 0, Seq({}), <<>>, RowStep(<<>>, I, {}))
  BY <1>1, RunningRowsDef
<1> QED
  BY <1>1, <1>2 DEF IsRecursive, RowsAt

(* What is found are rows of the table.                                    *)
THEOREM RowsAtIsSeq ==
  ASSUME NEW S, NEW s \in Seq(S), NEW I
  PROVE  RowsAt(s, I) \in Seq(S)
BY RunningRowsDef, LenProperties DEF RowsAt

(* The last row is found or not; the rows before it are found as they      *)
(* would be without it.                                                    *)
THEOREM RowsAtAppend ==
  ASSUME NEW S, NEW s \in Seq(S), NEW x \in S, NEW I, NEW J,
         \A i \in 1 .. Len(s) : i \in I <=> i \in J
  PROVE  RowsAt(Append(s, x), J) =
           IF Len(s) + 1 \in J THEN Append(RowsAt(s, I), x) ELSE RowsAt(s, I)
<1> DEFINE t == Append(s, x)
           f == RunningRows(s, I)
           g == RunningRows(t, J)
           n == Len(s)
           G == RowStep(s, I, S)
           H == RowStep(t, J, S)
<1>1. /\ t \in Seq(S) /\ n \in Nat /\ Len(t) = n + 1 /\ t[n + 1] = x
      /\ \A i \in 1 .. n : s[i] = t[i]
  BY AppendProperties, LenProperties
<1>2. /\ IsRecursive(f, n, Seq(S), <<>>, G)
      /\ IsRecursive(g, n + 1, Seq(S), <<>>, H)
  <2>1. IsRecursive(g, Len(t), Seq(S), <<>>, H)
    BY <1>1, RunningRowsDef
  <2> QED
    BY <1>1, <2>1, RunningRowsDef
<1>3. RowsAt(s, I) = f[n] /\ RowsAt(t, J) = g[Len(t)]
  BY DEF RowsAt
<1>4. ASSUME NEW i \in 1 .. n, NEW v \in Seq(S)
      PROVE  G[i][v] = H[i][v]
  <2> HIDE DEF t
  <2>1. i \in 1 .. Len(s) /\ i \in 1 .. Len(t) /\ s[i] = t[i]
    BY <1>1
  <2> QED
    BY <2>1 DEF RowStep
<1>5. H[n + 1][g[n]] = IF n + 1 \in J THEN Append(g[n], x) ELSE g[n]
  <2> HIDE DEF t, g, n
  <2>1. n + 1 \in 1 .. Len(t) /\ g[n] \in Seq(S)
    BY <1>1, <1>2 DEF IsRecursive
  <2> QED
    BY <1>1, <2>1 DEF RowStep
<1> HIDE DEF t, f, g, n, G, H
<1>6. f[n] = g[n]
  <2>1. n \in Nat
    BY <1>1
  <2>2. IsRecursive(f, n, Seq(S), <<>>, G) /\ IsRecursive(g, n, Seq(S), <<>>, H)
    BY <1>1, <1>2 DEF IsRecursive
  <2>3. \A i \in 1 .. n, v \in Seq(S) : G[i][v] = H[i][v]
    BY <1>4
  <2> QED
    BY <2>1, <2>2, <2>3, RecursionUnique
<1>7. g[n + 1] = H[n + 1][g[n]]
  <2>1. n + 1 \in 1 .. n + 1 /\ (n + 1) - 1 = n
    BY <1>1
  <2> QED
    BY <1>2, <2>1 DEF IsRecursive
<1> QED
  BY <1>1, <1>3, <1>5, <1>6, <1>7 DEF t, n

(* The rows found are those at the places asked for, in the order they     *)
(* stand in.                                                               *)
IsFoundAt(pos, s, I, found) ==
  /\ pos \in [1 .. Len(found) -> I \cap (1 .. Len(s))]
  /\ \A k \in 1 .. Len(found) : found[k] = s[pos[k]]
  /\ \A j, k \in 1 .. Len(found) : j < k => pos[j] < pos[k]
  /\ \A i \in I \cap (1 .. Len(s)) : \E k \in 1 .. Len(found) : pos[k] = i

(* What is found are the rows at the places looked for, each once, in the  *)
(* order of the table.                                                     *)
THEOREM RowsAtPlaces ==
  ASSUME NEW S, NEW s \in Seq(S), NEW I
  PROVE  \E pos : IsFoundAt(pos, s, I, RowsAt(s, I))
<1> DEFINE P == {t \in Seq(S) : \E pos : IsFoundAt(pos, t, I, RowsAt(t, I))}
<1>1. <<>> \in P
  <2> DEFINE pos == [k \in 1 .. 0 |-> 0]
  <2>1. <<>> \in Seq(S) /\ Len(<<>>) = 0 /\ RowsAt(<<>>, I) = <<>>
    BY EmptySeq, RowsAtEmpty
  <2>2. IsFoundAt(pos, <<>>, I, <<>>)
    BY <2>1 DEF IsFoundAt
  <2> QED
    BY <2>1, <2>2
<1>2. ASSUME NEW t \in P \cap Seq(S), NEW x \in S
      PROVE  Append(t, x) \in P
  <2> DEFINE u == Append(t, x)
             n == Len(t)
             old == RowsAt(t, I)
             m == Len(old)
             new == RowsAt(u, I)
  <2>1. PICK pos : IsFoundAt(pos, t, I, old)
    OBVIOUS
  <2>2. /\ u \in Seq(S) /\ n \in Nat /\ Len(u) = n + 1 /\ u[n + 1] = x
        /\ \A i \in 1 .. n : u[i] = t[i]
    BY AppendProperties, LenProperties
  <2>3. old \in Seq(S) /\ m \in Nat
    BY RowsAtIsSeq, LenProperties
  <2>4. new = IF n + 1 \in I THEN Append(old, x) ELSE old
    BY RowsAtAppend
  <2>5. /\ Len(Append(old, x)) = m + 1
        /\ Append(old, x)[m + 1] = x
        /\ \A k \in 1 .. m : Append(old, x)[k] = old[k]
    <3> HIDE DEF old
    <3> QED
      BY <2>3, AppendProperties
  <2> HIDE DEF u, n, old, m, new
  <2>6. CASE n + 1 \in I
    <3> DEFINE last == [k \in 1 .. m + 1 |-> IF k = m + 1 THEN n + 1 ELSE pos[k]]
    <3>1. /\ pos \in [1 .. m -> I \cap (1 .. n)]
          /\ \A k \in 1 .. m : old[k] = t[pos[k]]
          /\ \A j, k \in 1 .. m : j < k => pos[j] < pos[k]
          /\ \A i \in I \cap (1 .. n) : \E k \in 1 .. m : pos[k] = i
      BY <2>1 DEF IsFoundAt, m, n
    <3>2. Len(new) = m + 1 /\ new[m + 1] = x /\ \A k \in 1 .. m : new[k] = old[k]
      BY <2>4, <2>5, <2>6
    <3>3. last[m + 1] = n + 1 /\ \A k \in 1 .. m : last[k] = pos[k] /\ pos[k] \in I \cap (1 .. n)
      BY <2>3, <3>1
    <3>4. last \in [1 .. m + 1 -> I \cap (1 .. n + 1)]
      BY <2>2, <2>3, <2>6, <3>1
    <3> HIDE DEF last
    <3>5. ASSUME NEW k \in 1 .. m + 1 PROVE new[k] = u[last[k]]
      <4>1. CASE k = m + 1
        BY <2>2, <3>2, <3>3, <4>1
      <4>2. CASE k # m + 1
        <5>1. k \in 1 .. m
          BY <2>3, <4>2
        <5> QED
          BY <2>2, <3>1, <3>2, <3>3, <5>1
      <4> QED
        BY <4>1, <4>2
    <3>6. ASSUME NEW j \in 1 .. m + 1, NEW k \in 1 .. m + 1, j < k PROVE last[j] < last[k]
      <4>1. j \in 1 .. m
        BY <2>3, <3>6
      <4>2. CASE k = m + 1
        BY <2>2, <3>3, <4>1, <4>2
      <4>3. CASE k # m + 1
        <5>1. k \in 1 .. m
          BY <2>3, <4>3
        <5> QED
          BY <3>1, <3>3, <3>6, <4>1, <5>1
      <4> QED
        BY <4>2, <4>3
    <3>7. ASSUME NEW i \in I \cap (1 .. n + 1) PROVE \E k \in 1 .. m + 1 : last[k] = i
      <4>1. CASE i = n + 1
        BY <2>3, <3>3, <4>1
      <4>2. CASE i # n + 1
        <5>1. i \in I \cap (1 .. n)
          BY <2>2, <4>2
        <5>2. PICK k \in 1 .. m : pos[k] = i
          BY <3>1, <5>1
        <5> QED
          BY <2>3, <3>3, <5>2
      <4> QED
        BY <4>1, <4>2
    <3>8. IsFoundAt(last, u, I, new)
      BY <2>2, <3>2, <3>4, <3>5, <3>6, <3>7 DEF IsFoundAt
    <3> QED
      BY <2>2, <3>8 DEF u, new
  <2>7. CASE n + 1 \notin I
    <3>1. new = old /\ I \cap (1 .. n + 1) = I \cap (1 .. n)
      BY <2>2, <2>4, <2>7
    <3>2. IsFoundAt(pos, u, I, new)
      BY <2>1, <2>2, <3>1 DEF IsFoundAt, n
    <3> QED
      BY <2>2, <3>2 DEF u, new
  <2> QED
    BY <2>6, <2>7
<1>3. Seq(S) \subseteq P
  <2> HIDE DEF P
  <2> QED
    BY <1>1, <1>2, RowsInduction
<1> QED
  BY <1>3

(* The rows that are in R, one more row being added.                       *)
Among(rows, R) == RowsAt(rows, {i \in DOMAIN rows : rows[i] \in R})

(* A row more is found if it is one of those looked for, after the others. *)
THEOREM AmongAppend ==
  ASSUME NEW S, NEW s \in Seq(S), NEW x \in S, NEW R
  PROVE  /\ Among(s, R) \in Seq(S)
         /\ Among(Append(s, x), R) = IF x \in R THEN Append(Among(s, R), x) ELSE Among(s, R)
<1> DEFINE more == Append(s, x)
           n == Len(s)
           I == {i \in DOMAIN s : s[i] \in R}
           J == {i \in DOMAIN more : more[i] \in R}
<1>1. /\ n \in Nat /\ DOMAIN s = 1 .. n /\ DOMAIN more = 1 .. n + 1
      /\ more[n + 1] = x /\ \A i \in 1 .. n : more[i] = s[i]
  BY AppendProperties, LenProperties
<1>2. Among(s, R) = RowsAt(s, I) /\ Among(more, R) = RowsAt(more, J)
  BY DEF Among
<1>3. (n + 1 \in J <=> x \in R) /\ \A i \in 1 .. n : i \in I <=> i \in J
  <2> HIDE DEF more, n
  <2> QED
    BY <1>1
<1> HIDE DEF I, J
<1>4. RowsAt(more, J) = IF n + 1 \in J THEN Append(RowsAt(s, I), x) ELSE RowsAt(s, I)
  BY <1>3, RowsAtAppend
<1>5. RowsAt(s, I) \in Seq(S)
  BY RowsAtIsSeq
<1> QED
  BY <1>2, <1>3, <1>4, <1>5

(* In an empty table nothing is found.                                     *)
THEOREM AmongNone ==
  ASSUME NEW R
  PROVE  Among(<<>>, R) = <<>>
BY RowsAtEmpty DEF Among

(* To append is to append to the second part.                              *)
THEOREM AppendOfConcat ==
  ASSUME NEW S, NEW s \in Seq(S), NEW t \in Seq(S), NEW x \in S
  PROVE  s \o Append(t, x) = Append(s \o t, x)
<1>1. <<x>> \in Seq(S) /\ s \o t \in Seq(S)
  BY ConcatProperties
<1>2. Append(t, x) = t \o <<x>> /\ Append(s \o t, x) = (s \o t) \o <<x>>
  BY <1>1, AppendIsConcat
<1>3. s \o (t \o <<x>>) = (s \o t) \o <<x>>
  BY <1>1, ConcatAssociative
<1> QED
  BY <1>2, <1>3

(* The selections of two sequences, one after the other.                   *)
THEOREM AmongConcat ==
  ASSUME NEW S, NEW R
  PROVE  \A s, t \in Seq(S) :
           /\ Among(s, R) \in Seq(S)
           /\ Among(s \o t, R) = Among(s, R) \o Among(t, R)
<1> SUFFICES ASSUME NEW s \in Seq(S), NEW t \in Seq(S)
             PROVE  Among(s, R) \in Seq(S) /\ Among(s \o t, R) = Among(s, R) \o Among(t, R)
  OBVIOUS
<1> DEFINE P == {r \in Seq(S) : Among(r, R) \in Seq(S) /\ Among(s \o r, R) = Among(s, R) \o Among(r, R)}
<1>1. ASSUME NEW r \in Seq(S) PROVE Among(r, R) \in Seq(S)
  BY RowsAtIsSeq DEF Among
<1>2. <<>> \in P
  BY <1>1, AmongNone, EmptySeq, ConcatEmptySeq
<1> DEFINE Step(q, x) == Among(Append(q, x), R) = IF x \in R THEN Append(Among(q, R), x) ELSE Among(q, R)
<1>5. ASSUME NEW q \in Seq(S), NEW x \in S PROVE Step(q, x)
  BY AmongAppend
<1>3. ASSUME NEW r \in P \cap Seq(S), NEW x \in S
      PROVE  Append(r, x) \in P
  <2>1. Append(r, x) \in Seq(S) /\ s \o r \in Seq(S)
    BY AppendProperties, ConcatProperties
  <2>2. s \o Append(r, x) = Append(s \o r, x)
    BY <2>1, AppendOfConcat
  <2>3. Among(s \o r, R) = Among(s, R) \o Among(r, R)
    OBVIOUS
  <2>4. Step(s \o r, x) /\ Step(r, x)
    <3> HIDE DEF Step
    <3> QED
      BY <1>5, <2>1
  <2>6. Among(s, R) \in Seq(S) /\ Among(r, R) \in Seq(S)
    BY <1>1
  <2>7. Among(s, R) \o Append(Among(r, R), x) = Append(Among(s, R) \o Among(r, R), x)
    BY <2>6, AppendOfConcat
  <2>8. Among(s \o Append(r, x), R) = Among(s, R) \o Among(Append(r, x), R)
    BY <2>2, <2>3, <2>4, <2>7
  <2> QED
    BY <1>1, <2>1, <2>8
<1>4. Seq(S) \subseteq P
  <2> HIDE DEF P
  <2> QED
    BY <1>2, <1>3, RowsInduction
<1> QED
  BY <1>1, <1>4

(* No row is found when none is in R.                                      *)
THEOREM AmongNoMatch ==
  ASSUME NEW S, NEW s \in Seq(S), NEW R, \A i \in DOMAIN s : s[i] \notin R
  PROVE  Among(s, R) = <<>>
<1> DEFINE P == {r \in Seq(S) : (\A i \in DOMAIN r : r[i] \notin R) => Among(r, R) = <<>>}
<1>1. <<>> \in P
  BY AmongNone, EmptySeq
<1>4. ASSUME NEW r \in Seq(S), NEW x \in S, x \notin R
      PROVE  Among(Append(r, x), R) = Among(r, R)
  BY <1>4, AmongAppend
<1>2. ASSUME NEW r \in P \cap Seq(S), NEW x \in S
      PROVE  Append(r, x) \in P
  <2> DEFINE more == Append(r, x)
             n == Len(r)
  <2>1. /\ more \in Seq(S) /\ n \in Nat /\ DOMAIN more = 1 .. n + 1 /\ more[n + 1] = x
        /\ DOMAIN r = 1 .. n /\ \A i \in 1 .. n : more[i] = r[i]
    BY AppendProperties, LenProperties
  <2>2. x \notin R => Among(more, R) = Among(r, R)
    BY <1>4
  <2> HIDE DEF more, n
  <2>3. ASSUME \A i \in DOMAIN more : more[i] \notin R
        PROVE  Among(more, R) = <<>>
    <3>1. x \notin R /\ \A i \in DOMAIN r : r[i] \notin R
      BY <2>1, <2>3
    <3> QED
      BY <2>2, <3>1
  <2> QED
    BY <2>1, <2>3 DEF more
<1>3. Seq(S) \subseteq P
  <2> HIDE DEF P
  <2> QED
    BY <1>1, <1>2, RowsInduction
<1> QED
  BY <1>3

(* The sum of the values F gives to rows.                                  *)
SumOf(F, rows) == Total([k \in DOMAIN rows |-> F[rows[k]]])

(* The sum over no rows is 0.                                              *)
THEOREM SumOfNone ==
  ASSUME NEW F
  PROVE  SumOf(F, <<>>) = 0
<1>1. [k \in DOMAIN <<>> |-> F[<<>>[k]]] = <<>>
  OBVIOUS
<1> QED
  BY <1>1, TotalEmpty DEF SumOf

(* The sum over two tables, one after the other, is the sum of both sums.  *)
THEOREM SumOfConcat ==
  ASSUME NEW T, NEW s \in Seq(T), NEW t \in Seq(T), NEW F \in [T -> Int]
  PROVE  /\ SumOf(F, s) \in Int
         /\ SumOf(F, s \o t) = SumOf(F, s) + SumOf(F, t)
<1>1. ASSUME NEW r \in Seq(T), NEW x \in T
      PROVE  SumOf(F, r) \in Int /\ SumOf(F, Append(r, x)) = SumOf(F, r) + F[x]
  <2>1. /\ Total([k \in DOMAIN r |-> F[r[k]]]) \in Int
        /\ Total([k \in DOMAIN Append(r, x) |-> F[Append(r, x)[k]]])
             = Total([k \in DOMAIN r |-> F[r[k]]]) + F[x]
    BY ColumnAppend, ZenonT(60)
  <2> QED
    BY <2>1, Zenon DEF SumOf
<1>2. ASSUME NEW r \in Seq(T) PROVE SumOf(F, r) \in Int
  <2>1. CASE r = <<>>
    BY <2>1, SumOfNone
  <2>2. CASE r # <<>>
    <3>1. PICK x \in T : TRUE
      BY <2>2, SequenceEmptyOrAppend
    <3> QED
      BY <1>1, <3>1
  <2> QED
    BY <2>1, <2>2
<1> DEFINE P == {r \in Seq(T) : SumOf(F, s \o r) = SumOf(F, s) + SumOf(F, r)}
<1>3. <<>> \in P
  BY <1>2, SumOfNone, EmptySeq, ConcatEmptySeq
<1>4. ASSUME NEW r \in P \cap Seq(T), NEW x \in T
      PROVE  Append(r, x) \in P
  <2>1. Append(r, x) \in Seq(T) /\ s \o r \in Seq(T) /\ s \o Append(r, x) = Append(s \o r, x)
    <3>1. Append(r, x) \in Seq(T) /\ s \o r \in Seq(T)
      BY AppendProperties, ConcatProperties
    <3> QED
      BY <3>1, AppendOfConcat
  <2>2. /\ SumOf(F, Append(s \o r, x)) = SumOf(F, s \o r) + F[x]
        /\ SumOf(F, Append(r, x)) = SumOf(F, r) + F[x]
        /\ SumOf(F, s \o r) = SumOf(F, s) + SumOf(F, r)
    BY <1>1, <2>1
  <2>3. SumOf(F, s) \in Int /\ SumOf(F, r) \in Int /\ F[x] \in Int
    BY <1>2
  <2>4. SumOf(F, s \o Append(r, x)) = SumOf(F, s) + SumOf(F, Append(r, x))
    BY <2>1, <2>2, <2>3
  <2> QED
    BY <2>1, <2>4
<1>5. Seq(T) \subseteq P
  <2> HIDE DEF P
  <2> QED
    BY <1>3, <1>4, RowsInduction
<1> QED
  BY <1>2, <1>5

-----------------------------------------------------------------------------
(* Sums over a finite set *)

(* SumFunction adds the values of F by removing one argument after the     *)
(* other from the set of those still to be added.                          *)
SumsUp(f, F, S) ==
  f = [s \in SUBSET S |-> IF s = {} THEN 0
                          ELSE LET x == CHOOSE x \in s : TRUE IN F[x] + f[s \ {x}]]

AnyOf(s) == CHOOSE x \in s : TRUE

(* What holds of no members, and of a set when it holds of the set without *)
(* one of them, holds of every subset of a finite set.                     *)
LEMMA SubsetInduction ==
  ASSUME NEW S, IsFiniteSet(S), NEW P, {} \in P,
         \A s \in SUBSET S : s # {} /\ s \ {AnyOf(s)} \in P => s \in P
  PROVE  SUBSET S \subseteq P
<1> DEFINE N == {n \in Nat : \A s \in SUBSET S : Cardinality(s) = n => s \in P}
<1>1. \A s \in SUBSET S : IsFiniteSet(s) /\ Cardinality(s) \in Nat
  BY FS_Subset, FS_CardinalityType
<1>2. 0 \in N
  BY <1>1, FS_EmptySet
<1>3. ASSUME NEW n \in N \cap Nat
      PROVE  n + 1 \in N
  <2> SUFFICES ASSUME NEW s \in SUBSET S, Cardinality(s) = n + 1
               PROVE  s \in P
    OBVIOUS
  <2>1. IsFiniteSet(s) /\ s # {}
    BY <1>1, FS_EmptySet
  <2>2. AnyOf(s) \in s
    BY <2>1 DEF AnyOf
  <2>3. Cardinality(s \ {AnyOf(s)}) = IF AnyOf(s) \in s THEN Cardinality(s) - 1 ELSE Cardinality(s)
    BY <2>1, FS_RemoveElement
  <2>4. Cardinality(s \ {AnyOf(s)}) = n
    BY <2>2, <2>3
  <2> QED
    BY <2>1, <2>4
<1>4. Nat \subseteq N
  <2> HIDE DEF N
  <2> QED
    BY <1>2, <1>3, SetInduction
<1> QED
  BY <1>1, <1>4

LEMMA SumExists ==
  ASSUME NEW S, IsFiniteSet(S), NEW F \in [S -> Int]
  PROVE  \E f \in [SUBSET S -> Int] : SumsUp(f, F, S)
<1> DEFINE One(s) == CHOOSE x \in s : TRUE
           UpTo(n) == {s \in SUBSET S : Cardinality(s) <= n}
           Adds(f, n) == \A s \in UpTo(n) : f[s] = IF s = {} THEN 0 ELSE F[One(s)] + f[s \ {One(s)}]
           N == {n \in Nat : \E f \in [UpTo(n) -> Int] : Adds(f, n)}
<1>1. \A s \in SUBSET S : s # {} => One(s) \in s /\ F[One(s)] \in Int
  OBVIOUS
<1>2. \A s \in SUBSET S : IsFiniteSet(s) /\ Cardinality(s) \in Nat
  BY FS_Subset, FS_CardinalityType
<1>3. ASSUME NEW n \in Nat, NEW s \in UpTo(n + 1), s # {}
      PROVE  s \ {One(s)} \in UpTo(n)
  <2>1. One(s) \in s /\ IsFiniteSet(s) /\ Cardinality(s) \in Nat /\ Cardinality(s) <= n + 1
    BY <1>1, <1>2, <1>3
  <2> HIDE DEF One
  <2>2. Cardinality(s \ {One(s)}) = Cardinality(s) - 1
    BY <2>1, FS_RemoveElement
  <2> QED
    BY <2>1, <2>2
<1> HIDE DEF One
<1>4. 0 \in N
  <2> DEFINE f == [s \in UpTo(0) |-> 0]
  <2>1. f \in [UpTo(0) -> Int]
    OBVIOUS
  <2>2. \A s \in UpTo(0) : s = {}
    <3>1. \A s \in UpTo(0) : Cardinality(s) = 0
      BY <1>2
    <3> QED
      BY <1>2, <3>1, FS_EmptySet
  <2>3. Adds(f, 0)
    BY <2>2
  <2> HIDE DEF f
  <2> QED
    BY <2>1, <2>3
<1>5. ASSUME NEW n \in N \cap Nat
      PROVE  n + 1 \in N
  <2>1. PICK f \in [UpTo(n) -> Int] : Adds(f, n)
    OBVIOUS
  <2> DEFINE g == [s \in UpTo(n + 1) |-> IF s = {} THEN 0 ELSE F[One(s)] + f[s \ {One(s)}]]
  <2>2. g \in [UpTo(n + 1) -> Int]
    BY <1>1, <1>3, <2>1
  <2>3. \A s \in UpTo(n) : s \in UpTo(n + 1) /\ g[s] = f[s]
    <3>1. \A s \in UpTo(n) : s \in UpTo(n + 1)
      BY <1>2
    <3> QED
      BY <2>1, <3>1
  <2>4. Adds(g, n + 1)
    <3> SUFFICES ASSUME NEW s \in UpTo(n + 1)
                 PROVE  g[s] = IF s = {} THEN 0 ELSE F[One(s)] + g[s \ {One(s)}]
      OBVIOUS
    <3>1. CASE s # {}
      BY <1>3, <2>3, <3>1
    <3>2. CASE s = {}
      BY <3>2
    <3> QED
      BY <3>1, <3>2
  <2> HIDE DEF g
  <2>5. \E h \in [UpTo(n + 1) -> Int] : Adds(h, n + 1)
    BY <2>2, <2>4, Zenon
  <2> HIDE DEF Adds, UpTo
  <2> QED
    BY <2>5
<1>6. Nat \subseteq N
  <2> HIDE DEF N
  <2> QED
    BY <1>4, <1>5, SetInduction
<1> DEFINE n == Cardinality(S)
<1>7. n \in Nat /\ UpTo(n) = SUBSET S
  BY <1>2, FS_Subset
<1>8. PICK f \in [UpTo(n) -> Int] : Adds(f, n)
  <2> HIDE DEF n, Adds
  <2> QED
    BY <1>6, <1>7
<1>9. f \in [SUBSET S -> Int]
  BY <1>7, <1>8
<1>10. \A s \in SUBSET S : f[s] = IF s = {} THEN 0 ELSE F[One(s)] + f[s \ {One(s)}]
  BY <1>7, <1>8
<1>11. f = [s \in SUBSET S |-> IF s = {} THEN 0 ELSE F[One(s)] + f[s \ {One(s)}]]
  BY <1>9, <1>10
<1> QED
  BY <1>9, <1>11 DEF SumsUp, One

LEMMA SumDef ==
  ASSUME NEW S, IsFiniteSet(S), NEW F \in [S -> Int]
  PROVE  \E f \in [SUBSET S -> Int] : SumsUp(f, F, S) /\ SumFunction(F) = f[S]
<1> DEFINE f == CHOOSE f : SumsUp(f, F, S)
           P == {s \in SUBSET S : f[s] \in Int}
<1>1. SumsUp(f, F, S)
  BY SumExists
<1>2. DOMAIN F = S
  OBVIOUS
<1>3. SumFunction(F) = f[S]
  BY <1>2 DEF SumFunction, SumFunctionOnSet, FoldFunctionOnSet, MapThenFoldSet, SumsUp
<1> HIDE DEF f
<1>4. {} \in P
  BY <1>1 DEF SumsUp
<1>5. ASSUME NEW s \in SUBSET S, s # {}, s \ {AnyOf(s)} \in P
      PROVE  s \in P
  <2>1. f[s] = F[AnyOf(s)] + f[s \ {AnyOf(s)}] /\ AnyOf(s) \in s
    BY <1>1, <1>5 DEF SumsUp, AnyOf
  <2> QED
    BY <1>5, <2>1
<1>6. SUBSET S \subseteq P
  <2> HIDE DEF P
  <2> QED
    BY <1>4, <1>5, SubsetInduction
<1>7. f \in [SUBSET S -> Int]
  BY <1>1, <1>6 DEF SumsUp
<1> QED
  BY <1>1, <1>3, <1>7

(* Where one value changes, the sum changes by as much.                    *)
LEMMA SumChanges ==
  ASSUME NEW S, IsFiniteSet(S), NEW F \in [S -> Int], NEW G \in [S -> Int],
         NEW u \in S, \A x \in S \ {u} : G[x] = F[x]
  PROVE  /\ SumFunction(F) \in Int
         /\ SumFunction(G) = SumFunction(F) + (G[u] - F[u])
<1>1. PICK f \in [SUBSET S -> Int] : SumsUp(f, F, S) /\ SumFunction(F) = f[S]
  BY SumDef
<1>2. PICK g \in [SUBSET S -> Int] : SumsUp(g, G, S) /\ SumFunction(G) = g[S]
  BY SumDef
<1> DEFINE P == {s \in SUBSET S : g[s] = f[s] + (IF u \in s THEN G[u] - F[u] ELSE 0)}
<1>3. {} \in P
  BY <1>1, <1>2 DEF SumsUp
<1>4. ASSUME NEW s \in SUBSET S, s # {}, s \ {AnyOf(s)} \in P
      PROVE  s \in P
  <2> DEFINE x == AnyOf(s)
             rest == s \ {x}
  <2>1. x \in s
    BY <1>4 DEF AnyOf
  <2>2. f[s] = F[x] + f[rest] /\ g[s] = G[x] + g[rest]
    BY <1>1, <1>2, <1>4 DEF SumsUp, AnyOf
  <2>3. g[rest] = f[rest] + (IF u \in rest THEN G[u] - F[u] ELSE 0)
    BY <1>4
  <2>4. u \in rest <=> u \in s /\ u # x
    BY <2>1
  <2>5. F[x] \in Int /\ G[x] \in Int /\ f[rest] \in Int /\ F[u] \in Int /\ G[u] \in Int
    BY <2>1
  <2> HIDE DEF x, rest
  <2> QED
    BY <2>1, <2>2, <2>3, <2>4, <2>5
<1>5. SUBSET S \subseteq P
  <2> HIDE DEF P
  <2> QED
    BY <1>3, <1>4, SubsetInduction
<1>6. g[S] = f[S] + (G[u] - F[u]) /\ f[S] \in Int
  BY <1>5
<1> QED
  BY <1>1, <1>2, <1>6

-----------------------------------------------------------------------------
(* Sorting a finite set, and sums along the order *)

(* before, a set of pairs, orders the members of S.                        *)
IsTotalOrder(before, S) ==
  /\ \A x, y, z \in S : <<x, y>> \in before /\ <<y, z>> \in before => <<x, z>> \in before
  /\ \A x, y \in S : x # y => <<x, y>> \in before \/ <<y, x>> \in before
  /\ \A x \in S : <<x, x>> \notin before

InOrder(turn, n, before) == \A a, b \in 1 .. n : a < b => <<turn[a], turn[b]>> \in before

(* A finite set that is ordered has a last member.                         *)
LEMMA LastExists ==
  ASSUME NEW S, IsFiniteSet(S), S # {}, NEW before, IsTotalOrder(before, S)
  PROVE  \E m \in S : \A x \in S \ {m} : <<x, m>> \in before
<1> DEFINE P == {s \in SUBSET S : s # {} => \E m \in s : \A x \in s \ {m} : <<x, m>> \in before}
<1>1. {} \in P
  OBVIOUS
<1>2. ASSUME NEW s \in SUBSET S, s # {}, s \ {AnyOf(s)} \in P
      PROVE  s \in P
  <2> DEFINE y == AnyOf(s)
  <2>1. y \in s /\ y \in S
    BY <1>2 DEF AnyOf
  <2> HIDE DEF y
  <2>2. s \ {y} \in P
    BY <1>2 DEF y
  <2>3. CASE s \ {y} = {}
    <3>1. \A x \in s \ {y} : <<x, y>> \in before
      BY <2>3
    <3> QED
      BY <2>1, <3>1
  <2>4. CASE s \ {y} # {}
    <3>1. PICK m \in s \ {y} : \A x \in (s \ {y}) \ {m} : <<x, m>> \in before
      BY <2>2, <2>4
    <3>2. CASE <<y, m>> \in before
      <4>1. \A x \in s \ {m} : <<x, m>> \in before
        BY <3>1, <3>2
      <4> QED
        BY <3>1, <4>1
    <3>3. CASE <<y, m>> \notin before
      <4>1. <<m, y>> \in before
        BY <2>1, <3>1, <3>3 DEF IsTotalOrder
      <4>2. \A x \in s \ {y} : <<x, y>> \in before
        BY <2>1, <3>1, <4>1 DEF IsTotalOrder
      <4> QED
        BY <2>1, <4>2
    <3> QED
      BY <3>2, <3>3
  <2> QED
    BY <2>3, <2>4
<1>3. SUBSET S \subseteq P
  <2> HIDE DEF P
  <2> QED
    BY <1>1, <1>2, SubsetInduction
<1> QED
  BY <1>3

(* A finite set that is ordered can be sorted.                             *)
LEMMA SortExists ==
  ASSUME NEW S, IsFiniteSet(S), NEW before, IsTotalOrder(before, S)
  PROVE  /\ Cardinality(S) \in Nat
         /\ \E turn \in [1 .. Cardinality(S) -> S] : InOrder(turn, Cardinality(S), before)
<1> DEFINE N == {n \in Nat : \A s \in SUBSET S : Cardinality(s) = n =>
                   \E turn \in [1 .. n -> s] : InOrder(turn, n, before)}
<1>1. \A s \in SUBSET S : IsFiniteSet(s) /\ Cardinality(s) \in Nat /\ IsTotalOrder(before, s)
  BY FS_Subset, FS_CardinalityType DEF IsTotalOrder
<1>2. 0 \in N
  <2> SUFFICES ASSUME NEW s \in SUBSET S
               PROVE  \E turn \in [1 .. 0 -> s] : InOrder(turn, 0, before)
    OBVIOUS
  <2> DEFINE turn == [k \in 1 .. 0 |-> k]
  <2>1. turn \in [1 .. 0 -> s] /\ InOrder(turn, 0, before)
    BY DEF InOrder
  <2> QED
    BY <2>1
<1>3. ASSUME NEW n \in N \cap Nat PROVE n + 1 \in N
  <2> SUFFICES ASSUME NEW s \in SUBSET S, Cardinality(s) = n + 1
               PROVE  \E turn \in [1 .. n + 1 -> s] : InOrder(turn, n + 1, before)
    OBVIOUS
  <2>1. IsFiniteSet(s) /\ s # {} /\ IsTotalOrder(before, s)
    BY <1>1, FS_EmptySet
  <2>2. PICK m \in s : \A x \in s \ {m} : <<x, m>> \in before
    BY <2>1, LastExists
  <2>3. s \ {m} \in SUBSET S /\ Cardinality(s \ {m}) = n
    <3>1. Cardinality(s \ {m}) = Cardinality(s) - 1
      BY <2>1, <2>2, FS_RemoveElement
    <3> QED
      BY <3>1
  <2>4. PICK f \in [1 .. n -> s \ {m}] : InOrder(f, n, before)
    BY <2>3
  <2> DEFINE g == [k \in 1 .. n + 1 |-> IF k = n + 1 THEN m ELSE f[k]]
  <2>5. g \in [1 .. n + 1 -> s] /\ g[n + 1] = m /\ \A k \in 1 .. n : g[k] = f[k] /\ f[k] \in s \ {m}
    BY <2>4
  <2> HIDE DEF g
  <2>6. InOrder(g, n + 1, before)
    <3> SUFFICES ASSUME NEW a \in 1 .. n + 1, NEW b \in 1 .. n + 1, a < b
                 PROVE  <<g[a], g[b]>> \in before
      BY DEF InOrder
    <3>1. a \in 1 .. n
      OBVIOUS
    <3>2. CASE b = n + 1
      BY <2>2, <2>5, <3>1, <3>2
    <3>3. CASE b # n + 1
      <4>1. b \in 1 .. n
        BY <3>3
      <4>2. <<f[a], f[b]>> \in before
        BY <2>4, <3>1, <4>1 DEF InOrder
      <4> QED
        BY <2>5, <3>1, <4>1, <4>2
    <3> QED
      BY <3>2, <3>3
  <2> QED
    BY <2>5, <2>6
<1>4. Nat \subseteq N
  <2> HIDE DEF N
  <2> QED
    BY <1>2, <1>3, SetInduction
<1> QED
  BY <1>1, <1>4

(* A sorting leaves nothing out and names nothing twice.                   *)
LEMMA SortedOnce ==
  ASSUME NEW S, IsFiniteSet(S), NEW before, IsTotalOrder(before, S),
         NEW turn \in [1 .. Cardinality(S) -> S], InOrder(turn, Cardinality(S), before)
  PROVE  /\ \A a, b \in 1 .. Cardinality(S) : a # b => turn[a] # turn[b]
         /\ \A x \in S : \E a \in 1 .. Cardinality(S) : turn[a] = x
<1> DEFINE n == Cardinality(S)
           T == {turn[a] : a \in 1 .. n}
<1>1. n \in Nat
  BY FS_CardinalityType
<1>2. \A a \in 1 .. n : turn[a] \in S
  OBVIOUS
<1>3. InOrder(turn, n, before)
  OBVIOUS
<1> HIDE DEF n
<1>4. \A a, b \in 1 .. n : a < b => turn[a] # turn[b]
  BY <1>2, <1>3 DEF InOrder, IsTotalOrder
<1>5. \A a, b \in 1 .. n : a # b => turn[a] # turn[b]
  <2> SUFFICES ASSUME NEW a \in 1 .. n, NEW b \in 1 .. n, a # b PROVE turn[a] # turn[b]
    OBVIOUS
  <2>1. a < b \/ b < a
    BY <1>1
  <2> QED
    BY <1>4, <2>1
<1>6. IsFiniteSet(1 .. n) /\ Cardinality(1 .. n) = n
  BY <1>1, FS_Interval
<1>7. T \subseteq S
  BY <1>2
<1>8. turn \in Bijection(1 .. n, T)
  <2>1. turn \in [1 .. n -> T]
    BY DEF n
  <2>2. turn \in Injection(1 .. n, T) /\ turn \in Surjection(1 .. n, T)
    BY <2>1, <1>5 DEF Injection, IsInjective, Surjection
  <2> QED
    BY <2>2 DEF Bijection
<1>9. Cardinality(T) = n
  <2> HIDE DEF T
  <2>1. ExistsBijection(1 .. n, T)
    BY <1>8 DEF ExistsBijection
  <2>2. IsFiniteSet(T)
    BY <1>7, FS_Subset
  <2> QED
    BY <2>1, <2>2, <1>6, FS_Bijection
<1>10. T = S
  <2> HIDE DEF T
  <2> QED
    BY <1>7, <1>9, FS_Subset DEF n
<1> QED
  BY <1>5, <1>10 DEF n

-----------------------------------------------------------------------------
(* Sums over the subsets of a finite set *)

LEMMA SumRemove ==
  ASSUME NEW S, IsFiniteSet(S), NEW F \in [S -> Int], NEW f, SumsUp(f, F, S),
         \A U \in SUBSET S : f[U] \in Int
  PROVE  f[{}] = 0 /\ \A T \in SUBSET S : \A m \in T : f[T] = F[m] + f[T \ {m}]
<1> DEFINE N == {n \in Nat : \A T \in SUBSET S : Cardinality(T) = n =>
                   \A m \in T : f[T] = F[m] + f[T \ {m}]}
<1>1. \A s \in SUBSET S : IsFiniteSet(s) /\ Cardinality(s) \in Nat
  BY FS_Subset, FS_CardinalityType
<1>2. f[{}] = 0 /\ \A T \in SUBSET S : T # {} =>
        AnyOf(T) \in T /\ f[T] = F[AnyOf(T)] + f[T \ {AnyOf(T)}]
  BY DEF SumsUp, AnyOf
<1>3. \A T \in SUBSET S : \A m \in T : Cardinality(T \ {m}) = Cardinality(T) - 1
  <2> SUFFICES ASSUME NEW T \in SUBSET S, NEW m \in T
               PROVE  Cardinality(T \ {m}) = Cardinality(T) - 1
    OBVIOUS
  <2>1. IsFiniteSet(T)
    BY <1>1
  <2> QED
    BY <2>1, FS_RemoveElement
<1>4. 0 \in N
  BY <1>1, FS_EmptySet
<1>5. ASSUME NEW n \in N \cap Nat PROVE n + 1 \in N
  <2> SUFFICES ASSUME NEW T \in SUBSET S, Cardinality(T) = n + 1, NEW m \in T
               PROVE  f[T] = F[m] + f[T \ {m}]
    OBVIOUS
  <2> DEFINE x == AnyOf(T)
  <2>1. x \in T /\ f[T] = F[x] + f[T \ {x}]
    BY <1>2
  <2> HIDE DEF x
  <2>2. CASE x = m
    BY <2>1, <2>2
  <2>3. CASE x # m
    <3>1. T \ {x} \in SUBSET S /\ T \ {m} \in SUBSET S
          /\ Cardinality(T \ {x}) = n /\ Cardinality(T \ {m}) = n
      BY <1>3, <2>1
    <3>2. f[T \ {x}] = F[m] + f[(T \ {x}) \ {m}]
      BY <2>3, <3>1
    <3>3. f[T \ {m}] = F[x] + f[(T \ {m}) \ {x}]
      BY <2>1, <2>3, <3>1
    <3> DEFINE U == T \ {x}
               V == T \ {m}
               W == V \ {x}
    <3>4. f[U] = F[m] + f[W]
      <4>1. U \ {m} = W
        OBVIOUS
      <4> QED
        BY <3>2, <4>1
    <3>5. F[x] \in Int /\ F[m] \in Int /\ f[W] \in Int
      BY <2>1
    <3>6. f[V] = F[x] + f[W] /\ f[T] = F[x] + f[U]
      BY <2>1, <3>3
    <3> HIDE DEF U, V, W
    <3>7. f[T] = F[m] + f[V]
      BY <3>4, <3>5, <3>6
    <3> QED
      BY <3>7 DEF V
  <2> QED
    BY <2>2, <2>3
<1>6. Nat \subseteq N
  <2> HIDE DEF N
  <2> QED
    BY <1>4, <1>5, SetInduction
<1> QED
  BY <1>1, <1>2, <1>6

(* The sum of the values F has in T.                                       *)
SumIn(F, T) == SumFunction([x \in T |-> F[x]])

LEMMA SumInIsSum ==
  ASSUME NEW S, IsFiniteSet(S), NEW F \in [S -> Int], NEW f \in [SUBSET S -> Int],
         SumsUp(f, F, S), NEW T \in SUBSET S
  PROVE  SumIn(F, T) = f[T]
<1> DEFINE G == [x \in T |-> F[x]]
<1>1. G \in [T -> Int] /\ IsFiniteSet(T) /\ \A x \in T : G[x] = F[x]
  BY FS_Subset
<1>2. SumIn(F, T) = SumFunction(G)
  BY DEF SumIn
<1> HIDE DEF G
<1>3. PICK g \in [SUBSET T -> Int] : SumsUp(g, G, T) /\ SumFunction(G) = g[T]
  BY <1>1, SumDef
<1> DEFINE P == {s \in SUBSET T : g[s] = f[s]}
<1>4. {} \in P
  BY <1>3 DEF SumsUp
<1>5. ASSUME NEW s \in SUBSET T, s # {}, s \ {AnyOf(s)} \in P
      PROVE  s \in P
  <2>1. AnyOf(s) \in s
    BY <1>5 DEF AnyOf
  <2>2. g[s] = G[AnyOf(s)] + g[s \ {AnyOf(s)}] /\ f[s] = F[AnyOf(s)] + f[s \ {AnyOf(s)}]
    BY <1>3, <1>5 DEF SumsUp, AnyOf
  <2> QED
    BY <1>1, <1>5, <2>1, <2>2
<1>6. SUBSET T \subseteq P
  <2> HIDE DEF P
  <2> QED
    BY <1>1, <1>4, <1>5, SubsetInduction
<1> QED
  BY <1>2, <1>3, <1>6

(* A member can be taken out of a sum.                                     *)
LEMMA SumParts ==
  ASSUME NEW S, IsFiniteSet(S), NEW F \in [S -> Int], NEW T \in SUBSET S
  PROVE  /\ SumIn(F, T) \in Int
         /\ SumIn(F, {}) = 0
         /\ \A m \in T : SumIn(F, T) = F[m] + SumIn(F, T \ {m})
<1>1. PICK f \in [SUBSET S -> Int] : SumsUp(f, F, S)
  BY SumExists
<1>a. SumsUp(f, F, S) /\ \A U \in SUBSET S : f[U] \in Int
  BY <1>1
<1>2. f[{}] = 0 /\ \A U \in SUBSET S : \A m \in U : f[U] = F[m] + f[U \ {m}]
  BY <1>a, SumRemove
<1>3. \A U \in SUBSET S : SumIn(F, U) = f[U]
  BY <1>a, SumInIsSum
<1> QED
  BY <1>2, <1>3

(* Fewer numbers that are not negative have no greater sum.                *)
LEMMA SumGrows ==
  ASSUME NEW S, IsFiniteSet(S), NEW F \in [S -> Nat], NEW T \in SUBSET S
  PROVE  SumIn(F, T) \in Nat /\ SumIn(F, T) <= SumIn(F, S)
<1>0. F \in [S -> Int]
  OBVIOUS
<1>1. \A U \in SUBSET S : SumIn(F, U) \in Int /\ SumIn(F, {}) = 0
        /\ \A m \in U : SumIn(F, U) = F[m] + SumIn(F, U \ {m})
  BY <1>0, SumParts
<1> DEFINE P == {U \in SUBSET S : SumIn(F, U \cap T) \in Nat /\ SumIn(F, U \cap T) <= SumIn(F, U)}
<1>2. {} \in P
  <2>1. {} \cap T = {}
    OBVIOUS
  <2> QED
    BY <1>1, <2>1
<1>3. ASSUME NEW U \in SUBSET S, U # {}, U \ {AnyOf(U)} \in P
      PROVE  U \in P
  <2> DEFINE x == AnyOf(U)
  <2>1. x \in U
    BY <1>3 DEF AnyOf
  <2> HIDE DEF x
  <2>2. SumIn(F, U) = F[x] + SumIn(F, U \ {x}) /\ F[x] \in Nat /\ SumIn(F, U \ {x}) \in Int
    BY <1>1, <2>1
  <2>3. SumIn(F, (U \ {x}) \cap T) \in Nat /\ SumIn(F, (U \ {x}) \cap T) <= SumIn(F, U \ {x})
    BY <1>3 DEF x
  <2>4. CASE x \in T
    <3>1. (U \cap T) \ {x} = (U \ {x}) \cap T /\ x \in U \cap T /\ U \cap T \in SUBSET S
      BY <2>1, <2>4
    <3>2. SumIn(F, U \cap T) = F[x] + SumIn(F, (U \cap T) \ {x})
      BY <1>1, <3>1
    <3> QED
      BY <2>2, <2>3, <3>1, <3>2
  <2>5. CASE x \notin T
    <3>1. (U \ {x}) \cap T = U \cap T
      BY <2>5
    <3>2. SumIn(F, U \cap T) \in Nat /\ SumIn(F, U \cap T) <= SumIn(F, U \ {x})
      BY <2>3, <3>1
    <3> QED
      BY <2>2, <3>2
  <2> QED
    BY <2>4, <2>5
<1>4. SUBSET S \subseteq P
  <2> HIDE DEF P
  <2> QED
    BY <1>2, <1>3, SubsetInduction
<1>5. S \cap T = T
  OBVIOUS
<1> QED
  BY <1>4, <1>5

(* One more row adds its number to the sum.                                *)
THEOREM SumOfAppend ==
  ASSUME NEW T, NEW rows \in Seq(T), NEW x \in T, NEW F \in [T -> Int]
  PROVE  /\ SumOf(F, rows) \in Int
         /\ SumOf(F, Append(rows, x)) = SumOf(F, rows) + F[x]
<1>1. ASSUME NEW r \in Seq(T), NEW y \in T
      PROVE  SumOf(F, r) \in Int /\ SumOf(F, Append(r, y)) = SumOf(F, r) + F[y]
  BY ColumnAppend, ZenonT(60) DEF SumOf
<1> QED
  BY <1>1

(* The sum of numbers that are not negative is not negative.               *)
LEMMA SumOfNat ==
  ASSUME NEW T, NEW s \in Seq(T), NEW F \in [T -> Nat]
  PROVE  SumOf(F, s) \in Nat
<1> DEFINE P == {r \in Seq(T) : SumOf(F, r) \in Nat}
<1>1. <<>> \in P
  BY EmptySeq, SumOfNone
<1>2. ASSUME NEW r \in P \cap Seq(T), NEW x \in T
      PROVE  Append(r, x) \in P
  <2>1. F \in [T -> Int] /\ F[x] \in Nat /\ SumOf(F, r) \in Nat
    OBVIOUS
  <2>2. SumOf(F, Append(r, x)) = SumOf(F, r) + F[x]
    BY <2>1, SumOfAppend
  <2>3. Append(r, x) \in Seq(T)
    BY AppendProperties
  <2> QED
    BY <2>1, <2>2, <2>3
<1>3. Seq(T) \subseteq P
  <2> HIDE DEF P
  <2> QED
    BY <1>1, <1>2, RowsInduction
<1> QED
  BY <1>3

(* The sum over a set is that over a sorting of it.                        *)
LEMMA SortedSum ==
  ASSUME NEW S, IsFiniteSet(S), NEW F \in [S -> Int], NEW n \in Nat,
         NEW turn \in [1 .. n -> S],
         \A a, b \in 1 .. n : a # b => turn[a] # turn[b],
         \A x \in S : \E a \in 1 .. n : turn[a] = x
  PROVE  /\ turn \in Seq(S)
         /\ SumOf(F, turn) = SumIn(F, S)
<1> DEFINE part(j) == [k \in 1 .. j |-> turn[k]]
           seen(j) == {turn[k] : k \in 1 .. j}
           P == {j \in Nat : j <= n => SumOf(F, part(j)) = SumIn(F, seen(j))}
<1>1. \A k \in 1 .. n : turn[k] \in S
  OBVIOUS
<1>a. ASSUME NEW r \in Seq(S), NEW x \in S
      PROVE  SumOf(F, r) \in Int /\ SumOf(F, Append(r, x)) = SumOf(F, r) + F[x]
  BY SumOfAppend
<1>b. ASSUME NEW U \in SUBSET S
      PROVE  SumIn(F, U) \in Int /\ \A m \in U : SumIn(F, U) = F[m] + SumIn(F, U \ {m})
  BY SumParts
<1>2. \A j \in 0 .. n : part(j) \in Seq(S)
  BY <1>1
<1>3. 0 \in P
  <2>1. part(0) = <<>> /\ seen(0) = {}
    OBVIOUS
  <2> QED
    BY <2>1, SumOfNone, SumParts
<1>4. ASSUME NEW j \in P \cap Nat PROVE j + 1 \in P
  <2> SUFFICES ASSUME j + 1 <= n
               PROVE  SumOf(F, part(j + 1)) = SumIn(F, seen(j + 1))
    OBVIOUS
  <2> DEFINE x == turn[j + 1]
             s == part(j)
             t == part(j + 1)
  <2>1. s \in Seq(S) /\ t \in Seq(S) /\ Len(s) = j /\ Len(t) = j + 1 /\ x \in S
        /\ t[j + 1] = x /\ \A k \in 1 .. j : t[k] = s[k]
    BY <1>1, <1>2
  <2>2. seen(j) \in SUBSET S /\ seen(j + 1) \in SUBSET S /\ x \in seen(j + 1)
    BY <1>1
  <2>3. seen(j + 1) \ {x} = seen(j)
    <3>1. \A k \in 1 .. j : k \in 1 .. n /\ j + 1 \in 1 .. n /\ k # j + 1
      OBVIOUS
    <3>2. \A k \in 1 .. j : turn[k] # x
      BY <3>1
    <3>3. \A k \in 1 .. j + 1 : k \in 1 .. j \/ k = j + 1
      OBVIOUS
    <3> QED
      BY <3>2, <3>3
  <2>4. SumOf(F, s) = SumIn(F, seen(j))
    OBVIOUS
  <2> HIDE DEF s, t, x, seen
  <2>5. Append(s, x) \in Seq(S) /\ Len(Append(s, x)) = j + 1 /\ Append(s, x)[j + 1] = x
        /\ \A k \in 1 .. j : Append(s, x)[k] = s[k]
    BY <2>1, AppendProperties
  <2>6. t = Append(s, x)
    <3>1. \A k \in 1 .. j + 1 : t[k] = Append(s, x)[k]
      <4> SUFFICES ASSUME NEW k \in 1 .. j + 1 PROVE t[k] = Append(s, x)[k]
        OBVIOUS
      <4>1. k \in 1 .. j \/ k = j + 1
        OBVIOUS
      <4> QED
        BY <2>1, <2>5, <4>1
    <3> QED
      BY <2>1, <2>5, <3>1, SeqEqual
  <2>7. SumOf(F, Append(s, x)) = SumOf(F, s) + F[x] /\ SumOf(F, s) \in Int
    BY <1>a, <2>1
  <2>8. SumIn(F, seen(j + 1)) = F[x] + SumIn(F, seen(j))
    BY <1>b, <2>2, <2>3
  <2>9. SumIn(F, seen(j)) \in Int /\ F[x] \in Int
    BY <1>b, <2>1, <2>2
  <2>10. SumOf(F, t) = SumIn(F, seen(j + 1))
    BY <2>4, <2>6, <2>7, <2>8, <2>9
  <2> QED
    BY <2>10 DEF t
<1>5. Nat \subseteq P
  <2> HIDE DEF P
  <2> QED
    BY <1>3, <1>4, SetInduction
<1>6. part(n) = turn /\ seen(n) = S
  OBVIOUS
<1>7. SumOf(F, part(n)) = SumIn(F, seen(n)) /\ part(n) \in Seq(S)
  BY <1>2, <1>5
<1> HIDE DEF part, seen
<1> QED
  BY <1>6, <1>7

-----------------------------------------------------------------------------
(* More about selections *)

(* All rows are found when all are in R.                                   *)
THEOREM AmongAll ==
  ASSUME NEW S, NEW s \in Seq(S), NEW R, \A i \in DOMAIN s : s[i] \in R
  PROVE  Among(s, R) = s
<1> DEFINE P == {r \in Seq(S) : (\A i \in DOMAIN r : r[i] \in R) => Among(r, R) = r}
<1>1. <<>> \in P
  BY AmongNone, EmptySeq
<1>2. ASSUME NEW r \in Seq(S), NEW x \in S, x \in R
      PROVE  Among(Append(r, x), R) = Append(Among(r, R), x)
  BY <1>2, AmongAppend
<1>3. ASSUME NEW r \in P \cap Seq(S), NEW x \in S
      PROVE  Append(r, x) \in P
  <2> DEFINE more == Append(r, x)
             n == Len(r)
  <2>1. /\ more \in Seq(S) /\ n \in Nat /\ DOMAIN more = 1 .. n + 1 /\ more[n + 1] = x
        /\ DOMAIN r = 1 .. n /\ \A i \in 1 .. n : more[i] = r[i]
    BY AppendProperties, LenProperties
  <2>2. x \in R => Among(more, R) = Append(Among(r, R), x)
    BY <1>2
  <2>3. more = Append(r, x)
    OBVIOUS
  <2> HIDE DEF more, n
  <2>4. ASSUME \A i \in DOMAIN more : more[i] \in R
        PROVE  Among(more, R) = more
    <3>1. x \in R /\ \A i \in DOMAIN r : r[i] \in R
      BY <2>1, <2>4
    <3> QED
      BY <2>2, <2>3, <3>1
  <2> QED
    BY <2>1, <2>4 DEF more
<1>4. Seq(S) \subseteq P
  <2> HIDE DEF P
  <2> QED
    BY <1>1, <1>3, RowsInduction
<1> QED
  BY <1>4

(* One row is found when one is in R.                                      *)
THEOREM AmongOne ==
  ASSUME NEW S, NEW s \in Seq(S), NEW R, NEW k \in DOMAIN s,
         \A i \in DOMAIN s : s[i] \in R <=> i = k
  PROVE  Among(s, R) = <<s[k]>>
<1> DEFINE Only(r, j) == \A i \in DOMAIN r : r[i] \in R <=> i = j
           P == {r \in Seq(S) : \A j \in DOMAIN r : Only(r, j) => Among(r, R) = <<r[j]>>}
<1>1. <<>> \in P
  BY EmptySeq
<1>2. ASSUME NEW r \in Seq(S), NEW x \in S
      PROVE  /\ x \in R => Among(Append(r, x), R) = Append(Among(r, R), x)
             /\ x \notin R => Among(Append(r, x), R) = Among(r, R)
  BY AmongAppend
<1>3. ASSUME NEW r \in Seq(S), \A i \in DOMAIN r : r[i] \notin R
      PROVE  Among(r, R) = <<>>
  BY <1>3, AmongNoMatch
<1>4. ASSUME NEW r \in P \cap Seq(S), NEW x \in S
      PROVE  Append(r, x) \in P
  <2> DEFINE more == Append(r, x)
             n == Len(r)
  <2>1. /\ more \in Seq(S) /\ n \in Nat /\ DOMAIN more = 1 .. n + 1 /\ more[n + 1] = x
        /\ DOMAIN r = 1 .. n /\ \A i \in 1 .. n : more[i] = r[i]
    BY AppendProperties, LenProperties
  <2>2. /\ x \in R => Among(more, R) = Append(Among(r, R), x)
        /\ x \notin R => Among(more, R) = Among(r, R)
    BY <1>2
  <2>3. Append(<<>>, x) = <<x>>
    OBVIOUS
  <2> HIDE DEF more, n
  <2>4. ASSUME NEW j \in DOMAIN more, Only(more, j)
        PROVE  Among(more, R) = <<more[j]>>
    <3>1. CASE j = n + 1
      <4>1. x \in R /\ \A i \in DOMAIN r : r[i] \notin R
        BY <2>1, <2>4, <3>1
      <4>2. Among(r, R) = <<>>
        BY <1>3, <4>1
      <4> QED
        BY <2>1, <2>2, <2>3, <3>1, <4>1, <4>2
    <3>2. CASE j # n + 1
      <4>1. j \in DOMAIN r /\ x \notin R /\ Only(r, j)
        BY <2>1, <2>4, <3>2
      <4>2. Among(r, R) = <<r[j]>>
        BY <4>1
      <4> QED
        BY <2>1, <2>2, <4>1, <4>2
    <3> QED
      BY <3>1, <3>2
  <2> QED
    BY <2>1, <2>4 DEF more
<1>5. Seq(S) \subseteq P
  <2> HIDE DEF P
  <2> QED
    BY <1>1, <1>4, RowsInduction
<1> QED
  BY <1>5

(* A sum is no greater over fewer numbers, none of them negative.          *)
LEMMA SumGrowsWithin ==
  ASSUME NEW S, IsFiniteSet(S), NEW F \in [S -> Nat], NEW U \in SUBSET S, NEW T \in SUBSET U
  PROVE  SumIn(F, T) \in Nat /\ SumIn(F, U) \in Nat /\ SumIn(F, T) <= SumIn(F, U)
<1> DEFINE f == [x \in U |-> F[x]]
<1>1. f \in [U -> Nat] /\ IsFiniteSet(U)
  BY FS_Subset
<1>2. /\ [x \in T |-> f[x]] = [x \in T |-> F[x]]
      /\ [x \in U |-> f[x]] = [x \in U |-> F[x]]
  OBVIOUS
<1>3. SumIn(f, T) = SumIn(F, T) /\ SumIn(f, U) = SumIn(F, U)
  <2> HIDE DEF f
  <2> QED
    BY <1>2 DEF SumIn
<1> HIDE DEF f
<1>4. SumIn(f, T) \in Nat /\ SumIn(f, T) <= SumIn(f, U)
  BY <1>1, SumGrows
<1>5. SumIn(f, U) \in Nat
  BY <1>1, SumGrows
<1> QED
  BY <1>3, <1>4, <1>5

(* Zeros may be left out of a sum.                                         *)
LEMMA SumWithoutZeros ==
  ASSUME NEW S, IsFiniteSet(S), NEW F \in [S -> Int], NEW U \in SUBSET S, NEW T \in SUBSET U,
         \A x \in U : x \notin T => F[x] = 0
  PROVE  SumIn(F, U) = SumIn(F, T)
<1> DEFINE P == {s \in SUBSET U : SumIn(F, s) = SumIn(F, s \cap T)}
<1>1. IsFiniteSet(U)
  BY FS_Subset
<1>2. {} \in P
  OBVIOUS
<1>3. ASSUME NEW s \in SUBSET U, s # {}, s \ {AnyOf(s)} \in P
      PROVE  s \in P
  <2> DEFINE m == AnyOf(s)
             t == s \cap T
  <2>1. m \in s
    BY <1>3 DEF AnyOf
  <2>2. SumIn(F, s \ {m}) = SumIn(F, (s \ {m}) \cap T)
    BY <1>3
  <2> HIDE DEF m
  <2>3. SumIn(F, s) = F[m] + SumIn(F, s \ {m}) /\ SumIn(F, s \ {m}) \in Int
    BY <2>1, SumParts
  <2>4. CASE m \in T
    <3>1. m \in t /\ t \in SUBSET S
      BY <2>1, <2>4
    <3>2. SumIn(F, t) = F[m] + SumIn(F, t \ {m})
      <4> HIDE DEF t
      <4> QED
        BY <3>1, SumParts
    <3>3. t \ {m} = (s \ {m}) \cap T
      OBVIOUS
    <3> QED
      BY <2>2, <2>3, <3>2, <3>3
  <2>5. CASE m \notin T
    <3>1. F[m] = 0 /\ t = (s \ {m}) \cap T
      BY <2>1, <2>5
    <3>2. SumIn(F, t) = SumIn(F, s \ {m})
      BY <2>2, <3>1
    <3> HIDE DEF t
    <3>3. SumIn(F, s) = SumIn(F, t)
      BY <2>3, <3>1, <3>2
    <3> QED
      BY <3>3 DEF t
  <2> QED
    BY <2>4, <2>5
<1>4. SUBSET U \subseteq P
  <2> HIDE DEF P
  <2> QED
    BY <1>1, <1>2, <1>3, SubsetInduction
<1>5. U \in P /\ U \cap T = T
  BY <1>4
<1> QED
  BY <1>5

-----------------------------------------------------------------------------
(* The extremes of a finite set of numbers are members of it and bound it. *)
LEMMA ExtremesExist ==
  ASSUME NEW S, IsFiniteSet(S), S # {}, S \subseteq Nat
  PROVE  /\ Min(S) \in S /\ \A x \in S : Min(S) <= x
         /\ Max(S) \in S /\ \A x \in S : Max(S) >= x
<1> DEFINE up == {xy \in S \X S : xy[1] < xy[2]}
           down == {xy \in S \X S : xy[2] < xy[1]}
<1>1. \A x, y \in S : (<<x, y>> \in up <=> x < y) /\ (<<x, y>> \in down <=> y < x)
  OBVIOUS
<1>2. \A x \in S : x \in Nat
  OBVIOUS
<1> HIDE DEF up, down
<1>3. IsTotalOrder(up, S) /\ IsTotalOrder(down, S)
  BY <1>1, <1>2 DEF IsTotalOrder
<1>4. PICK m \in S : \A x \in S \ {m} : <<x, m>> \in up
  BY <1>3, LastExists
<1>5. PICK n \in S : \A x \in S \ {n} : <<x, n>> \in down
  BY <1>3, LastExists, ZenonT(60)
<1>6. \A x \in S : m >= x
  <2> SUFFICES ASSUME NEW x \in S PROVE m >= x
    OBVIOUS
  <2>1. CASE x = m
    BY <1>2, <2>1
  <2>2. CASE x # m
    <3>1. <<x, m>> \in up
      BY <1>4, <2>2
    <3>2. x < m
      BY <1>1, <3>1
    <3> QED
      BY <1>2, <3>2
  <2> QED
    BY <2>1, <2>2
<1>7. \A x \in S : n <= x
  <2> SUFFICES ASSUME NEW x \in S PROVE n <= x
    OBVIOUS
  <2>1. CASE x = n
    BY <1>2, <2>1
  <2>2. CASE x # n
    <3>1. <<x, n>> \in down
      BY <1>5, <2>2
    <3>2. n < x
      BY <1>1, <3>1
    <3> QED
      BY <1>2, <3>2
  <2> QED
    BY <2>1, <2>2
<1>8. Max(S) \in S /\ \A x \in S : Max(S) >= x
  BY <1>6 DEF Max
<1>9. Min(S) \in S /\ \A x \in S : Min(S) <= x
  BY <1>7 DEF Min
<1> QED
  BY <1>8, <1>9

(* And a member that bounds it is the extreme.                             *)
LEMMA ExtremeIs ==
  ASSUME NEW S, IsFiniteSet(S), S # {}, S \subseteq Nat, NEW m \in S
  PROVE  /\ (\A x \in S : x <= m) => Max(S) = m
         /\ (\A x \in S : m <= x) => Min(S) = m
<1>1. /\ Max(S) \in S /\ Min(S) \in S
      /\ (\A x \in S : Max(S) >= x) /\ (\A x \in S : Min(S) <= x)
  BY ExtremesExist
<1>2. m \in Nat /\ Max(S) \in Nat /\ Min(S) \in Nat
  BY <1>1
<1>3. Max(S) >= m /\ Min(S) <= m
  BY <1>1
<1>4. ASSUME \A x \in S : x <= m PROVE Max(S) = m
  <2>1. Max(S) <= m
    BY <1>1, <1>4
  <2> QED
    BY <1>2, <1>3, <2>1
<1>5. ASSUME \A x \in S : m <= x PROVE Min(S) = m
  <2>1. m <= Min(S)
    BY <1>1, <1>5
  <2> QED
    BY <1>2, <1>3, <2>1
<1> QED
  BY <1>4, <1>5

-----------------------------------------------------------------------------
(* Members of a selection, and selections of parts                         *)

(* The rows found are those looked for, and all of them.                   *)
THEOREM AmongMembers ==
  ASSUME NEW S, NEW s \in Seq(S), NEW R
  PROVE  /\ \A k \in DOMAIN Among(s, R) :
              Among(s, R)[k] \in R /\ \E i \in DOMAIN s : Among(s, R)[k] = s[i]
         /\ \A i \in DOMAIN s : s[i] \in R =>
              \E k \in DOMAIN Among(s, R) : Among(s, R)[k] = s[i]
<1> DEFINE I == {i \in DOMAIN s : s[i] \in R}
           found == RowsAt(s, I)
<1>1. found \in Seq(S) /\ Len(found) \in Nat /\ DOMAIN found = 1 .. Len(found)
      /\ DOMAIN s = 1 .. Len(s)
  BY RowsAtIsSeq, LenProperties
<1>2. PICK pos : IsFoundAt(pos, s, I, found)
  BY RowsAtPlaces
<1>3. \A i \in I : i \in DOMAIN s /\ s[i] \in R
  OBVIOUS
<1>4. \A i \in DOMAIN s : s[i] \in R => i \in I \cap (1 .. Len(s))
  BY <1>1
<1>5. Among(s, R) = found
  BY DEF Among
<1> HIDE DEF I, found
<1>6. ASSUME NEW k \in DOMAIN found
      PROVE  found[k] \in R /\ \E i \in DOMAIN s : found[k] = s[i]
  <2>1. pos[k] \in I /\ found[k] = s[pos[k]]
    BY <1>1, <1>2 DEF IsFoundAt
  <2> QED
    BY <1>3, <2>1
<1>7. ASSUME NEW i \in DOMAIN s, s[i] \in R
      PROVE  \E k \in DOMAIN found : found[k] = s[i]
  <2>1. PICK k \in 1 .. Len(found) : pos[k] = i
    BY <1>2, <1>4, <1>7 DEF IsFoundAt
  <2>2. found[k] = s[i]
    BY <1>2, <2>1 DEF IsFoundAt
  <2> QED
    BY <1>1, <2>2
<1> QED
  BY <1>5, <1>6, <1>7

(* Only which of the rows are looked for matters.                          *)
THEOREM AmongSame ==
  ASSUME NEW s, NEW R, NEW Q, \A i \in DOMAIN s : s[i] \in R <=> s[i] \in Q
  PROVE  Among(s, R) = Among(s, Q)
<1>1. {i \in DOMAIN s : s[i] \in R} = {i \in DOMAIN s : s[i] \in Q}
  OBVIOUS
<1> QED
  BY <1>1 DEF Among

(* Rows of one of two kinds are counted kind by kind.                      *)
THEOREM AmongEither ==
  ASSUME NEW S, NEW R, NEW Q, R \cap Q = {}
  PROVE  \A s \in Seq(S) :
           /\ Len(Among(s, R)) \in Nat /\ Len(Among(s, Q)) \in Nat
           /\ Len(Among(s, R \cup Q)) = Len(Among(s, R)) + Len(Among(s, Q))
<1> DEFINE P == {s \in Seq(S) : Len(Among(s, R \cup Q)) = Len(Among(s, R)) + Len(Among(s, Q))}
<1>1. <<>> \in P
  <2>1. <<>> \in Seq(S) /\ Len(<<>>) = 0
    BY EmptySeq
  <2> QED
    BY <2>1, AmongNone
<1>5. \A q \in Seq(S), y \in S : \A A :
        /\ Among(q, A) \in Seq(S)
        /\ Among(Append(q, y), A) = IF y \in A THEN Append(Among(q, A), y) ELSE Among(q, A)
  BY AmongAppend
<1>2. ASSUME NEW s \in P \cap Seq(S), NEW x \in S
      PROVE  Append(s, x) \in P
  <2>1. s \in Seq(S) /\ Append(s, x) \in Seq(S)
    BY AppendProperties
  <2>3. Len(Among(s, R \cup Q)) = Len(Among(s, R)) + Len(Among(s, Q))
    OBVIOUS
  <2> HIDE DEF P
  <2>2. \A A : /\ Among(s, A) \in Seq(S) /\ Len(Among(s, A)) \in Nat
               /\ Len(Among(Append(s, x), A)) =
                    IF x \in A THEN Len(Among(s, A)) + 1 ELSE Len(Among(s, A))
    <3> SUFFICES ASSUME NEW A
                 PROVE  /\ Among(s, A) \in Seq(S) /\ Len(Among(s, A)) \in Nat
                        /\ Len(Among(Append(s, x), A)) =
                             IF x \in A THEN Len(Among(s, A)) + 1 ELSE Len(Among(s, A))
      OBVIOUS
    <3>1. /\ Among(s, A) \in Seq(S)
          /\ Among(Append(s, x), A) = IF x \in A THEN Append(Among(s, A), x) ELSE Among(s, A)
      BY <1>5, <2>1
    <3>2. Len(Append(Among(s, A), x)) = Len(Among(s, A)) + 1 /\ Len(Among(s, A)) \in Nat
      BY <3>1, AppendProperties, LenProperties
    <3> QED
      BY <3>1, <3>2
  <2>4. (x \in R \cup Q <=> x \in R \/ x \in Q) /\ ~(x \in R /\ x \in Q)
    OBVIOUS
  <2>5. Len(Among(Append(s, x), R \cup Q)) =
          Len(Among(Append(s, x), R)) + Len(Among(Append(s, x), Q))
    BY <2>2, <2>3, <2>4
  <2> QED
    BY <2>1, <2>5 DEF P
<1>3. Seq(S) \subseteq P
  <2> HIDE DEF P
  <2> QED
    BY <1>1, <1>2, RowsInduction
<1>4. \A s \in Seq(S) : \A A : Among(s, A) \in Seq(S)
  BY RowsAtIsSeq DEF Among
<1> QED
  BY <1>3, <1>4, LenProperties

(* The sum of one number more.                                             *)
THEOREM TotalOfMore ==
  ASSUME NEW n \in Nat, NEW f \in [1 .. n + 1 -> Int]
  PROVE  /\ Total([i \in 1 .. n |-> f[i]]) \in Int
         /\ Total([i \in 1 .. n + 1 |-> f[i]]) = Total([i \in 1 .. n |-> f[i]]) + f[n + 1]
<1> DEFINE s == [i \in 1 .. n |-> f[i]]
           t == [i \in 1 .. n + 1 |-> f[i]]
<1>1. s \in Seq(Int) /\ Len(s) = n /\ t \in Seq(Int) /\ Len(t) = n + 1 /\ f[n + 1] \in Int
  <2>1. s \in [1 .. n -> Int] /\ t \in [1 .. n + 1 -> Int] /\ n + 1 \in Nat
    OBVIOUS
  <2> HIDE DEF s, t
  <2>2. s \in Seq(Int) /\ t \in Seq(Int)
    BY <2>1, SeqDef
  <2> QED
    BY <2>1, <2>2, LenProperties
<1>2. t = Append(s, f[n + 1])
  <2> DEFINE a == Append(s, f[n + 1])
  <2>1. a \in Seq(Int) /\ Len(a) = n + 1 /\ a[n + 1] = f[n + 1] /\ \A i \in 1 .. n : a[i] = s[i]
    BY <1>1, AppendProperties
  <2>2. \A i \in 1 .. n + 1 : a[i] = t[i]
    <3> SUFFICES ASSUME NEW i \in 1 .. n + 1 PROVE a[i] = t[i]
      OBVIOUS
    <3>1. i \in 1 .. n \/ i = n + 1
      OBVIOUS
    <3> QED
      BY <2>1, <3>1
  <2> HIDE DEF a, t, s
  <2>3. a = t
    BY <1>1, <2>1, <2>2, SeqEqual
  <2> QED
    BY <2>3 DEF a
<1> HIDE DEF s, t
<1>3. Total(s) \in Int /\ Total(t) = Total(s) + f[n + 1]
  BY <1>1, <1>2, TotalIsInt, TotalAppend
<1> QED
  BY <1>3 DEF s, t

-----------------------------------------------------------------------------
(* The place of a number among those of a finite set, the greatest first   *)

Above(S, p) == {q \in S : q > p}

LEMMA AboveCounts ==
  ASSUME NEW S, IsFiniteSet(S), S \subseteq Nat
  PROVE  /\ Cardinality(S) \in Nat
         /\ \A p \in S : Cardinality(Above(S, p)) \in 0 .. Cardinality(S) - 1
         /\ \A p, q \in S : p < q <=> Cardinality(Above(S, q)) < Cardinality(Above(S, p))
         /\ \A i \in 1 .. Cardinality(S) : \E p \in S : Cardinality(Above(S, p)) = i - 1
<1> DEFINE down == {xy \in S \X S : xy[2] < xy[1]}
<1>1. (\A x, y \in S : <<x, y>> \in down <=> y < x) /\ \A x \in S : x \in Nat
  OBVIOUS
<1> HIDE DEF down
<1>2. IsTotalOrder(down, S)
  BY <1>1 DEF IsTotalOrder
<1>3. Cardinality(S) \in Nat
  BY FS_CardinalityType
<1>4. PICK turn \in [1 .. Cardinality(S) -> S] : InOrder(turn, Cardinality(S), down)
  BY <1>2, SortExists
<1>5. /\ \A a, b \in 1 .. Cardinality(S) : a # b => turn[a] # turn[b]
      /\ \A x \in S : \E a \in 1 .. Cardinality(S) : turn[a] = x
  BY <1>2, <1>4, SortedOnce
<1>6. \A a, b \in 1 .. Cardinality(S) : a < b <=> turn[b] < turn[a]
  <2> SUFFICES ASSUME NEW a \in 1 .. Cardinality(S), NEW b \in 1 .. Cardinality(S)
               PROVE  a < b <=> turn[b] < turn[a]
    OBVIOUS
  <2>1. turn[a] \in S /\ turn[b] \in S /\ a \in Nat /\ b \in Nat
    BY <1>3
  <2>2. turn[a] \in Nat /\ turn[b] \in Nat
    BY <1>1, <2>1
  <2>3. a < b => turn[b] < turn[a]
    BY <1>1, <1>4, <2>1 DEF InOrder
  <2>4. b < a => turn[a] < turn[b]
    BY <1>1, <1>4, <2>1 DEF InOrder
  <2> QED
    BY <2>1, <2>2, <2>3, <2>4
<1>7. \A i \in 1 .. Cardinality(S) : Cardinality(Above(S, turn[i])) = i - 1
  <2> SUFFICES ASSUME NEW i \in 1 .. Cardinality(S)
               PROVE  Cardinality(Above(S, turn[i])) = i - 1
    OBVIOUS
  <2> DEFINE f == [j \in 1 .. i - 1 |-> turn[j]]
  <2>1. i \in Nat /\ i - 1 \in Nat /\ \A j \in 1 .. i - 1 : j \in 1 .. Cardinality(S) /\ j < i
    BY <1>3
  <2>2. f \in [1 .. i - 1 -> Above(S, turn[i])]
    <3> SUFFICES ASSUME NEW j \in 1 .. i - 1 PROVE turn[j] \in Above(S, turn[i])
      OBVIOUS
    <3>1. j \in 1 .. Cardinality(S) /\ j < i /\ turn[j] \in S /\ turn[i] \in S
      BY <2>1
    <3>2. turn[i] < turn[j] /\ turn[i] \in Nat /\ turn[j] \in Nat
      BY <1>1, <1>6, <3>1
    <3> QED
      BY <3>1, <3>2 DEF Above
  <2>3. \A j, k \in 1 .. i - 1 : f[j] = f[k] => j = k
    BY <1>5, <2>1
  <2>4. \A x \in Above(S, turn[i]) : \E j \in 1 .. i - 1 : f[j] = x
    <3> SUFFICES ASSUME NEW x \in Above(S, turn[i]) PROVE \E j \in 1 .. i - 1 : turn[j] = x
      OBVIOUS
    <3>1. x \in S /\ x > turn[i]
      BY DEF Above
    <3>2. PICK j \in 1 .. Cardinality(S) : turn[j] = x
      BY <1>5, <3>1
    <3>3. turn[i] \in Nat /\ x \in Nat
      BY <1>1, <3>1
    <3>4. j < i
      BY <1>6, <3>1, <3>2, <3>3
    <3>5. j \in 1 .. i - 1
      BY <1>3, <2>1, <3>4
    <3> QED
      BY <3>2, <3>5
  <2> HIDE DEF f
  <2>5. f \in Bijection(1 .. i - 1, Above(S, turn[i]))
    BY <2>2, <2>3, <2>4 DEF Bijection, Injection, Surjection, IsInjective
  <2>6. IsFiniteSet(1 .. i - 1) /\ Cardinality(1 .. i - 1) = i - 1
    BY <2>1, FS_Interval
  <2>7. ExistsBijection(1 .. i - 1, Above(S, turn[i]))
    BY <2>5 DEF ExistsBijection
  <2> QED
    BY <2>6, <2>7, FS_Bijection
<1>8. \A p \in S : \E i \in 1 .. Cardinality(S) : turn[i] = p /\ Cardinality(Above(S, p)) = i - 1
  BY <1>5, <1>7
<1>9. \A p \in S : Cardinality(Above(S, p)) \in 0 .. Cardinality(S) - 1
  BY <1>3, <1>8
<1>10. ASSUME NEW p \in S, NEW q \in S
       PROVE  p < q <=> Cardinality(Above(S, q)) < Cardinality(Above(S, p))
  <2>1. PICK a \in 1 .. Cardinality(S) : turn[a] = p /\ Cardinality(Above(S, p)) = a - 1
    BY <1>8
  <2>2. PICK b \in 1 .. Cardinality(S) : turn[b] = q /\ Cardinality(Above(S, q)) = b - 1
    BY <1>8
  <2>3. b < a <=> p < q
    BY <1>6, <2>1, <2>2
  <2>4. a \in Nat /\ b \in Nat
    BY <1>3
  <2> QED
    BY <2>1, <2>2, <2>3, <2>4
<1>11. \A i \in 1 .. Cardinality(S) : turn[i] \in S
  OBVIOUS
<1> QED
  BY <1>3, <1>7, <1>9, <1>10, <1>11
=============================================================================
