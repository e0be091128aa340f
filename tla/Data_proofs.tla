----------------------------- MODULE Data_proofs -----------------------------
(***************************************************************************)
(* What the proofs of the contracts need to know about stored data: sums   *)
(* over finite maps, snapshots (a write is seen by queries for later       *)
(* heights, and by no others), sequences, and listings by pages.           *)
(***************************************************************************)
EXTENDS Sums, Snapshot, Listing, Integers, FiniteSetTheorems, SequenceTheorems, TLAPS

-----------------------------------------------------------------------------
(* Sums.                                                                   *)
LEMMA UnitsMember ==
  ASSUME NEW f, NEW S, S = DOMAIN f, NEW u
  PROVE  u \in Units(f) <=> \E x \in S : \E i \in 1..f[x] : u = <<x, i>>
BY DEF Units

(* The units of a finite map are finite.  Induction over the subsets of    *)
(* the domain, by a minimal counterexample.                                *)
LEMMA UnitsFinite ==
  ASSUME NEW S, IsFiniteSet(S), NEW f \in [S -> Nat]
  PROVE  IsFiniteSet(Units(f))
<1> DEFINE Part(T) == {u \in Units(f) : u[1] \in T}
           Bad == {T \in SUBSET S : ~ IsFiniteSet(Part(T))}
<1>1. SUFFICES ASSUME Bad # {} PROVE FALSE
  <2>1. S \notin Bad BY <1>1
  <2>2. Part(S) = Units(f) BY UnitsMember
  <2> QED BY <2>1, <2>2
<1>2. Bad \subseteq FiniteSubsetsOf(S)
  BY FS_FiniteSubsetsOfFinite
<1>3. PICK T \in Bad : \A U \in Bad : ~ (<<U, T>> \in StrictSubsetOrdering(S))
  <2> HIDE DEF Bad
  <2> QED BY <1>1, <1>2, FS_StrictSubsetOrderingWellFounded, WFMin
<1>4. T # {}
  <2>1. Part({}) = {} OBVIOUS
  <2> QED BY <2>1, FS_EmptySet
<1>5. PICK x \in T : TRUE BY <1>4
<1>6. IsFiniteSet(Part(T \ {x}))
  <2>1. <<T \ {x}, T>> \in StrictSubsetOrdering(S)
    BY <1>3, <1>5 DEF StrictSubsetOrdering
  <2>2. T \ {x} \in SUBSET S BY <1>3
  <2> QED BY <1>3, <2>1, <2>2
<1>7. IsFiniteSet({x} \X (1..f[x]))
  <2>1. x \in S /\ f[x] \in Int BY <1>3, <1>5
  <2>2. IsFiniteSet(1..f[x]) BY <2>1, FS_Interval
  <2> QED BY <2>2, FS_Singleton, FS_Product
<1>8. Part(T) = Part(T \ {x}) \cup ({x} \X (1..f[x]))
  <2>1. x \in S BY <1>3, <1>5
  <2>2. ASSUME NEW u PROVE u \in Part(T) <=> u \in Part(T \ {x}) \cup ({x} \X (1..f[x]))
    BY <2>1, <1>5, UnitsMember
  <2> QED BY <2>2
<1>9. IsFiniteSet(Part(T))
  <2>1. \A A, B : IsFiniteSet(A) /\ IsFiniteSet(B) => IsFiniteSet(A \cup B)
    BY FS_Union
  <2>2. IsFiniteSet(Part(T \ {x}) \cup ({x} \X (1..f[x])))
    BY <1>6, <1>7, <2>1, Zenon
  <2> QED BY <1>8, <2>2, Zenon
<1> QED BY <1>3, <1>9

LEMMA TotalType ==
  ASSUME NEW S, IsFiniteSet(S), NEW f \in [S -> Nat]
  PROVE  Total(f) \in Nat
BY UnitsFinite, FS_CardinalityType DEF Total

LEMMA TotalZero ==
  ASSUME NEW S, NEW f \in [S -> Nat], \A x \in S : f[x] = 0
  PROVE  Total(f) = 0
<1>1. Units(f) = {} BY DEF Units
<1> QED BY <1>1, FS_EmptySet DEF Total

(* A map that is pointwise smaller on a smaller domain has a smaller sum.  *)
LEMMA TotalMonotone ==
  ASSUME NEW S, IsFiniteSet(S), NEW R \in SUBSET S,
         NEW f \in [R -> Nat], NEW g \in [S -> Nat],
         \A x \in R : f[x] <= g[x]
  PROVE  Total(f) <= Total(g)
<1>1. Units(f) \in SUBSET Units(g)
  <2>1. ASSUME NEW x \in R PROVE 1..f[x] \subseteq 1..g[x]
    BY <2>1
  <2>2. ASSUME NEW u \in Units(f) PROVE u \in Units(g)
    BY <2>1, <2>2, UnitsMember
  <2> QED BY <2>2
<1>2. IsFiniteSet(Units(g)) BY UnitsFinite
<1> HIDE DEF Units
<1> QED BY <1>1, <1>2, FS_Subset DEF Total

(* The same when the smaller map is embedded in the larger one. *)
LEMMA TotalEmbedding ==
  ASSUME NEW R, NEW S, IsFiniteSet(S),
         NEW f \in [R -> Nat], NEW g \in [S -> Nat], NEW m \in [R -> S],
         \A x, y \in R : m[x] = m[y] => x = y,
         \A x \in R : f[x] <= g[m[x]]
  PROVE  Total(f) <= Total(g)
<1> DEFINE U == Units(f)
           V == Units(g)
           e == [u \in U |-> <<m[u[1]], u[2]>>]
<1>1. ASSUME NEW u \in U PROVE u[1] \in R /\ u[2] \in 1..f[u[1]] /\ u = <<u[1], u[2]>>
  BY UnitsMember
<1>2. ASSUME NEW u \in U PROVE e[u] \in V
  <2>1. m[u[1]] \in S /\ u[2] \in 1..g[m[u[1]]] BY <1>1
  <2>2. e[u] = <<m[u[1]], u[2]>> OBVIOUS
  <2> QED BY <2>1, <2>2, UnitsMember
<1>3. ASSUME NEW u \in U, NEW v \in U, e[u] = e[v] PROVE u = v
  <2>1. m[u[1]] = m[v[1]] /\ u[2] = v[2] BY <1>3
  <2>2. u[1] = v[1] BY <1>1, <2>1
  <2> QED BY <1>1, <2>1, <2>2
<1>4. e \in Injection(U, V)
  <2> HIDE DEF U, V
  <2>1. e \in [U -> V] BY <1>2
  <2>2. IsInjective(e) BY <1>3 DEF IsInjective
  <2> QED BY <2>1, <2>2 DEF Injection
<1>5. IsFiniteSet(V) BY UnitsFinite
<1>6. Cardinality(U) <= Cardinality(V)
  <2> HIDE DEF U, V, e
  <2> QED BY <1>4, <1>5, FS_Injection
<1> QED BY <1>6 DEF Total

(* Of finitely many numbers, if any, one is the greatest.                  *)
LEMMA Greatest ==
  ASSUME NEW S \in SUBSET Nat, IsFiniteSet(S), NEW T \in SUBSET S, T # {}
  PROVE  \E i \in T : \A j \in T : j <= i
<1> DEFINE Above(i) == {j \in T : j > i}
           All == {Above(i) : i \in T}
<1>1. All \subseteq FiniteSubsetsOf(S)
  <2>1. FiniteSubsetsOf(S) = SUBSET S BY FS_FiniteSubsetsOfFinite
  <2>2. \A i \in T : Above(i) \in SUBSET S OBVIOUS
  <2>3. All \subseteq SUBSET S
    <3> HIDE DEF Above
    <3> QED BY <2>2, Zenon
  <2> QED
    <3> HIDE DEF All
    <3> QED BY <2>1, <2>3
<1>0. \A x \in T : x \in Int OBVIOUS
<1>2. All # {} OBVIOUS
<1>3. PICK A \in All : \A B \in All : ~ (<<B, A>> \in StrictSubsetOrdering(S))
  <2> HIDE DEF All
  <2> QED BY <1>1, <1>2, FS_StrictSubsetOrderingWellFounded, WFMin
<1>4. PICK i \in T : A = Above(i) BY <1>3
<1>5. ASSUME NEW j \in T, j > i PROVE FALSE
  <2>1. Above(j) \in SUBSET S /\ Above(i) \in SUBSET S OBVIOUS
  <2>2. Above(j) \subseteq Above(i) /\ j \in Above(i) /\ j \notin Above(j)
    <3>1. i \in Int /\ j \in Int /\ ~ (j > j) BY <1>0
    <3>2. \A x \in T : x > j => x > i BY <1>0, <1>5, <3>1
    <3> QED BY <1>5, <3>1, <3>2, Zenon
  <2>3. <<Above(j), Above(i)>> \in StrictSubsetOrdering(S)
    BY <2>1, <2>2 DEF StrictSubsetOrdering
  <2> QED BY <1>3, <1>4, <2>3
<1> QED BY <1>0, <1>5

LEMMA GreatestIndex ==
  ASSUME NEW n \in Nat, NEW T \in SUBSET (1..n), T # {}
  PROVE  \E i \in T : \A j \in T : j <= i
<1>1. IsFiniteSet(1..n) BY FS_Interval
<1>2. 1..n \in SUBSET Nat OBVIOUS
<1> QED BY <1>1, <1>2, Greatest

LEMMA LeastIndex ==
  ASSUME NEW n \in Nat, NEW T \in SUBSET (0..n), T # {}
  PROVE  \E i \in T : \A j \in T : i <= j
<1> DEFINE U == {m \in 1..(n + 1) : n + 1 - m \in T}
<1>1. PICK t \in T : TRUE OBVIOUS
<1>2. n + 1 - t \in U BY <1>1
<1>3. PICK u \in U : \A m \in U : m <= u
  <2>1. U \in SUBSET (1..(n + 1)) /\ n + 1 \in Nat OBVIOUS
  <2>2. U # {} BY <1>2
  <2> HIDE DEF U
  <2> QED BY <2>1, <2>2, GreatestIndex
<1>4. \A j \in T : n + 1 - j \in U /\ n + 1 - u <= j
  <2> SUFFICES ASSUME NEW j \in T PROVE n + 1 - j \in U /\ n + 1 - u <= j OBVIOUS
  <2>1. n + 1 - j \in U OBVIOUS
  <2>2. n + 1 - j <= u BY <1>3, <2>1
  <2>3. u \in Int /\ j \in Int OBVIOUS
  <2> QED BY <2>1, <2>2, <2>3
<1>5. n + 1 - u \in T BY <1>3
<1> QED BY <1>4, <1>5

(* A sum may be taken in two parts.                                        *)
LEMMA TotalSplit ==
  ASSUME NEW S, IsFiniteSet(S), NEW D \in SUBSET S, NEW f \in [S -> Nat]
  PROVE  Total(f) = Total([x \in D |-> f[x]]) + Total([x \in S \ D |-> f[x]])
<1> DEFINE g == [x \in D |-> f[x]]
           h == [x \in S \ D |-> f[x]]
<1>1. g \in [D -> Nat] /\ h \in [S \ D -> Nat] OBVIOUS
<1>2. IsFiniteSet(D) /\ IsFiniteSet(S \ D) BY FS_Subset
<1>3. IsFiniteSet(Units(g)) /\ IsFiniteSet(Units(h)) 
  <2> HIDE DEF g, h
  <2> QED BY <1>1, <1>2, UnitsFinite
<1>4. Units(f) = Units(g) \cup Units(h)
  <2>1. ASSUME NEW u PROVE u \in Units(f) <=> u \in Units(g) \/ u \in Units(h)
    <3>1. u \in Units(f) <=> \E x \in S : \E i \in 1..f[x] : u = <<x, i>> BY UnitsMember
    <3>2. u \in Units(g) <=> \E x \in D : \E i \in 1..f[x] : u = <<x, i>> BY UnitsMember
    <3>3. u \in Units(h) <=> \E x \in S \ D : \E i \in 1..f[x] : u = <<x, i>> BY UnitsMember
    <3> HIDE DEF g, h
    <3> QED BY <3>1, <3>2, <3>3
  <2> HIDE DEF g, h
  <2> QED BY <2>1
<1>5. Units(g) \cap Units(h) = {}
  <2>1. ASSUME NEW u, u \in Units(g) PROVE u \notin Units(h)
    <3>1. \E x \in D : \E i \in 1..f[x] : u = <<x, i>> BY <2>1, UnitsMember
    <3>2. u \in Units(h) <=> \E x \in S \ D : \E i \in 1..f[x] : u = <<x, i>> BY UnitsMember
    <3> HIDE DEF g, h
    <3> QED BY <3>1, <3>2
  <2> HIDE DEF g, h
  <2> QED BY <2>1
<1> HIDE DEF g, h
<1>6. Cardinality(Units(g) \cup Units(h))
        = Cardinality(Units(g)) + Cardinality(Units(h)) - Cardinality(Units(g) \cap Units(h))
  BY <1>3, FS_Union
<1>7. Cardinality(Units(g) \cap Units(h)) = 0 BY <1>5, FS_EmptySet
<1>8. Cardinality(Units(g)) \in Nat /\ Cardinality(Units(h)) \in Nat
  BY <1>3, FS_CardinalityType
<1>9. Total(f) = Total(g) + Total(h) BY <1>4, <1>6, <1>7, <1>8 DEF Total
<1> QED BY <1>9 DEF g, h

(* Changing one entry changes the sum by the difference of the entries.    *)
LEMMA TotalUpdate ==
  ASSUME NEW S, IsFiniteSet(S), NEW f \in [S -> Nat], NEW x \in S, NEW v \in Nat
  PROVE  Total([f EXCEPT ![x] = v]) = Total(f) - f[x] + v
<1> DEFINE g == [f EXCEPT ![x] = v]
           Rest == {u \in Units(f) : u[1] # x}
           Own(n) == {x} \X (1..n)
<1>1. g \in [S -> Nat] /\ g[x] = v /\ \A y \in S \ {x} : g[y] = f[y]
  OBVIOUS
<1>2. Units(f) = Rest \cup Own(f[x])
  <2>1. ASSUME NEW u PROVE u \in Units(f) <=> u \in Rest \cup Own(f[x])
    BY UnitsMember
  <2> QED BY <2>1
<1>3. Units(g) = Rest \cup Own(v)
  <2> HIDE DEF g
  <2>1. ASSUME NEW u PROVE u \in Units(g) <=> u \in Rest \cup Own(v)
    <3>1. u \in Units(g) <=> \E y \in S : \E i \in 1..g[y] : u = <<y, i>>
      BY <1>1, UnitsMember
    <3>2. u \in Units(f) <=> \E y \in S : \E i \in 1..f[y] : u = <<y, i>>
      BY UnitsMember
    <3> QED BY <1>1, <3>1, <3>2
  <2> QED BY <2>1
<1>4. IsFiniteSet(Units(f)) BY UnitsFinite
<1>5. IsFiniteSet(Rest) /\ Cardinality(Rest) \in Nat
  <2>1. Rest \in SUBSET Units(f) OBVIOUS
  <2>2. IsFiniteSet(Rest)
    <3> HIDE DEF Rest
    <3> QED BY <1>4, <2>1, FS_Subset
  <2> QED BY <2>2, FS_CardinalityType
<1>6. ASSUME NEW n \in Nat
      PROVE  Cardinality(Rest \cup Own(n)) = Cardinality(Rest) + n
  <2>1. IsFiniteSet(1..n) /\ Cardinality(1..n) = n BY FS_Interval
  <2>2. IsFiniteSet(Own(n)) /\ Cardinality(Own(n)) = 1 * n
    <3>1. IsFiniteSet({x}) /\ Cardinality({x}) = 1 BY FS_Singleton
    <3>2. \A A, B : IsFiniteSet(A) /\ IsFiniteSet(B) =>
            /\ IsFiniteSet(A \X B)
            /\ Cardinality(A \X B) = Cardinality(A) * Cardinality(B)
      BY FS_Product
    <3>3. /\ IsFiniteSet({x} \X (1..n))
          /\ Cardinality({x} \X (1..n)) = Cardinality({x}) * Cardinality(1..n)
      BY <2>1, <3>1, <3>2, Zenon
    <3> QED BY <2>1, <3>1, <3>3, Zenon
  <2>3. Rest \cap Own(n) = {} OBVIOUS
  <2>4. Cardinality(Own(n)) = n
    <3> HIDE DEF Own
    <3> QED BY <2>2
  <2>5. \A A, B : IsFiniteSet(A) /\ IsFiniteSet(B) =>
          Cardinality(A \cup B)
            = Cardinality(A) + Cardinality(B) - Cardinality(A \cap B)
    BY FS_Union
  <2> HIDE DEF Rest, Own
  <2>6. Cardinality(Rest \cup Own(n))
          = Cardinality(Rest) + Cardinality(Own(n)) - Cardinality(Rest \cap Own(n))
    BY <1>5, <2>2, <2>5, Zenon
  <2>7. Cardinality(Rest \cap Own(n)) = 0 BY <2>3, FS_EmptySet
  <2> QED BY <1>5, <2>4, <2>6, <2>7
<1>7. Total(f) = Cardinality(Rest) + f[x] BY <1>2, <1>6 DEF Total
<1>8. Total(g) = Cardinality(Rest) + v BY <1>3, <1>6 DEF Total
<1> HIDE DEF Rest, g
<1>9. Total(g) = Total(f) - f[x] + v BY <1>5, <1>7, <1>8
<1> QED BY <1>9 DEF g

(* No part of a sum is greater than the sum.                               *)
LEMMA PartOfTotal ==
  ASSUME NEW S, IsFiniteSet(S), NEW f \in [S -> Nat], NEW x \in S
  PROVE  f[x] <= Total(f)
<1> DEFINE g == [f EXCEPT ![x] = 0]
<1>1. Total(g) = Total(f) - f[x] + 0
  <2>1. 0 \in Nat OBVIOUS
  <2> HIDE DEF g
  <2>2. Total([f EXCEPT ![x] = 0]) = Total(f) - f[x] + 0 BY <2>1, TotalUpdate
  <2> QED BY <2>2 DEF g
<1>2. g \in [S -> Nat] OBVIOUS
<1> HIDE DEF g
<1>3. Total(g) \in Nat /\ Total(f) \in Nat /\ f[x] \in Nat BY <1>2, TotalType
<1> QED BY <1>1, <1>3

LEMMA TotalChanged ==
  ASSUME NEW S, IsFiniteSet(S), NEW f \in [S -> Nat], NEW g \in [S -> Nat], NEW x \in S,
         \A y \in S \ {x} : g[y] = f[y]
  PROVE  /\ Total(g) = Total(f) - f[x] + g[x]
         /\ Total(f) \in Nat /\ Total(g) \in Nat
<1> DEFINE v == g[x]
<1>1. v \in Nat /\ g = [f EXCEPT ![x] = v] OBVIOUS
<1> HIDE DEF v
<1>2. \A F \in [S -> Nat], y \in S, n \in Nat : Total([F EXCEPT ![y] = n]) = Total(F) - F[y] + n
  BY TotalUpdate
<1>3. Total([f EXCEPT ![x] = v]) = Total(f) - f[x] + v BY <1>1, <1>2, Zenon
<1> QED BY <1>1, <1>3, TotalType DEF v

(* Only one entry counts. *)
LEMMA TotalSingle ==
  ASSUME NEW S, IsFiniteSet(S), NEW f \in [S -> Nat], NEW x \in S,
         \A y \in S \ {x} : f[y] = 0
  PROVE  Total(f) = f[x]
<1> DEFINE z == [y \in S |-> 0]
           n == f[x]
<1>1. z \in [S -> Nat] /\ (\A y \in S : z[y] = 0) /\ n \in Nat OBVIOUS
<1>2. f = [z EXCEPT ![x] = n] OBVIOUS
<1> HIDE DEF z, n
<1>3. Total(z) = 0 BY <1>1, TotalZero
<1>4. \A F \in [S -> Nat], y \in S, m \in Nat : Total([F EXCEPT ![y] = m]) = Total(F) - F[y] + m
  BY TotalUpdate
<1>5. Total([z EXCEPT ![x] = n]) = Total(z) - z[x] + n BY <1>1, <1>4, Zenon
<1>6. Total(f) = n BY <1>1, <1>2, <1>3, <1>5
<1> QED BY <1>6 DEF n

(* A new entry adds its value to the sum.                                  *)
LEMMA TotalExtend ==
  ASSUME NEW S, IsFiniteSet(S), NEW x, x \notin S, NEW v \in Nat,
         NEW f \in [S -> Nat], NEW g \in [S \cup {x} -> Nat],
         g[x] = v, \A y \in S : g[y] = f[y]
  PROVE  Total(g) = Total(f) + v
<1> DEFINE h == [g EXCEPT ![x] = 0]
<1>1. IsFiniteSet(S \cup {x}) BY FS_AddElement
<1>2. Total(h) = Total(g) - v + 0
  <2> DEFINE T == S \cup {x}
  <2>1. IsFiniteSet(T) /\ g \in [T -> Nat] /\ x \in T /\ 0 \in Nat BY <1>1
  <2> HIDE DEF T
  <2>2. \A F \in [T -> Nat], y \in T, n \in Nat :
          Total([F EXCEPT ![y] = n]) = Total(F) - F[y] + n
    BY <2>1, TotalUpdate
  <2>3. Total([g EXCEPT ![x] = 0]) = Total(g) - g[x] + 0
    BY <2>1, <2>2, Zenon
  <2> QED BY <2>3
<1>3. h \in [S \cup {x} -> Nat] /\ h[x] = 0 /\ \A y \in S : h[y] = f[y] OBVIOUS
<1> HIDE DEF h
<1>4. Units(h) = Units(f)
  <2>1. ASSUME NEW u PROVE u \in Units(h) <=> u \in Units(f)
    <3>1. u \in Units(h) <=> \E y \in S \cup {x} : \E i \in 1..h[y] : u = <<y, i>>
      BY <1>3, UnitsMember
    <3>2. u \in Units(f) <=> \E y \in S : \E i \in 1..f[y] : u = <<y, i>>
      BY UnitsMember
    <3> QED BY <1>3, <3>1, <3>2
  <2> QED BY <2>1
<1>5. Total(h) = Total(f) BY <1>4 DEF Total
<1>6. Total(f) \in Nat /\ Total(g) \in Nat BY <1>1, TotalType
<1> QED BY <1>2, <1>5, <1>6
LEMMA TotalOfSequence ==
  ASSUME NEW n \in Nat \ {0}, NEW f \in [1..(n - 1) -> Nat], NEW g \in [1..n -> Nat],
         \A i \in 1..(n - 1) : g[i] = f[i]
  PROVE  Total(g) = Total(f) + g[n]
<1>1. IsFiniteSet(1..(n - 1)) BY FS_Interval
<1>2. PICK S : S = 1..(n - 1) OBVIOUS
<1>3. n \notin S /\ 1..n = S \cup {n} /\ g[n] \in Nat BY <1>2
<1>4. f \in [S -> Nat] /\ g \in [S \cup {n} -> Nat] /\ \A i \in S : g[i] = f[i]
  BY <1>2, <1>3
<1>5. IsFiniteSet(S) BY <1>1, <1>2
<1>6. PICK v \in Nat : v = g[n] BY <1>3
<1>7. Total(g) = Total(f) + v BY <1>3, <1>4, <1>5, <1>6, TotalExtend
<1> QED BY <1>6, <1>7

-----------------------------------------------------------------------------
(* Snapshots.                                                              *)
(* A snapshot at height h that holds values of V. *)
Item(item, h, V) ==
  /\ item.now \in V
  /\ DOMAIN item.log \subseteq 0..h
  /\ \A k \in DOMAIN item.log : item.log[k] \in V

Least(T, m) == m \in T /\ \A k \in T : m <= k

LEMMA MinIsLeast ==
  ASSUME NEW n \in Nat, NEW T \in SUBSET (0..n), NEW m, Least(T, m)
  PROVE  Min(T) = m
<1>1. Least(T, Min(T)) BY DEF Least, Min
<1>2. Min(T) <= m /\ m <= Min(T) BY <1>1 DEF Least
<1>3. \A k \in T : k \in Int OBVIOUS
<1>4. Min(T) \in Int /\ m \in Int BY <1>1, <1>3 DEF Least
<1> QED BY <1>2, <1>4

(* What has changed at height k or later. *)
ChangedSince(item, k) == {h \in DOMAIN item.log : h >= k}

LEMMA LeastChange ==
  ASSUME NEW h \in Nat, NEW V, NEW item, Item(item, h, V), NEW k, ChangedSince(item, k) # {}
  PROVE  \E m \in ChangedSince(item, k) : Least(ChangedSince(item, k), m) /\ AtHeight(item, k) = item.log[m]
<1> DEFINE T == ChangedSince(item, k)
<1>1. T \in SUBSET (0..h) /\ T # {} BY DEF Item, ChangedSince
<1>2. AtHeight(item, k) = item.log[Min(T)] BY <1>1 DEF AtHeight, ChangedSince
<1> HIDE DEF T
<1>3. PICK m \in T : \A j \in T : m <= j BY <1>1, LeastIndex
<1>4. Min(T) = m BY <1>1, <1>3, MinIsLeast DEF Least
<1> QED BY <1>2, <1>3, <1>4 DEF T, Least

LEMMA AtHeightNow ==
  ASSUME NEW item, NEW k, ChangedSince(item, k) = {}
  PROVE  AtHeight(item, k) = item.now
BY DEF AtHeight, ChangedSince

LEMMA AtHeightType ==
  ASSUME NEW h \in Nat, NEW V, NEW item, Item(item, h, V), NEW k
  PROVE  AtHeight(item, k) \in V
<1>1. CASE ChangedSince(item, k) = {} BY <1>1, AtHeightNow DEF Item
<1>2. CASE ChangedSince(item, k) # {}
  <2>1. PICK m \in ChangedSince(item, k) : AtHeight(item, k) = item.log[m] BY <1>2, LeastChange
  <2> QED BY <2>1 DEF ChangedSince, Item
<1> QED BY <1>1, <1>2

(* A write is seen by queries for later heights only. *)
LEMMA WriteItem ==
  ASSUME NEW h \in Nat, NEW V, NEW item, Item(item, h, V), NEW v \in V
  PROVE  /\ Item(Write(item, h, v), h, V)
         /\ Write(item, h, v).now = v
         /\ \A k \in 0..h : AtHeight(Write(item, h, v), k) = AtHeight(item, k)
<1> DEFINE new == Write(item, h, v)
<1>1. /\ new.now = v /\ DOMAIN new.log = DOMAIN item.log \cup {h}
      /\ \A j \in DOMAIN item.log : new.log[j] = item.log[j]
      /\ h \notin DOMAIN item.log => new.log[h] = item.now
  BY DEF Write
<1> HIDE DEF new
<1>2. Item(new, h, V)
  <2>1. \A j \in DOMAIN new.log : new.log[j] \in V BY <1>1 DEF Item
  <2>2. DOMAIN new.log \subseteq 0..h BY <1>1 DEF Item
  <2> QED BY <1>1, <2>1, <2>2 DEF Item
<1>3. ASSUME NEW k \in 0..h PROVE AtHeight(new, k) = AtHeight(item, k)
  <2>1. ChangedSince(new, k) = ChangedSince(item, k) \cup {h} BY <1>1 DEF ChangedSince
  <2>2. PICK m \in ChangedSince(new, k) : Least(ChangedSince(new, k), m) /\ AtHeight(new, k) = new.log[m]
    BY <1>2, <2>1, LeastChange
  <2>3. CASE ChangedSince(item, k) = {}
    <3>1. m = h /\ h \notin DOMAIN item.log BY <2>1, <2>3 DEF ChangedSince
    <3> QED BY <1>1, <2>2, <2>3, <3>1, AtHeightNow
  <2>4. CASE ChangedSince(item, k) # {}
    <3>1. PICK l \in ChangedSince(item, k) :
            Least(ChangedSince(item, k), l) /\ AtHeight(item, k) = item.log[l]
      BY <2>4, LeastChange
    <3>2. l <= h /\ l \in Int /\ h \in Int BY DEF Item, ChangedSince
    <3>3. Least(ChangedSince(new, k), l) BY <2>1, <3>1, <3>2 DEF Least
    <3>4. l <= m /\ m <= l /\ m \in Int
      <4>1. m \in 0..h BY <1>2 DEF Item, ChangedSince
      <4>2. l \in ChangedSince(new, k) BY <2>1, <3>1
      <4>3. l <= m BY <2>2, <3>3 DEF Least
      <4>4. m <= l BY <2>2, <4>2 DEF Least
      <4> QED BY <4>1, <4>3, <4>4
    <3>5. l = m BY <3>2, <3>4
    <3> QED BY <1>1, <2>2, <3>1, <3>5 DEF ChangedSince
  <2> QED BY <2>3, <2>4
<1> QED BY <1>1, <1>2, <1>3 DEF new

(* Beyond the height of the present block, the present value is read. *)
LEMMA AboveHeight ==
  ASSUME NEW h \in Nat, NEW V, NEW item, Item(item, h, V), NEW k \in Nat, k > h
  PROVE  AtHeight(item, k) = item.now
<1>1. ChangedSince(item, k) = {} BY DEF Item, ChangedSince
<1> QED BY <1>1, AtHeightNow

LEMMA FreshItem ==
  ASSUME NEW h \in Nat, NEW V, NEW v \in V
  PROVE  /\ Item(Fresh(v), h, V) /\ Fresh(v).now = v
         /\ \A k \in Nat : AtHeight(Fresh(v), k) = v
<1>1. Fresh(v).now = v /\ DOMAIN Fresh(v).log = {} BY DEF Fresh
<1>2. \A k \in Nat : ChangedSince(Fresh(v), k) = {} BY <1>1 DEF ChangedSince
<1> QED BY <1>1, <1>2, AtHeightNow DEF Item
-----------------------------------------------------------------------------
(* Sequences.                                                              *)
LEMMA FunctionIsSeq ==
  ASSUME NEW R, NEW n \in Nat, NEW s \in [1..n -> R]
  PROVE  s \in Seq(R) /\ Len(s) = n
<1>1. Seq(R) = UNION {[1..k -> R] : k \in Nat} BY SeqDef
<1>2. s \in Seq(R) BY <1>1, Zenon
<1>3. DOMAIN s = 1..n OBVIOUS
<1> QED BY <1>2, <1>3, LenProperties

(* One value more. *)
LEMMA AppendedFunction ==
  ASSUME NEW R, NEW n \in Nat, NEW f \in [1..n -> R], NEW g \in [1..(n + 1) -> R],
         \A i \in 1..n : g[i] = f[i]
  PROVE  g = Append(f, g[n + 1])
<1> DEFINE v == g[n + 1]
           a == Append(f, v)
<1>1. n + 1 \in 1..(n + 1) /\ \A i \in 1..(n + 1) : i = n + 1 \/ i \in 1..n OBVIOUS
<1>2. v \in R BY <1>1
<1>3. f \in Seq(R) /\ Len(f) = n BY FunctionIsSeq
<1> HIDE DEF v
<1>4. /\ a \in Seq(R) /\ Len(a) = n + 1 /\ a[n + 1] = v
      /\ \A i \in 1..n : a[i] = f[i]
  BY <1>2, <1>3, AppendProperties
<1>5. a \in [1..(n + 1) -> R] BY <1>4, LenProperties
<1> HIDE DEF a
<1>6. \A i \in 1..(n + 1) : a[i] = g[i] BY <1>1, <1>4 DEF v
<1> QED BY <1>5, <1>6 DEF a, v

(* The past of a map of snapshots: their values at the start of every      *)
(* block up to the present one, block h.  A new block adds the values now. *)
PastOf(A, items, h) == [b \in 1..h + 1 |-> [a \in A |-> AtHeight(items[a], b - 1)]]

(* A map of snapshots whose values now are given.                          *)
Items(A, items, h, V, now) ==
  /\ now \in [A -> V]
  /\ \A a \in A : Item(items[a], h, V) /\ items[a].now = now[a]

LEMMA NextPast ==
  ASSUME NEW A, NEW V, NEW items, NEW now, NEW h \in Nat, Items(A, items, h, V, now),
         NEW next, next = h + 1
  PROVE  PastOf(A, items, next) = Append(PastOf(A, items, h), now)
<1> DEFINE At(b) == [a \in A |-> AtHeight(items[a], b - 1)]
           R == {At(b) : b \in 1..h + 2}
           f == PastOf(A, items, h)
           g == PastOf(A, items, h + 1)
<1>1. f = [b \in 1..h + 1 |-> At(b)] /\ g = [b \in 1..h + 2 |-> At(b)]
  <2>1. 1..(h + 1) + 1 = 1..h + 2 OBVIOUS
  <2> QED BY <2>1 DEF PastOf
<1>2. At(h + 2) = now
  <2>1. (h + 2) - 1 \in Nat /\ (h + 2) - 1 > h OBVIOUS
  <2>2. \A a \in A : AtHeight(items[a], (h + 2) - 1) = now[a] BY <2>1, AboveHeight DEF Items
  <2> QED BY <2>2 DEF Items
<1> HIDE DEF At
<1>3. 1..h + 1 \subseteq 1..h + 2 /\ h + 2 \in 1..h + 2 /\ (h + 1) + 1 = h + 2 /\ h + 1 \in Nat
  OBVIOUS
<1> HIDE DEF f, g
<1>4. /\ f \in [1..h + 1 -> R] /\ g \in [1..(h + 1) + 1 -> R]
      /\ \A b \in 1..h + 1 : g[b] = f[b]
  BY <1>1, <1>3
<1> HIDE DEF R
<1>5. g = Append(f, g[(h + 1) + 1]) BY <1>3, <1>4, AppendedFunction
<1> QED BY <1>1, <1>2, <1>3, <1>5 DEF f, g

-----------------------------------------------------------------------------
(* Pages of keys.                                                          *)
Between(K, s, b) == {j \in K : s < j /\ j <= b}

LEMMA NatProduct == ASSUME NEW a \in Nat, NEW b \in Nat PROVE a * b \in Nat
OBVIOUS

LEMMA ProductMonotone ==
  ASSUME NEW a \in Nat, NEW b \in Nat, NEW c \in Nat, a <= b
  PROVE  a * c <= b * c /\ c * a <= c * b
OBVIOUS

LEMMA LeastKey ==
  ASSUME NEW T \in SUBSET Nat, T # {}
  PROVE  \E b \in T : \A j \in T : b <= j
<1>1. PICK t \in T : TRUE OBVIOUS
<1> DEFINE U == {j \in T : j <= t}
<1>2. t \in Nat /\ U \in SUBSET (0..t) /\ U # {}
  <2>1. t \in Nat /\ t \in U BY <1>1
  <2>2. \A j \in U : j \in 0..t OBVIOUS
  <2> QED BY <2>1, <2>2
<1>3. PICK b \in U : \A j \in U : b <= j
  <2> HIDE DEF U
  <2> QED BY <1>2, LeastIndex
<1>4. ASSUME NEW j \in T PROVE b <= j
  <2>1. b \in Nat /\ j \in Nat /\ b <= t BY <1>2, <1>3
  <2>2. CASE j <= t BY <1>3, <2>2
  <2>3. CASE ~ (j <= t) BY <1>2, <2>1, <2>3
  <2> QED BY <2>2, <2>3
<1> QED BY <1>4

(* A page is a subset of the keys after the cursor, and with a key holds   *)
(* all those before it.                                                    *)
LEMMA PageIsPrefix ==
  ASSUME NEW K \in SUBSET Nat, IsFiniteSet(K), NEW s \in Nat, NEW limit \in Nat
  PROVE  /\ Page(K, s, limit) \in SUBSET K /\ IsFiniteSet(Page(K, s, limit))
         /\ \A a \in Page(K, s, limit) : s < a
         /\ \A a \in K : a > s /\ (\E b \in Page(K, s, limit) : a <= b) => a \in Page(K, s, limit)
<1> DEFINE P == Page(K, s, limit)
<1>1. \A a : a \in P <=> a \in K /\ Cardinality(Between(K, s, a)) \in 1..limit BY DEF Page, Between
<1>2. \A a \in K : IsFiniteSet(Between(K, s, a)) /\ Cardinality(Between(K, s, a)) \in Nat
  <2> SUFFICES ASSUME NEW a \in K
      PROVE  IsFiniteSet(Between(K, s, a)) /\ Cardinality(Between(K, s, a)) \in Nat
    OBVIOUS
  <2>1. Between(K, s, a) \in SUBSET K BY DEF Between
  <2> QED BY <2>1, FS_Subset, FS_CardinalityType
<1> HIDE DEF P
<1>3. P \in SUBSET K /\ IsFiniteSet(P)
  <2>1. P \in SUBSET K BY <1>1
  <2> QED BY <2>1, FS_Subset
<1>4. ASSUME NEW a \in P PROVE s < a
  <2>1. a \in K /\ Cardinality(Between(K, s, a)) \in 1..limit BY <1>1
  <2>2. Between(K, s, a) # {} BY <2>1, FS_EmptySet
  <2>3. PICK j \in Between(K, s, a) : TRUE BY <2>2
  <2>4. j \in Nat /\ a \in Nat /\ s < j /\ j <= a BY <2>1 DEF Between
  <2> QED BY <2>4
<1>5. ASSUME NEW a \in K, a > s, NEW b \in P, a <= b PROVE a \in P
  <2>1. b \in K /\ Cardinality(Between(K, s, b)) \in 1..limit BY <1>1
  <2>2. a \in Nat /\ b \in Nat BY <2>1
  <2>3. Between(K, s, a) \in SUBSET Between(K, s, b)
    <3> SUFFICES ASSUME NEW j \in Between(K, s, a) PROVE j \in Between(K, s, b) OBVIOUS
    <3>1. j \in K /\ j \in Nat /\ s < j /\ j <= a BY DEF Between
    <3>2. j <= b BY <1>5, <2>2, <3>1
    <3> QED BY <3>1, <3>2 DEF Between
  <2>4. Cardinality(Between(K, s, a)) <= Cardinality(Between(K, s, b))
    BY <1>2, <2>1, <2>3, FS_Subset
  <2>5. a \in Between(K, s, a) BY <1>5, <2>2 DEF Between
  <2>6. Cardinality(Between(K, s, a)) # 0 BY <1>2, <2>5, FS_EmptySet
  <2>7. Cardinality(Between(K, s, a)) \in Nat BY <1>2
  <2>8. Cardinality(Between(K, s, a)) \in 1..limit BY <2>1, <2>4, <2>6, <2>7
  <2> QED BY <1>1, <2>8
<1> QED BY <1>3, <1>4, <1>5 DEF P

(* A page that is not full is the last one.                                *)
LEMMA ShortPage ==
  ASSUME NEW K \in SUBSET Nat, IsFiniteSet(K), NEW s \in Nat, NEW limit \in Nat,
         Cardinality(Page(K, s, limit)) < limit
  PROVE  \A a \in K : a > s => a \in Page(K, s, limit)
<1> DEFINE P == Page(K, s, limit)
           Missing == {a \in K : a > s /\ a \notin P}
<1>1. SUFFICES ASSUME Missing # {} PROVE FALSE OBVIOUS
<1>2. PICK b \in Missing : \A j \in Missing : b <= j
  <2>1. Missing \in SUBSET Nat OBVIOUS
  <2> HIDE DEF Missing
  <2> QED BY <1>1, <2>1, LeastKey
<1>3. b \in K /\ b \in Nat /\ b > s /\ b \notin P OBVIOUS
<1>4. Between(K, s, b) \in SUBSET (P \cup {b})
  <2> SUFFICES ASSUME NEW j \in Between(K, s, b), j # b PROVE j \in P OBVIOUS
  <2>1. j \in K /\ j \in Nat /\ s < j /\ j <= b BY DEF Between
  <2>2. ~ (b <= j) BY <1>3, <2>1
  <2>3. j \notin Missing BY <1>2, <2>2
  <2> QED BY <2>1, <2>3
<1>5. b \in Between(K, s, b) BY <1>3 DEF Between
<1>6. IsFiniteSet(P) BY PageIsPrefix
<1>7. Cardinality(P) < limit OBVIOUS
<1> HIDE DEF P, Missing
<1>8. /\ IsFiniteSet(P \cup {b}) /\ Cardinality(P) \in Nat
      /\ Cardinality(P \cup {b}) = Cardinality(P) + 1
  BY <1>3, <1>6, FS_AddElement, FS_CardinalityType
<1>9. /\ IsFiniteSet(Between(K, s, b)) /\ Cardinality(Between(K, s, b)) \in Nat
      /\ Cardinality(Between(K, s, b)) <= Cardinality(P \cup {b})
  BY <1>4, <1>8, FS_Subset, FS_CardinalityType
<1>10. Cardinality(Between(K, s, b)) # 0 BY <1>5, <1>9, FS_EmptySet
<1>11. Cardinality(Between(K, s, b)) \in 1..limit BY <1>7, <1>8, <1>9, <1>10
<1>12. b \in Page(K, s, limit) BY <1>3, <1>11 DEF Page, Between
<1> QED BY <1>3, <1>12 DEF P

LEMMA LastOfPage ==
  ASSUME NEW K \in SUBSET Nat, IsFiniteSet(K), NEW s \in Nat, NEW limit \in Nat \ {0},
         ~ (Cardinality(Page(K, s, limit)) < limit)
  PROVE  /\ LastOf(Page(K, s, limit)) \in Page(K, s, limit)
         /\ \A a \in Page(K, s, limit) : a <= LastOf(Page(K, s, limit))
<1> DEFINE P == Page(K, s, limit)
<1>1. P \in SUBSET K /\ IsFiniteSet(P) BY PageIsPrefix
<1>2. P # {} BY FS_EmptySet
<1> HIDE DEF P
<1>3. \E a \in P : \A j \in P : j <= a BY <1>1, <1>2, Greatest
<1>4. LastOf(P) \in P /\ \A j \in P : j <= LastOf(P) BY <1>3 DEF LastOf
<1> QED BY <1>4 DEF P

(* A full page of K and the page of K2 after it, where K2 is what an edit  *)
(* made of K.                                                              *)
LEMMA TwoPages ==
  ASSUME NEW K \in SUBSET Nat, IsFiniteSet(K), NEW K2 \in SUBSET Nat, IsFiniteSet(K2),
         NEW s \in Nat, NEW limit \in Nat \ {0},
         Cardinality(Page(K, s, limit)) = limit,
         NEW second, second = Page(K2, LastOf(Page(K, s, limit)), limit)
  PROVE  /\ Page(K, s, limit) \cap second = {}
         /\ \A a \in K \cap K2 :
              a > s /\ (Cardinality(second) < limit \/ a <= LastOf(second))
                => a \in Page(K, s, limit) \cup second
<1> DEFINE first == Page(K, s, limit)
           last == LastOf(first)
<1>1. limit \in Nat /\ ~ (Cardinality(first) < limit) OBVIOUS
<1>2. last \in first /\ \A a \in first : a <= last BY <1>1, LastOfPage
<1>3. /\ first \in SUBSET K
      /\ \A a \in K : a > s /\ (\E b \in first : a <= b) => a \in first
  BY <1>1, PageIsPrefix
<1>4. last \in Nat BY <1>2, <1>3
<1> HIDE DEF first, last
<1>5. second = Page(K2, last, limit) BY DEF first, last
<1>6. /\ second \in SUBSET K2
      /\ \A a \in second : last < a
      /\ \A a \in K2 : a > last /\ (\E b \in second : a <= b) => a \in second
  BY <1>1, <1>4, <1>5, PageIsPrefix
<1>7. first \cap second = {}
  <2> SUFFICES ASSUME NEW a \in first, a \in second PROVE FALSE OBVIOUS
  <2>1. a <= last /\ last < a /\ a \in Nat BY <1>2, <1>3, <1>6
  <2> QED BY <1>4, <2>1
<1>8. ASSUME NEW a \in K \cap K2, a > s, Cardinality(second) < limit \/ a <= LastOf(second)
      PROVE  a \in first \cup second
  <2>1. a \in Nat OBVIOUS
  <2>2. CASE a <= last BY <1>2, <1>3, <1>8, <2>2
  <2>3. CASE a > last /\ Cardinality(second) < limit
    BY <1>1, <1>4, <1>5, <2>3, ShortPage
  <2>4. CASE a > last /\ ~ (Cardinality(second) < limit)
    <3>1. LastOf(second) \in second BY <1>4, <1>5, <2>4, LastOfPage
    <3>2. a <= LastOf(second) BY <1>8, <2>4
    <3> QED BY <1>6, <2>4, <3>1, <3>2
  <2> QED BY <1>4, <2>1, <2>2, <2>3, <2>4
<1> QED BY <1>7, <1>8 DEF first

-----------------------------------------------------------------------------
(* What a client sees that follows the pages of K to the end.              *)
IsFollowing(f, K, limit) ==
  f = [i \in Nat |-> [cursor \in Nat |->
        IF i = 0 THEN {}
        ELSE Page(K, cursor, limit) \cup
               IF Cardinality(Page(K, cursor, limit)) < limit THEN {}
               ELSE f[i - 1][LastOf(Page(K, cursor, limit))]]]

LEMMA FollowingStep ==
  ASSUME NEW K, NEW limit, NEW f, IsFollowing(f, K, limit),
         NEW n \in Nat \ {0}, NEW c \in Nat
  PROVE  f[n][c] = Page(K, c, limit) \cup
               IF Cardinality(Page(K, c, limit)) < limit THEN {}
               ELSE f[n - 1][LastOf(Page(K, c, limit))]
<1> DEFINE rest(i, cursor) ==
             IF Cardinality(Page(K, cursor, limit)) < limit THEN {}
             ELSE f[i - 1][LastOf(Page(K, cursor, limit))]
           row(i) == [cursor \in Nat |->
             IF i = 0 THEN {} ELSE Page(K, cursor, limit) \cup rest(i, cursor)]
<1>1. f = [i \in Nat |-> row(i)] BY DEF IsFollowing
<1>2. n \in Nat /\ n # 0 OBVIOUS
<1>3. f[n] = row(n)
  <2> HIDE DEF row
  <2> QED BY <1>1, <1>2
<1>4. row(n)[c] = Page(K, c, limit) \cup rest(n, c)
  <2> HIDE DEF rest
  <2> QED BY <1>2
<1> QED BY <1>3, <1>4

(* The function is well defined: in i pages of some limit, a client sees   *)
(* what is in one page of i times the limit.                               *)
LEMMA FollowingExists ==
  ASSUME NEW K \in SUBSET Nat, IsFiniteSet(K), NEW limit \in Nat \ {0}
  PROVE  \E f : IsFollowing(f, K, limit)
<1> DEFINE f == [i \in Nat |-> [c \in Nat |-> Page(K, c, i * limit)]]
           Full(c) == ~ (Cardinality(Page(K, c, limit)) < limit)
           Next(c) == LastOf(Page(K, c, limit))
<1>1. limit \in Nat OBVIOUS
<1>2. ASSUME NEW c \in Nat PROVE Page(K, c, 0) = {} BY DEF Page
<1>3. ASSUME NEW c \in Nat, NEW i \in Nat \ {0}, ~ Full(c)
      PROVE  Page(K, c, i * limit) = Page(K, c, limit)
  <2>1. \A a \in K : a > c => a \in Page(K, c, limit) BY <1>1, <1>3, ShortPage
  <2>2. i * limit \in Nat /\ limit <= i * limit
    <3>1. 1 <= i /\ i \in Nat OBVIOUS
    <3>2. i * limit \in Nat BY <1>1, <3>1, NatProduct
    <3>3. 1 * limit <= i * limit BY <1>1, <3>1, ProductMonotone
    <3> QED BY <1>1, <3>2, <3>3
  <2>3. Page(K, c, limit) \subseteq Page(K, c, i * limit)
    <3>1. 1..limit \subseteq 1..(i * limit) BY <1>1, <2>2
    <3> QED BY <3>1 DEF Page
  <2>4. \A a \in Page(K, c, i * limit) : a \in K /\ c < a BY <2>2, PageIsPrefix
  <2> QED BY <2>1, <2>3, <2>4
<1>4. ASSUME NEW c \in Nat, NEW i \in Nat \ {0}, Full(c)
      PROVE  /\ Next(c) \in Nat
             /\ Page(K, c, i * limit) = Page(K, c, limit) \cup Page(K, Next(c), (i - 1) * limit)
  <2> DEFINE P == Page(K, c, limit)
             last == Next(c)
             m == (i - 1) * limit
  <2>1. /\ P \in SUBSET K /\ IsFiniteSet(P) /\ \A a \in P : c < a
        /\ \A a \in K : a > c /\ (\E b \in P : a <= b) => a \in P
    BY <1>1, PageIsPrefix
  <2>2. last \in P /\ \A a \in P : a <= last BY <1>4, LastOfPage
  <2>3. ~ (Cardinality(P) < limit) BY <1>4
  <2>4. Cardinality(Between(K, c, last)) \in 1..limit BY <2>2 DEF Page, Between
  <2>5. m \in Nat /\ i * limit = m + limit
    <3>1. i - 1 \in Nat /\ i \in Nat OBVIOUS
    <3>2. m \in Nat BY <1>1, <3>1, NatProduct
    <3>3. i * limit = m + limit BY <1>1, <3>1
    <3> QED BY <3>2, <3>3
  <2>6. Page(K, c, i * limit) = {a \in K : Cardinality(Between(K, c, a)) \in 1..(m + limit)}
    BY <2>5 DEF Page, Between
  <2>7. Page(K, last, m) = {a \in K : Cardinality(Between(K, last, a)) \in 1..m}
    BY DEF Page, Between
  <2> HIDE DEF P, last, m
  <2>8. last \in Nat /\ last > c BY <2>1, <2>2
  <2>9. Between(K, c, last) = P
    <3>1. ASSUME NEW a \in P PROVE a \in Between(K, c, last)
      BY <2>1, <2>2, <3>1 DEF Between
    <3>2. ASSUME NEW a \in Between(K, c, last) PROVE a \in P
      <4>1. a \in K /\ a \in Nat /\ c < a /\ a <= last BY DEF Between
      <4> QED BY <2>1, <2>2, <4>1
    <3> QED BY <3>1, <3>2
  <2>10. Cardinality(P) = limit
    <3>1. Cardinality(P) \in Nat BY <2>1, FS_CardinalityType
    <3> QED BY <1>1, <2>3, <2>4, <2>9, <3>1
  <2>11. ASSUME NEW a \in K, a <= last
         PROVE  a \in Page(K, c, i * limit) <=> a \in P \cup Page(K, last, m)
    <3>1. a \notin Page(K, last, m)
      <4>1. \A b \in Page(K, last, m) : last < b BY <2>5, <2>8, PageIsPrefix
      <4>2. a \in Nat OBVIOUS
      <4> QED BY <2>8, <2>11, <4>1, <4>2
    <3>2. a \in P => a \in Page(K, c, i * limit)
      <4>1. ASSUME a \in P PROVE Cardinality(Between(K, c, a)) \in 1..limit
        BY <4>1 DEF P, Page, Between
      <4>2. 1..limit \subseteq 1..(m + limit) BY <1>1, <2>5
      <4> QED BY <2>6, <4>1, <4>2
    <3>3. a \in Page(K, c, i * limit) => a \in P
      <4>1. m + limit \in Nat BY <1>1, <2>5
      <4>2. \A b \in Page(K, c, i * limit) : c < b BY <2>5, <4>1, PageIsPrefix
      <4>3. a \in Nat OBVIOUS
      <4> QED BY <2>1, <2>2, <2>11, <4>2, <4>3
    <3> QED BY <3>1, <3>2, <3>3
  <2>12. ASSUME NEW a \in K, a > last
         PROVE  a \in Page(K, c, i * limit) <=> a \in P \cup Page(K, last, m)
    <3> DEFINE B == Between(K, last, a)
    <3>0. a \in Nat OBVIOUS
    <3>1. a \notin P
      <4> SUFFICES ASSUME a \in P PROVE FALSE OBVIOUS
      <4> QED BY <2>2, <2>8, <2>12, <3>0
    <3>2. IsFiniteSet(B) /\ Cardinality(B) \in Nat
      <4>1. B \in SUBSET K BY DEF Between
      <4> QED BY <4>1, FS_Subset, FS_CardinalityType
    <3>3. Between(K, c, a) = P \cup B
      <4>1. ASSUME NEW b \in Nat
            PROVE  c < b /\ b <= a <=> (c < b /\ b <= last) \/ (last < b /\ b <= a)
        BY <2>8, <2>12, <3>0
      <4> QED BY <2>9, <4>1 DEF Between
    <3>4. P \cap B = {}
      <4> SUFFICES ASSUME NEW b \in P, b \in B PROVE FALSE OBVIOUS
      <4>1. b \in Nat /\ b <= last /\ last < b BY <2>1, <2>2 DEF Between
      <4> QED BY <2>8, <4>1
    <3>5. a \in B BY <2>12, <3>0 DEF Between
    <3> HIDE DEF B
    <3>6. Cardinality(B) # 0 BY <3>2, <3>5, FS_EmptySet
    <3>7. Cardinality(P \cup B) = limit + Cardinality(B)
      <4>1. Cardinality(P \cup B) = Cardinality(P) + Cardinality(B) - Cardinality(P \cap B)
        BY <2>1, <3>2, FS_Union
      <4>2. Cardinality(P \cap B) = 0 BY <3>4, FS_EmptySet
      <4> QED BY <1>1, <2>10, <3>2, <4>1, <4>2
    <3>8. Cardinality(Between(K, c, a)) \in 1..(m + limit) <=> Cardinality(B) \in 1..m
      BY <1>1, <2>5, <3>2, <3>3, <3>6, <3>7
    <3>9. a \in Page(K, last, m) <=> Cardinality(B) \in 1..m BY <2>7 DEF B
    <3> QED BY <2>6, <3>1, <3>8, <3>9
  <2>13. /\ Page(K, c, i * limit) \in SUBSET K /\ Page(K, last, m) \in SUBSET K
    BY <2>6, <2>7
  <2>14. Page(K, c, i * limit) = P \cup Page(K, last, m)
    <3>1. \A a \in K : a <= last \/ a > last BY <2>8
    <3> QED BY <2>1, <2>11, <2>12, <2>13, <3>1
  <2> QED BY <2>8, <2>14 DEF P, last, m
<1>5. ASSUME NEW i \in Nat, NEW c \in Nat
      PROVE  f[i][c] = IF i = 0 THEN {}
                       ELSE Page(K, c, limit) \cup
                              IF ~ Full(c) THEN {} ELSE f[i - 1][Next(c)]
  <2>1. \A j \in Nat, d \in Nat : f[j][d] = Page(K, d, j * limit) OBVIOUS
  <2> HIDE DEF f, Full, Next
  <2>2. CASE i = 0
    <3>1. i * limit = 0 BY <1>1, <2>2
    <3> QED BY <1>2, <2>1, <2>2, <3>1
  <2>3. CASE i # 0 /\ ~ Full(c)
    <3>1. Page(K, c, i * limit) = Page(K, c, limit) BY <1>3, <2>3
    <3> QED BY <2>1, <2>3, <3>1
  <2>4. CASE i # 0 /\ Full(c)
    <3>1. /\ Next(c) \in Nat
          /\ Page(K, c, i * limit) = Page(K, c, limit) \cup Page(K, Next(c), (i - 1) * limit)
      BY <1>4, <2>4
    <3>2. i - 1 \in Nat BY <2>4
    <3>3. f[i - 1][Next(c)] = Page(K, Next(c), (i - 1) * limit) BY <2>1, <3>1, <3>2
    <3> QED BY <2>1, <2>4, <3>1, <3>3
  <2> QED BY <2>2, <2>3, <2>4
<1>6. IsFollowing(f, K, limit)
  <2> DEFINE row(i) == [c \in Nat |->
               IF i = 0 THEN {}
               ELSE Page(K, c, limit) \cup
                      IF Cardinality(Page(K, c, limit)) < limit THEN {}
                      ELSE f[i - 1][LastOf(Page(K, c, limit))]]
  <2>1. f = [i \in Nat |-> row(i)]
    <3>1. ASSUME NEW i \in Nat PROVE f[i] = row(i)
      <4>1. f[i] = [c \in Nat |-> f[i][c]] OBVIOUS
      <4>2. \A c \in Nat : f[i][c] = row(i)[c]
        <5> HIDE DEF f
        <5> QED BY <1>5
      <4> HIDE DEF f
      <4> QED BY <4>1, <4>2
    <3>2. f = [i \in Nat |-> f[i]] OBVIOUS
    <3> HIDE DEF f, row
    <3> QED BY <3>1, <3>2
  <2> HIDE DEF f
  <2> QED BY <2>1 DEF IsFollowing
<1> QED BY <1>6

(* As many pages as there are keys left, and one more, show all of these.  *)
LEMMA FollowedToTheEnd ==
  ASSUME NEW K \in SUBSET Nat, IsFiniteSet(K), NEW limit \in Nat \ {0},
         NEW f, IsFollowing(f, K, limit), NEW n \in Nat
  PROVE  \A c \in Nat : Cardinality({k \in K : c < k}) < n => f[n][c] = {k \in K : c < k}
<1> DEFINE After(c) == {k \in K : c < k}
           Good(i) == \A c \in Nat : Cardinality(After(c)) < i => f[i][c] = After(c)
           Bad == {i \in 0..n : ~ Good(i)}
<1>1. ASSUME NEW c \in Nat PROVE IsFiniteSet(After(c)) /\ Cardinality(After(c)) \in Nat
  BY FS_Subset, FS_CardinalityType
<1>2. SUFFICES ASSUME Bad # {} PROVE FALSE
  <2>1. n \in 0..n OBVIOUS
  <2>2. n \notin Bad BY <1>2
  <2>3. Good(n)
    <3> HIDE DEF Good
    <3> QED BY <2>1, <2>2
  <2> QED BY <2>3
<1>3. PICK i \in Bad : \A j \in Bad : i <= j
  <2>1. Bad \in SUBSET (0..n) OBVIOUS
  <2> HIDE DEF Bad
  <2> QED BY <1>2, <2>1, LeastIndex
<1>4. i \in 0..n /\ ~ Good(i)
  <2> HIDE DEF Good
  <2> QED BY <1>3
<1>5. PICK c \in Nat : Cardinality(After(c)) < i /\ f[i][c] # After(c) BY <1>4
<1>6. i \in Nat \ {0} BY <1>1, <1>4, <1>5
<1>7. Good(i - 1)
  <2>1. i - 1 \in 0..n /\ ~ (i <= i - 1) BY <1>4, <1>6
  <2> HIDE DEF Good
  <2> QED BY <1>3, <2>1
<1> DEFINE P == Page(K, c, limit)
           last == LastOf(P)
<1>8. f[i][c] = P \cup IF Cardinality(P) < limit THEN {} ELSE f[i - 1][last]
  BY <1>6, FollowingStep
<1>9. limit \in Nat OBVIOUS
<1>10. /\ P \in SUBSET K /\ \A a \in P : c < a
       /\ \A a \in K : a > c /\ (\E b \in P : a <= b) => a \in P
  BY <1>9, PageIsPrefix
<1>11. CASE Cardinality(P) < limit
  <2>1. \A a \in K : a > c => a \in P BY <1>9, <1>11, ShortPage
  <2>2. P = After(c)
    <3> HIDE DEF P
    <3>1. \A a \in K : c < a => a \in P BY <2>1
    <3> QED BY <1>10, <3>1
  <2> QED BY <1>5, <1>8, <1>11, <2>2
<1>12. CASE ~ (Cardinality(P) < limit)
  <2>1. last \in P /\ \A a \in P : a <= last BY <1>12, LastOfPage
  <2> HIDE DEF P, last, After, Good
  <2>2. last \in Nat /\ last > c /\ last \in K BY <1>10, <2>1
  <2>3. After(last) \in SUBSET After(c) /\ last \in After(c) /\ last \notin After(last)
    <3>1. ASSUME NEW k \in K, last < k PROVE c < k
      <4>1. k \in Nat OBVIOUS
      <4> QED BY <2>2, <3>1, <4>1
    <3>2. After(last) \in SUBSET After(c) BY <3>1 DEF After
    <3>3. ~ (last < last) BY <2>2
    <3> QED BY <2>2, <3>2, <3>3 DEF After
  <2>4. Cardinality(After(last)) < Cardinality(After(c))
    <3>1. IsFiniteSet(After(c)) BY <1>1
    <3>2. After(last) # After(c) BY <2>3
    <3>3. Cardinality(After(last)) <= Cardinality(After(c)) BY <2>3, <3>1, FS_Subset
    <3>4. Cardinality(After(last)) # Cardinality(After(c)) BY <2>3, <3>1, <3>2, FS_Subset
    <3> QED BY <1>1, <2>2, <3>3, <3>4
  <2>5. Cardinality(After(last)) < i - 1 BY <1>1, <1>5, <1>6, <2>2, <2>4
  <2>6. f[i - 1][last] = After(last) BY <1>7, <2>2, <2>5 DEF Good
  <2>7. P \cup After(last) = After(c)
    <3>1. ASSUME NEW a \in K, c < a, a \notin P PROVE last < a
      <4>1. a \in Nat OBVIOUS
      <4> QED BY <1>10, <2>1, <2>2, <3>1, <4>1
    <3>2. ASSUME NEW a \in After(c) PROVE a \in P \cup After(last) BY <3>1 DEF After
    <3>3. ASSUME NEW a \in P PROVE a \in After(c) BY <1>10 DEF After
    <3> QED BY <2>3, <3>2, <3>3
  <2> QED BY <1>5, <1>8, <1>12, <2>6, <2>7
<1> QED BY <1>11, <1>12

(* Listing a map page by page, each from the last key of the one before,   *)
(* shows every key, whatever the map and the limit.                        *)
LEMMA PagesList ==
  ASSUME NEW K \in SUBSET (Nat \ {0}), IsFiniteSet(K), NEW limit \in Nat \ {0}
  PROVE  Lists(LAMBDA c : Page(K, c, limit), limit, K)
<1> DEFINE n == Cardinality(K) + 1
           f == CHOOSE g : IsFollowing(g, K, limit)
<1>1. K \in SUBSET Nat OBVIOUS
<1>2. n \in Nat BY FS_CardinalityType
<1>3. IsFollowing(f, K, limit)
  <2>1. \E g : IsFollowing(g, K, limit) BY <1>1, FollowingExists
  <2> QED BY <2>1
<1>4. Followed(LAMBDA c : Page(K, c, limit), limit, n) = f[n][0]
  BY DEF Followed, IsFollowing
<1>5. {k \in K : 0 < k} = K
  <2>1. \A k \in K : k \in Nat /\ k # 0 OBVIOUS
  <2>2. \A k \in K : 0 < k BY <2>1
  <2> QED BY <2>2
<1>6. Cardinality(K) < n BY FS_CardinalityType
<1>7. f[n][0] = {k \in K : 0 < k}
  <2> HIDE DEF n, f
  <2>1. Cardinality({k \in K : 0 < k}) < n BY <1>5, <1>6
  <2> QED BY <1>1, <1>2, <1>3, <2>1, FollowedToTheEnd
<1>8. Followed(LAMBDA c : Page(K, c, limit), limit, n) = K BY <1>4, <1>5, <1>7
<1> QED BY <1>8 DEF Lists

(* Every key is the first one after some cursor.                           *)
LEMMA PageOfOne ==
  ASSUME NEW K \in SUBSET (Nat \ {0}), IsFiniteSet(K), NEW a \in K
  PROVE  \E n \in K \cup {0} : a \in Page(K, n, 1)
<1> DEFINE Below == {j \in K : j < a}
<1>1. \A j \in K : j \in Nat /\ j # 0 OBVIOUS
<1>2. \E n \in K \cup {0} : n < a /\ \A j \in K : n < j /\ j <= a => j = a
  <2>1. CASE Below = {}
    <3>1. \A j \in K : ~ (j < a) BY <2>1
    <3>2. 0 < a /\ \A j \in K : 0 < j /\ j <= a => j = a BY <1>1, <3>1
    <3> QED BY <3>2
  <2>2. CASE Below # {}
    <3>1. PICK n \in Below : \A j \in Below : j <= n
      <4>1. Below \in SUBSET K /\ K \in SUBSET Nat OBVIOUS
      <4> HIDE DEF Below
      <4> QED BY <2>2, <4>1, Greatest
    <3>2. n \in K /\ n < a OBVIOUS
    <3>3. ASSUME NEW j \in K, n < j, j <= a PROVE j = a
      <4>1. ~ (j \in Below) BY <1>1, <3>1, <3>2, <3>3
      <4>2. ~ (j < a) BY <4>1
      <4> QED BY <1>1, <3>3, <4>2
    <3> QED BY <3>2, <3>3
  <2> QED BY <2>1, <2>2
<1>3. PICK n \in K \cup {0} : n < a /\ \A j \in K : n < j /\ j <= a => j = a BY <1>2
<1>4. {j \in K : n < j /\ j <= a} = {a}
  <2>1. a <= a BY <1>1
  <2> QED BY <1>3, <2>1
<1>5. Cardinality({j \in K : n < j /\ j <= a}) = 1 BY <1>4, FS_Singleton
<1> QED BY <1>5 DEF Page
=============================================================================
