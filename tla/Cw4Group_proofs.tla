--------------------------- MODULE Cw4Group_proofs ---------------------------
(***************************************************************************)
(* The group, for every set of accounts, lists and weights: the total is   *)
(* the sum of the weights at every height, what has been answered for a    *)
(* past height is never revised, and diffs keep a subscriber up to date.   *)
(***************************************************************************)
EXTENDS Cw4Group, Data_proofs

-----------------------------------------------------------------------------
(* Sums of weights, where an account without an entry weighs nothing.      *)
MaybeWeight == Maybe(Weights)

LEMMA WeightType ==
  /\ None \notin Weights /\ Weights \in SUBSET Nat /\ Weights \in SUBSET MaybeWeight
  /\ \A w \in MaybeWeight : WeightOf(w) \in Weights
  /\ \A w \in Weights : WeightOf(w) = w
  /\ WeightOf(None) = 0 /\ None \in MaybeWeight
BY GroupAssumption DEF Weights, Maybe, MaybeWeight, WeightOf

LEMMA SumOverType ==
  ASSUME NEW S \in SUBSET Addr, NEW f, \A a \in S : f[a] \in MaybeWeight
  PROVE  SumOver(f, S) \in Nat
<1>1. IsFiniteSet(S) BY GroupAssumption, FS_Subset
<1>2. [a \in S |-> WeightOf(f[a])] \in [S -> Nat] BY WeightType
<1> QED BY <1>1, <1>2, TotalType DEF SumOver

LEMMA SumOverSplit ==
  ASSUME NEW D \in SUBSET Addr, NEW f, \A a \in Addr : f[a] \in MaybeWeight
  PROVE  SumOver(f, Addr) = SumOver(f, D) + SumOver(f, Addr \ D)
<1> DEFINE w == [a \in Addr |-> WeightOf(f[a])]
<1>1. w \in [Addr -> Nat] BY WeightType
<1>2. /\ SumOver(f, Addr) = Total(w)
      /\ SumOver(f, D) = Total([a \in D |-> w[a]])
      /\ SumOver(f, Addr \ D) = Total([a \in Addr \ D |-> w[a]])
  <2>1. [a \in D |-> w[a]] = [a \in D |-> WeightOf(f[a])] OBVIOUS
  <2>2. [a \in Addr \ D |-> w[a]] = [a \in Addr \ D |-> WeightOf(f[a])] OBVIOUS
  <2> QED BY <2>1, <2>2 DEF SumOver
<1> HIDE DEF w
<1>3. IsFiniteSet(Addr) BY GroupAssumption
<1> QED BY <1>1, <1>2, <1>3, TotalSplit

LEMMA SumOverEqual ==
  ASSUME NEW S, NEW f, NEW g, \A a \in S : f[a] = g[a]
  PROVE  SumOver(f, S) = SumOver(g, S)
<1>1. [a \in S |-> WeightOf(f[a])] = [a \in S |-> WeightOf(g[a])] OBVIOUS
<1> QED BY <1>1 DEF SumOver

(* New values for the accounts of D change the sum by the sums over D. *)
LEMMA SumOverPatch ==
  ASSUME NEW D \in SUBSET Addr, NEW f, \A a \in Addr : f[a] \in MaybeWeight,
         NEW g, \A a \in D : g[a] \in MaybeWeight,
         NEW h, \A a \in Addr : h[a] = IF a \in D THEN g[a] ELSE f[a]
  PROVE  SumOver(h, Addr) = SumOver(f, Addr) - SumOver(f, D) + SumOver(g, D)
<1>1. \A a \in Addr : h[a] \in MaybeWeight OBVIOUS
<1>2. SumOver(h, Addr) = SumOver(h, D) + SumOver(h, Addr \ D) BY <1>1, SumOverSplit
<1>3. SumOver(f, Addr) = SumOver(f, D) + SumOver(f, Addr \ D) BY SumOverSplit
<1>4. SumOver(h, D) = SumOver(g, D) BY SumOverEqual
<1>5. SumOver(h, Addr \ D) = SumOver(f, Addr \ D) BY SumOverEqual
<1>6. /\ SumOver(f, D) \in Nat /\ SumOver(g, D) \in Nat
      /\ SumOver(f, Addr \ D) \in Nat
  BY SumOverType
<1> QED BY <1>2, <1>3, <1>4, <1>5, <1>6

LEMMA SumOverNone ==
  ASSUME NEW S, NEW f, \A a \in S : f[a] = None
  PROVE  SumOver(f, S) = 0
<1> DEFINE w == [a \in S |-> WeightOf(f[a])]
<1>1. w \in [S -> Nat] /\ \A a \in S : w[a] = 0 BY WeightType
<1> HIDE DEF w
<1>2. Total(w) = 0 BY <1>1, TotalZero
<1> QED BY <1>2 DEF w, SumOver

LEMMA AsMapType ==
  ASSUME NEW list \in MemberLists
  PROVE  /\ DOMAIN AsMap(list) \in SUBSET Addr
         /\ \A a \in DOMAIN AsMap(list) : AsMap(list)[a] \in Weights
<1>1. list \in Seq([addr: Addr, weight: Weights]) BY GroupAssumption DEF Weights
<1>2. \A i \in 1..Len(list) : list[i] \in [addr: Addr, weight: Weights]
  BY <1>1, ElementOfSeq
<1>3. ASSUME NEW a \in DOMAIN AsMap(list) PROVE AsMap(list)[a] \in Weights
  <2>1. \E i \in 1..Len(list) : list[i].addr = a BY DEF AsMap
  <2>2. (CHOOSE i \in 1..Len(list) : list[i].addr = a) \in 1..Len(list) BY <2>1
  <2> QED BY <1>2, <2>2 DEF AsMap
<1>4. DOMAIN AsMap(list) = {list[i].addr : i \in 1..Len(list)} BY DEF AsMap
<1>5. \A i \in 1..Len(list) : list[i].addr \in Addr BY <1>2
<1> QED BY <1>3, <1>4, <1>5

-----------------------------------------------------------------------------
(* The invariant.  Every account has a snapshot, and the total one that is *)
(* never without a value now.                                              *)
SnapshotsOK ==
  /\ DOMAIN members = Addr
  /\ \A a \in Addr : Item(members[a], height, MaybeWeight)
  /\ Item(total, height, MaybeWeight)
  /\ total.now \in Weights

ControlOK ==
  /\ admin \in Maybe(Addr)
  /\ hooks \subseteq Subscribers
  /\ mirror \in [hooks -> [Addr -> MaybeWeight]]
  /\ height \in 0..MaxHeight

IInv == SnapshotsOK /\ ControlOK /\ TotalIsSum /\ SubscribersInSync

(* The sum at height k, for queries and in the proofs. *)
SumAt(k) == SumOver([a \in Addr |-> query_member(a, k)], Addr)

LEMMA TotalAsSumAt ==
  ASSUME NEW k
  PROVE  Total([a \in Addr |-> WeightOf(query_member(a, k))]) = SumAt(k)
<1> DEFINE q == [a \in Addr |-> query_member(a, k)]
<1>1. [a \in Addr |-> WeightOf(q[a])] = [a \in Addr |-> WeightOf(query_member(a, k))]
  OBVIOUS
<1> QED BY <1>1 DEF SumAt, SumOver

LEMMA CurrentType ==
  ASSUME SnapshotsOK
  PROVE  Current \in [Addr -> MaybeWeight]
BY DEF SnapshotsOK, Item, Current

LEMMA HeightType ==
  ASSUME ControlOK
  PROVE  height \in Nat /\ height + 1 \in Nat /\ height + 1 > height
BY GroupAssumption DEF ControlOK

(* At the next height everything is as it is now. *)
LEMMA NextHeight ==
  ASSUME SnapshotsOK, ControlOK, NEW k \in Nat, k > height
  PROVE  SumAt(k) = SumOver(Current, Addr) /\ query_total_weight(k) = total.now
<1>1. \A a \in Addr : query_member(a, k) = Current[a]
  BY HeightType, AboveHeight DEF SnapshotsOK, query_member, Current
<1>2. SumAt(k) = SumOver(Current, Addr)
  <2> DEFINE q == [a \in Addr |-> query_member(a, k)]
  <2>1. \A a \in Addr : q[a] = Current[a] BY <1>1
  <2> HIDE DEF q
  <2>2. SumOver(q, Addr) = SumOver(Current, Addr) BY <2>1, SumOverEqual
  <2> QED BY <2>2 DEF q, SumAt
<1>3. AtHeight(total, k) = total.now BY HeightType, AboveHeight DEF SnapshotsOK
<1> QED BY <1>2, <1>3, WeightType DEF SnapshotsOK, query_total_weight

LEMMA NowIsSum ==
  ASSUME IInv
  PROVE  total.now = SumOver(Current, Addr)
<1>1. height + 1 \in 0..height + 1 BY HeightType DEF IInv
<1>2. query_total_weight(height + 1) = SumAt(height + 1)
  BY <1>1, TotalAsSumAt DEF IInv, TotalIsSum
<1>3. height + 1 \in Nat /\ height + 1 > height BY HeightType DEF IInv
<1> QED BY <1>2, <1>3, NextHeight DEF IInv

-----------------------------------------------------------------------------
(* An update.                                                              *)
(* The members after it. *)
Updated(add, remove) ==
  [a \in Addr |-> IF a \in Removed(add, remove) THEN None ELSE WithAdded(add)[a]]

LEMMA WithAddedType ==
  ASSUME SnapshotsOK, NEW list \in MemberLists
  PROVE  WithAdded(AsMap(list)) \in [Addr -> MaybeWeight]
<1> DEFINE add == AsMap(list)
<1>1. \A a \in DOMAIN add : add[a] \in MaybeWeight BY AsMapType, WeightType
<1> HIDE DEF add
<1>2. \A a \in Addr : (IF a \in DOMAIN add THEN add[a] ELSE Current[a]) \in MaybeWeight
  BY <1>1, CurrentType
<1>3. WithAdded(add) \in [Addr -> MaybeWeight] BY <1>2 DEF WithAdded
<1> QED BY <1>3 DEF add

LEMMA RemovedType ==
  ASSUME NEW add, NEW remove \in RemoveLists
  PROVE  Removed(add, remove) \in SUBSET Addr
<1>1. remove \in Seq(Addr) BY GroupAssumption
<1>2. Range(remove) \subseteq Addr BY <1>1, ElementOfSeq DEF Range
<1> QED BY <1>2 DEF Removed

LEMMA AddedTotal ==
  ASSUME IInv, NEW list \in MemberLists
  PROVE  SumOver(WithAdded(AsMap(list)), Addr) = RunningTotal(AsMap(list), DOMAIN AsMap(list))
<1> DEFINE add == AsMap(list)
           D == DOMAIN add
<1>1. D \in SUBSET Addr /\ \A a \in D : add[a] \in MaybeWeight BY AsMapType, WeightType
<1>2. \A a \in Addr : Current[a] \in MaybeWeight BY CurrentType DEF IInv
<1>3. \A a \in Addr : WithAdded(add)[a] = IF a \in D THEN add[a] ELSE Current[a]
  BY DEF WithAdded
<1> HIDE DEF add, D
<1>4. SumOver(WithAdded(add), Addr) = SumOver(Current, Addr) - SumOver(Current, D) + SumOver(add, D)
  BY <1>1, <1>2, <1>3, SumOverPatch
<1>5. SumOver(WithAdded(add), Addr) = RunningTotal(add, D)
  BY <1>4, NowIsSum DEF RunningTotal
<1> QED BY <1>5 DEF add, D

LEMMA UpdatedTotal ==
  ASSUME IInv, NEW list \in MemberLists, NEW remove \in RemoveLists
  PROVE  /\ Updated(AsMap(list), remove) \in [Addr -> MaybeWeight]
         /\ SumOver(Updated(AsMap(list), remove), Addr) = NewTotal(AsMap(list), remove)
         /\ NewTotal(AsMap(list), remove) \in Nat
         /\ NewTotal(AsMap(list), remove) <= RunningTotal(AsMap(list), DOMAIN AsMap(list))
<1> DEFINE add == AsMap(list)
           R == Removed(add, remove)
           new == Updated(add, remove)
           gone == [a \in R |-> None]
<1>1. R \in SUBSET Addr BY RemovedType
<1>2. \A a \in Addr : WithAdded(add)[a] \in MaybeWeight BY WithAddedType DEF IInv
<1>3. new \in [Addr -> MaybeWeight] BY <1>2, WeightType DEF Updated
<1>4. \A a \in R : gone[a] = None BY WeightType
<1>5. \A a \in Addr : new[a] = IF a \in R THEN gone[a] ELSE WithAdded(add)[a] BY DEF Updated
<1>6. SumOver(WithAdded(add), Addr) = RunningTotal(add, DOMAIN add) BY AddedTotal
<1>7. NewTotal(add, remove) = RunningTotal(add, DOMAIN add) - SumOver(WithAdded(add), R)
  BY DEF NewTotal
<1> HIDE DEF new, gone, R, add
<1>8. \A a \in R : gone[a] \in MaybeWeight BY <1>4, WeightType
<1>9. SumOver(new, Addr) = SumOver(WithAdded(add), Addr) - SumOver(WithAdded(add), R) + SumOver(gone, R)
  BY <1>1, <1>2, <1>5, <1>8, SumOverPatch
<1>10. SumOver(gone, R) = 0 BY <1>4, SumOverNone
<1>11. SumOver(WithAdded(add), Addr) \in Nat /\ SumOver(WithAdded(add), R) \in Nat
  BY <1>1, <1>2, SumOverType
<1>12. SumOver(new, Addr) \in Nat BY <1>3, SumOverType
<1>13. SumOver(new, Addr) = NewTotal(add, remove) BY <1>6, <1>7, <1>9, <1>10, <1>11
<1>14. NewTotal(add, remove) \in Nat /\ NewTotal(add, remove) <= RunningTotal(add, DOMAIN add)
  BY <1>6, <1>7, <1>11, <1>12, <1>13
<1> QED BY <1>3, <1>13, <1>14 DEF new, add

(* The additions are checked one by one, so their total fits a u64. *)
LEMMA RunningTotalFits ==
  ASSUME IInv, NEW list \in MemberLists, AddsFit(AsMap(list))
  PROVE  RunningTotal(AsMap(list), DOMAIN AsMap(list)) <= MaxU64
<1> DEFINE add == AsMap(list)
           D == DOMAIN add
<1>1. D \in SUBSET Addr BY AsMapType
<1> HIDE DEF add
<1>2. CASE D = {}
  <2>1. SumOver(Current, D) = 0 /\ SumOver(add, D) = 0 BY <1>2, SumOverNone
  <2>2. RunningTotal(add, D) = total.now - SumOver(Current, D) + SumOver(add, D)
    BY DEF RunningTotal
  <2>3. total.now \in 0..MaxU64 BY DEF IInv, SnapshotsOK, Weights
  <2> QED BY <2>1, <2>2, <2>3 DEF add
<1>3. CASE D # {}
  <2>1. Addr \in SUBSET Nat /\ IsFiniteSet(Addr) BY GroupAssumption
  <2>2. PICK a \in D : \A b \in D : b <= a
    <3> HIDE DEF D
    <3> QED BY <1>1, <1>3, <2>1, Greatest
  <2>3. {b \in D : b < a} \cup {a} = D
    <3> HIDE DEF D
    <3>1. D \in SUBSET Nat BY <1>1, <2>1
    <3>2. \A b \in D : b \in Int BY <3>1
    <3> QED BY <2>2, <3>2
  <2>4. RunningTotal(add, {b \in D : b < a} \cup {a}) <= MaxU64 BY DEF AddsFit, add
  <2> QED BY <2>3, <2>4 DEF add
<1> QED BY <1>2, <1>3

(* What an update does to the snapshots.                                   *)
LEMMA UpdateSnapshots ==
  ASSUME IInv, NEW sender, NEW list \in MemberLists, NEW remove \in RemoveLists,
         update_members(sender, list, remove), height' = height
  PROVE  /\ SnapshotsOK'
         /\ Current' = Updated(AsMap(list), remove)
         /\ total'.now = NewTotal(AsMap(list), remove)
         /\ \A k \in 0..height : /\ \A a \in Addr : AtHeight(members'[a], k) = AtHeight(members[a], k)
                                 /\ AtHeight(total', k) = AtHeight(total, k)
<1> DEFINE add == AsMap(list)
           R == Removed(add, remove)
           n == NewTotal(add, remove)
           Added(a) == IF a \in DOMAIN add THEN Save(members[a], add[a]) ELSE members[a]
<1>1. height \in Nat BY HeightType DEF IInv
<1>2. n \in Weights /\ n \in MaybeWeight
  <2>1. n \in Nat /\ n <= MaxU64
    <3>1. /\ n \in Nat /\ n <= RunningTotal(add, DOMAIN add)
          /\ RunningTotal(add, DOMAIN add) <= MaxU64
      BY UpdatedTotal, RunningTotalFits DEF update_members
    <3>2. RunningTotal(add, DOMAIN add) \in Nat
      <4>1. SumOver(WithAdded(add), Addr) \in Nat BY WithAddedType, SumOverType DEF IInv
      <4> QED BY <4>1, AddedTotal
    <3>3. MaxU64 \in Nat BY GroupAssumption
    <3> HIDE DEF n, add
    <3> QED BY <3>1, <3>2, <3>3
  <2> HIDE DEF n
  <2> QED BY <2>1, WeightType, GroupAssumption DEF Weights
<1>3. \A a \in DOMAIN add : add[a] \in MaybeWeight BY AsMapType, WeightType
<1>4. /\ total' = Write(total, height, n)
      /\ members' = [a \in Addr |-> IF a \in R THEN Write(Added(a), height, None) ELSE Added(a)]
  BY DEF update_members, Save
<1>5. Item(total, height, MaybeWeight) /\ \A a \in Addr : Item(members[a], height, MaybeWeight)
  BY DEF IInv, SnapshotsOK
<1>6. /\ Item(total', height, MaybeWeight) /\ total'.now = n
      /\ \A k \in 0..height : AtHeight(total', k) = AtHeight(total, k)
  <2> HIDE DEF n
  <2> QED BY <1>1, <1>2, <1>4, <1>5, WriteItem
<1>7. ASSUME NEW a \in Addr
      PROVE  /\ Item(Added(a), height, MaybeWeight)
             /\ Added(a).now = WithAdded(add)[a]
             /\ \A k \in 0..height : AtHeight(Added(a), k) = AtHeight(members[a], k)
  <2>1. CASE a \in DOMAIN add
    <3>1. Added(a) = Write(members[a], height, add[a]) BY <2>1 DEF Save
    <3>2. add[a] \in MaybeWeight /\ WithAdded(add)[a] = add[a] BY <1>3, <2>1 DEF WithAdded
    <3> HIDE DEF Added, add
    <3> QED BY <1>1, <1>5, <3>1, <3>2, WriteItem
  <2>2. CASE a \notin DOMAIN add
    <3>1. Added(a) = members[a] BY <2>2
    <3>2. WithAdded(add)[a] = members[a].now BY <2>2 DEF WithAdded, Current
    <3> HIDE DEF Added, add
    <3> QED BY <1>5, <3>1, <3>2
  <2> QED BY <2>1, <2>2
<1>8. ASSUME NEW a \in Addr
      PROVE  /\ Item(members'[a], height, MaybeWeight)
             /\ members'[a].now = Updated(add, remove)[a]
             /\ \A k \in 0..height : AtHeight(members'[a], k) = AtHeight(members[a], k)
  <2>1. Updated(add, remove)[a] = IF a \in R THEN None ELSE WithAdded(add)[a] BY DEF Updated
  <2>2. members'[a] = IF a \in R THEN Write(Added(a), height, None) ELSE Added(a) BY <1>4
  <2> HIDE DEF R, Added, add
  <2>3. CASE a \in R
    <3>1. /\ Item(Write(Added(a), height, None), height, MaybeWeight)
          /\ Write(Added(a), height, None).now = None
          /\ \A k \in 0..height : AtHeight(Write(Added(a), height, None), k) = AtHeight(Added(a), k)
      BY <1>1, <1>7, WriteItem, WeightType
    <3> QED BY <1>7, <2>1, <2>2, <2>3, <3>1
  <2>4. CASE a \notin R BY <1>7, <2>1, <2>2, <2>4
  <2> QED BY <2>3, <2>4
<1>9. DOMAIN members' = Addr BY <1>4
<1>10. Current' = Updated(add, remove)
  <2>1. \A a \in Addr : members'[a].now = Updated(add, remove)[a] BY <1>8
  <2>2. Current' = [a \in Addr |-> members'[a].now] BY DEF Current
  <2>3. Updated(add, remove) = [a \in Addr |-> Updated(add, remove)[a]] BY DEF Updated
  <2> HIDE DEF add
  <2> QED BY <2>1, <2>2, <2>3
<1> HIDE DEF n, add, R, Added
<1>11. SnapshotsOK' BY <1>2, <1>6, <1>8, <1>9 DEF SnapshotsOK
<1> QED BY <1>6, <1>8, <1>10, <1>11 DEF n, add

(* A query for a height up to the present one reads what it read before;   *)
(* the heights beyond it read the new members and their new sum.           *)
LEMMA SumKept ==
  ASSUME TotalIsSum, SnapshotsOK', ControlOK', height' = height,
         total'.now = SumOver(Current, Addr)',
         \A k \in 0..height : /\ \A a \in Addr : AtHeight(members'[a], k) = AtHeight(members[a], k)
                              /\ AtHeight(total', k) = AtHeight(total, k)
  PROVE  TotalIsSum'
<1> SUFFICES ASSUME NEW k \in 0..height' + 1
    PROVE  query_total_weight(k)' = SumAt(k)'
  BY TotalAsSumAt DEF TotalIsSum, SumAt, SumOver
<1>1. height \in Nat /\ height' \in Nat BY GroupAssumption DEF ControlOK
<1>2. CASE k = height + 1
  <2>1. k \in Nat /\ k > height' BY <1>1, <1>2
  <2>2. AtHeight(total', k) = total'.now /\ \A a \in Addr : AtHeight(members'[a], k) = members'[a].now
    BY <1>1, <2>1, AboveHeight DEF SnapshotsOK
  <2>3. query_total_weight(k)' = total'.now
    <3>1. query_total_weight(k)' = WeightOf(AtHeight(total', k)) BY DEF query_total_weight
    <3>2. total'.now \in Weights BY DEF SnapshotsOK
    <3> QED BY <2>2, <3>1, <3>2, WeightType
  <2>4. SumAt(k)' = SumOver(Current, Addr)'
    <3>1. [a \in Addr |-> query_member(a, k)]' = Current'
      BY <2>2 DEF query_member, Current
    <3> QED BY <3>1 DEF SumAt
  <2> QED BY <2>3, <2>4
<1>3. CASE k \in 0..height
  <2>1. query_total_weight(k) = SumAt(k)
    <3>1. k \in 0..height + 1 BY <1>1, <1>3
    <3> QED BY <3>1, TotalAsSumAt DEF TotalIsSum
  <2>2. query_total_weight(k)' = query_total_weight(k) BY <1>3 DEF query_total_weight
  <2>3. SumAt(k)' = SumAt(k)
    <3>1. [a \in Addr |-> query_member(a, k)]' = [a \in Addr |-> query_member(a, k)]
      BY <1>3 DEF query_member
    <3> QED BY <3>1 DEF SumAt
  <2> QED BY <2>1, <2>2, <2>3
<1> QED BY <1>1, <1>2, <1>3

LEMMA UpdateSync ==
  ASSUME IInv, NEW sender, NEW list \in MemberLists, NEW remove \in RemoveLists,
         NEW copy, copy = Current
  PROVE  ApplyDiffs(copy, Diffs(AsMap(list), remove)) = Updated(AsMap(list), remove)
<1> DEFINE add == AsMap(list)
           R == Removed(add, remove)
           first == [a \in DOMAIN add |-> [old |-> Current[a], new |-> add[a]]]
           second == [a \in R |-> [old |-> WithAdded(add)[a], new |-> None]]
<1>1. Diffs(add, remove) = <<first, second>> BY DEF Diffs
<1>2. Diffs(add, remove)[1] = first /\ Diffs(add, remove)[2] = second
  <2> HIDE DEF first, second
  <2> QED BY <1>1
<1>3. /\ DOMAIN first = DOMAIN add /\ \A a \in DOMAIN add : first[a].new = add[a]
      /\ DOMAIN second = R /\ \A a \in R : second[a].new = None
  OBVIOUS
<1>4. DOMAIN add \subseteq Addr /\ R \subseteq Addr BY AsMapType, RemovedType
<1> HIDE DEF first, second, R, add
<1>5. [a \in Addr |-> IF a \in DOMAIN first THEN first[a].new ELSE copy[a]] = WithAdded(add)
  BY <1>3 DEF WithAdded
<1>6. ApplyDiffs(copy, Diffs(add, remove))
        = [a \in Addr |-> IF a \in DOMAIN second THEN second[a].new ELSE WithAdded(add)[a]]
  BY <1>2, <1>5 DEF ApplyDiffs
<1>7. \A a \in Addr : (IF a \in DOMAIN second THEN second[a].new ELSE WithAdded(add)[a])
                        = IF a \in R THEN None ELSE WithAdded(add)[a]
  BY <1>3
<1>8. ApplyDiffs(copy, Diffs(add, remove)) = Updated(add, remove)
  BY <1>6, <1>7 DEF Updated, R
<1> QED BY <1>8 DEF add

-----------------------------------------------------------------------------
LEMMA UpdateMembersKeeps ==
  ASSUME IInv, NEW sender, NEW list \in MemberLists, NEW remove \in RemoveLists,
         execute_update_members(sender, list, remove)
  PROVE  IInv' /\ FixedStep
<1>1. /\ update_members(sender, list, remove) /\ height' = height
      /\ mirror' = [s \in hooks |-> ApplyDiffs(mirror[s], Diffs(AsMap(list), remove))]
      /\ admin' = admin /\ hooks' = hooks
  BY DEF execute_update_members
<1>2. /\ SnapshotsOK'
      /\ Current' = Updated(AsMap(list), remove)
      /\ total'.now = NewTotal(AsMap(list), remove)
      /\ \A k \in 0..height : /\ \A a \in Addr : AtHeight(members'[a], k) = AtHeight(members[a], k)
                              /\ AtHeight(total', k) = AtHeight(total, k)
  BY <1>1, UpdateSnapshots
<1>3. /\ Updated(AsMap(list), remove) \in [Addr -> MaybeWeight]
      /\ SumOver(Updated(AsMap(list), remove), Addr) = NewTotal(AsMap(list), remove)
  BY UpdatedTotal
<1>4. \A s \in hooks : mirror'[s] = Updated(AsMap(list), remove)
  <2> SUFFICES ASSUME NEW s \in hooks PROVE mirror'[s] = Updated(AsMap(list), remove) OBVIOUS
  <2>1. mirror[s] = Current BY DEF IInv, SubscribersInSync
  <2>2. mirror'[s] = ApplyDiffs(mirror[s], Diffs(AsMap(list), remove)) BY <1>1
  <2> QED BY <2>1, <2>2, UpdateSync
<1>5. ControlOK'
  <2>1. mirror' \in [hooks -> [Addr -> MaybeWeight]] BY <1>1, <1>3, <1>4
  <2> QED BY <1>1, <2>1 DEF IInv, ControlOK
<1>6. SubscribersInSync' BY <1>1, <1>2, <1>4 DEF SubscribersInSync
<1>7. total'.now = SumOver(Current, Addr)'
  <2>1. SumOver(Current, Addr)' = SumOver(Current', Addr) BY DEF SumOver
  <2> QED BY <1>2, <1>3, <2>1
<1>8. TotalIsSum' BY <1>1, <1>2, <1>5, <1>7, SumKept DEF IInv
<1>9. FixedStep BY <1>2 DEF FixedStep, query_member
<1> QED BY <1>2, <1>5, <1>6, <1>8, <1>9 DEF IInv

(* The other messages leave the snapshots alone.                           *)
LEMMA ControlKeeps ==
  ASSUME IInv, UNCHANGED <<members, total, height>>, ControlOK',
         \A s \in hooks' : mirror'[s] = Current
  PROVE  IInv' /\ FixedStep
<1>1. SnapshotsOK' BY DEF IInv, SnapshotsOK
<1>2. TotalIsSum' BY DEF IInv, TotalIsSum, query_total_weight, query_member
<1>3. SubscribersInSync' BY DEF SubscribersInSync, Current
<1>4. FixedStep BY DEF FixedStep, query_member
<1> QED BY <1>1, <1>2, <1>3, <1>4 DEF IInv

LEMMA NextBlockKeeps ==
  ASSUME IInv, NextBlock
  PROVE  IInv' /\ FixedStep
<1>1. /\ height < MaxHeight /\ height' = height + 1
      /\ UNCHANGED <<admin, members, total, hooks, mirror>>
  BY DEF NextBlock
<1>2. height \in Nat /\ MaxHeight \in Nat BY HeightType, GroupAssumption DEF IInv
<1>3. \A item, V : Item(item, height, V) => Item(item, height + 1, V) BY <1>2 DEF Item
<1>4. SnapshotsOK'
  <2>1. SnapshotsOK BY DEF IInv
  <2> QED BY <1>1, <1>3, <2>1 DEF SnapshotsOK
<1>5. ControlOK'
  <2>1. height' \in 0..MaxHeight BY <1>1, <1>2
  <2> QED BY <1>1, <2>1 DEF IInv, ControlOK
<1>6. TotalIsSum'
  <2> SUFFICES ASSUME NEW k \in 0..height' + 1
      PROVE  query_total_weight(k)' = Total([a \in Addr |-> WeightOf(query_member(a, k))])'
    BY DEF TotalIsSum
  <2>1. /\ query_total_weight(k)' = query_total_weight(k)
        /\ Total([a \in Addr |-> WeightOf(query_member(a, k))])'
             = Total([a \in Addr |-> WeightOf(query_member(a, k))])
    BY <1>1 DEF query_total_weight, query_member
  <2>2. query_total_weight(k) = SumAt(k)
    <3>1. CASE k \in 0..height + 1 BY <3>1, TotalAsSumAt DEF IInv, TotalIsSum
    <3>2. CASE k = height + 2
      <4>1. k \in Nat /\ k > height BY <1>2, <3>2
      <4> QED BY <4>1, NextHeight, NowIsSum DEF IInv
    <3> QED BY <1>1, <1>2, <3>1, <3>2
  <2> QED BY <2>1, <2>2, TotalAsSumAt
<1>7. SubscribersInSync' BY <1>1 DEF IInv, SubscribersInSync, Current
<1>8. FixedStep BY <1>1 DEF FixedStep, query_member
<1> QED BY <1>4, <1>5, <1>6, <1>7, <1>8 DEF IInv

LEMMA NextIInv == IInv /\ [Next]_groupVars => IInv' /\ [FixedStep]_groupVars
<1> SUFFICES ASSUME IInv, [Next]_groupVars PROVE IInv' /\ [FixedStep]_groupVars OBVIOUS
<1>1. ASSUME NEW sender \in Addr, NEW list \in MemberLists, NEW remove \in RemoveLists,
             execute_update_members(sender, list, remove)
      PROVE  IInv' /\ FixedStep
  BY <1>1, UpdateMembersKeeps
<1>2. ASSUME NEW sender \in Addr, NEW new_admin \in Admins,
             execute_update_admin(sender, new_admin)
      PROVE  IInv' /\ FixedStep
  <2>1. ControlOK' BY <1>2, GroupAssumption DEF execute_update_admin, IInv, ControlOK, Maybe
  <2>2. \A s \in hooks' : mirror'[s] = Current
    BY <1>2 DEF execute_update_admin, IInv, SubscribersInSync
  <2> QED BY <1>2, <2>1, <2>2, ControlKeeps DEF execute_update_admin
<1>3. ASSUME NEW sender \in Addr, NEW s \in Subscribers, execute_add_hook(sender, s)
      PROVE  IInv' /\ FixedStep
  <2>1. /\ hooks' = hooks \cup {s} /\ s \notin hooks
        /\ mirror' = [t \in hooks \cup {s} |-> IF t = s THEN Current ELSE mirror[t]]
        /\ UNCHANGED <<admin, members, total, height>>
    BY <1>3 DEF execute_add_hook
  <2>2. \A t \in hooks' : mirror'[t] = Current BY <2>1 DEF IInv, SubscribersInSync
  <2>3. Current \in [Addr -> MaybeWeight] BY CurrentType DEF IInv
  <2>4. ControlOK' BY <2>1, <2>2, <2>3 DEF IInv, ControlOK
  <2> QED BY <2>1, <2>2, <2>4, ControlKeeps
<1>4. ASSUME NEW sender \in Addr, NEW s \in Subscribers, execute_remove_hook(sender, s)
      PROVE  IInv' /\ FixedStep
  <2>1. /\ hooks' = hooks \ {s} /\ mirror' = [t \in hooks \ {s} |-> mirror[t]]
        /\ UNCHANGED <<admin, members, total, height>>
    BY <1>4 DEF execute_remove_hook, Restrict
  <2>2. \A t \in hooks' : mirror'[t] = Current BY <2>1 DEF IInv, SubscribersInSync
  <2>3. ControlOK' BY <2>1 DEF IInv, ControlOK
  <2> QED BY <2>1, <2>2, <2>3, ControlKeeps
<1>5. CASE NextBlock BY <1>5, NextBlockKeeps
<1>6. CASE UNCHANGED groupVars
  <2>1. UNCHANGED <<members, total, height>> /\ ControlOK' /\ hooks' = hooks /\ mirror' = mirror
    BY <1>6 DEF groupVars, IInv, ControlOK
  <2>2. \A s \in hooks' : mirror'[s] = Current BY <2>1 DEF IInv, SubscribersInSync
  <2> QED BY <2>1, <2>2, ControlKeeps
<1> QED BY <1>1, <1>2, <1>3, <1>4, <1>5, <1>6 DEF Next

(* instantiate writes the members of the list in the first block, before   *)
(* which there are none.                                                   *)
LEMMA InitIInv == Init => IInv
<1> SUFFICES ASSUME Init PROVE IInv OBVIOUS
<1>1. PICK list \in MemberLists, owner \in Admins : create(list, owner) BY DEF Init
<1> DEFINE add == AsMap(list)
           D == DOMAIN add
           sum == SumOver(add, D)
           none == [a \in Addr |-> None]
<1>2. height = 0 /\ hooks = {} /\ mirror = <<>> BY DEF Init
<1>3. D \in SUBSET Addr /\ \A a \in D : add[a] \in MaybeWeight BY AsMapType, WeightType
<1>4. sum \in Weights /\ sum \in MaybeWeight
  <2>1. sum <= MaxU64 BY <1>1 DEF create
  <2>2. sum \in Nat
    <3> HIDE DEF add, D
    <3> QED BY <1>3, SumOverType
  <2> HIDE DEF sum
  <2> QED BY <2>1, <2>2, WeightType, GroupAssumption DEF Weights
<1>5. /\ total = Write(Fresh(None), 0, sum)
      /\ members = [a \in Addr |-> IF a \in D THEN Write(Fresh(None), 0, add[a]) ELSE Fresh(None)]
  BY <1>1, <1>2 DEF create, Save
<1> HIDE DEF sum, add, D
<1>6. ASSUME NEW v \in MaybeWeight
      PROVE  /\ Item(Write(Fresh(None), 0, v), 0, MaybeWeight)
             /\ Write(Fresh(None), 0, v).now = v
             /\ AtHeight(Write(Fresh(None), 0, v), 0) = None
  <2>1. /\ Item(Fresh(None), 0, MaybeWeight) /\ AtHeight(Fresh(None), 0) = None
    BY FreshItem, WeightType
  <2>2. 0 \in Nat /\ 0 \in 0..0 OBVIOUS
  <2> QED BY <2>1, <2>2, WriteItem
<1>7. ASSUME NEW a \in Addr
      PROVE  /\ Item(members[a], 0, MaybeWeight)
             /\ AtHeight(members[a], 0) = None
             /\ members[a].now = IF a \in D THEN add[a] ELSE None
  <2>1. CASE a \in D BY <1>3, <1>5, <1>6, <2>1
  <2>2. CASE a \notin D
    <3>1. members[a] = Fresh(None) BY <1>5, <2>2
    <3>2. 0 \in Nat /\ None \in MaybeWeight BY WeightType
    <3> QED BY <2>2, <3>1, <3>2, FreshItem
  <2> QED BY <2>1, <2>2
<1>8. SnapshotsOK
  <2>1. DOMAIN members = Addr BY <1>5
  <2>2. Item(total, 0, MaybeWeight) /\ total.now = sum BY <1>4, <1>5, <1>6
  <2> QED BY <1>2, <1>4, <1>7, <2>1, <2>2 DEF SnapshotsOK
<1>9. ControlOK
  <2>1. admin \in Maybe(Addr) BY <1>1, GroupAssumption DEF create, Maybe
  <2>2. <<>> \in [{} -> [Addr -> MaybeWeight]] OBVIOUS
  <2>3. mirror \in [hooks -> [Addr -> MaybeWeight]] BY <1>2, <2>2
  <2> QED BY <1>2, <2>1, <2>3, GroupAssumption DEF ControlOK
<1>10. total.now = SumOver(Current, Addr)
  <2>1. \A a \in Addr : Current[a] = IF a \in D THEN add[a] ELSE none[a] BY <1>7 DEF Current
  <2>2. \A a \in Addr : none[a] = None OBVIOUS
  <2> HIDE DEF none
  <2>3. \A a \in Addr : none[a] \in MaybeWeight BY <2>2, WeightType
  <2>4. SumOver(Current, Addr) = SumOver(none, Addr) - SumOver(none, D) + SumOver(add, D)
    BY <1>3, <2>1, <2>3, SumOverPatch
  <2>5. SumOver(none, Addr) = 0 /\ SumOver(none, D) = 0 BY <1>3, <2>2, SumOverNone
  <2>6. SumOver(add, D) \in Nat BY <1>3, SumOverType
  <2>7. total.now = SumOver(add, D) BY <1>4, <1>5, <1>6 DEF sum
  <2> QED BY <2>4, <2>5, <2>6, <2>7
<1>11. TotalIsSum
  <2> SUFFICES ASSUME NEW k \in 0..height + 1 PROVE query_total_weight(k) = SumAt(k)
    BY TotalAsSumAt DEF TotalIsSum
  <2>1. CASE k = 0
    <3>1. query_total_weight(k) = 0 BY <1>4, <1>5, <1>6, <2>1, WeightType DEF query_total_weight
    <3>2. SumAt(k) = 0
      <4> DEFINE q == [a \in Addr |-> query_member(a, k)]
      <4>1. \A a \in Addr : q[a] = None BY <1>7, <2>1 DEF query_member
      <4> HIDE DEF q
      <4>2. SumOver(q, Addr) = 0 BY <4>1, SumOverNone
      <4> QED BY <4>2 DEF q, SumAt
    <3> QED BY <3>1, <3>2
  <2>2. CASE k = 1
    <3>1. k \in Nat /\ k > height BY <1>2, <2>2
    <3> QED BY <1>8, <1>9, <1>10, <3>1, NextHeight
  <2> QED BY <1>2, <2>1, <2>2
<1>12. SubscribersInSync BY <1>2 DEF SubscribersInSync
<1> QED BY <1>8, <1>9, <1>11, <1>12 DEF IInv

-----------------------------------------------------------------------------
(* The invariant holds whatever is edited, and when.                       *)
THEOREM Invariance == Spec => []IInv
BY InitIInv, NextIInv, PTL DEF Spec

(* Weights and the total stay within a u64, although update_members checks *)
(* only one account after the other.                                       *)
THEOREM TypeCorrect == Spec => []TypeOK
<1>1. IInv => TypeOK
  <2> SUFFICES ASSUME IInv PROVE TypeOK OBVIOUS
  <2>1. ASSUME NEW item \in Range(members) \cup {total}
        PROVE  Item(item, height, MaybeWeight)
    <3>1. item = total \/ \E a \in Addr : item = members[a]
      BY DEF Range, IInv, SnapshotsOK
    <3> QED BY <3>1 DEF IInv, SnapshotsOK
  <2> QED BY <2>1 DEF Item, IInv, SnapshotsOK, ControlOK, TypeOK, MaybeWeight
<1> QED BY <1>1, Invariance, PTL

(* TOTAL, adjusted account by account in u64, and the changelogs of TOTAL  *)
(* and MEMBERS agree at every height a query may ask for.                  *)
THEOREM SumTheorem == Spec => []TotalIsSum
<1>1. IInv => TotalIsSum BY DEF IInv
<1> QED BY <1>1, Invariance, PTL

(* The MemberDiffs of one update, applied in order, give its result.       *)
THEOREM SyncTheorem == Spec => []SubscribersInSync
<1>1. IInv => SubscribersInSync BY DEF IInv
<1> QED BY <1>1, Invariance, PTL

(* No later edit changes what a query for a past height answers.           *)
THEOREM HistoryTheorem == Spec => HistoryIsFixed
BY Invariance, NextIInv, PTL DEF Spec, HistoryIsFixed

(* Whatever an update does between two pages of ListMembers, the second    *)
(* one repeats nobody, and leaves out nobody it has passed who was a       *)
(* member before and after.                                                *)
THEOREM PagesTheorem == Spec => PagesSurviveEdits
<1>1. PagesStep
  <2> DEFINE K == {a \in Addr : Current[a] # None}
             K2 == {a \in Addr : Current'[a] # None}
  <2> SUFFICES ASSUME NEW start_after \in Addr \cup {0}, NEW limit \in 1..Cardinality(Addr),
                      NEW first, first = Page(K, start_after, limit), Cardinality(first) = limit,
                      NEW second, second = Page(K2, LastOf(first), limit)
      PROVE  /\ first \cap second = {}
             /\ \A a \in Addr :
                  a > start_after /\ Current[a] # None /\ Current'[a] # None
                    /\ (Cardinality(second) < limit \/ a <= LastOf(second))
                    => a \in first \cup second
    BY SMTT(30) DEF PagesStep, list_members
  <2>1. K \in SUBSET Nat /\ IsFiniteSet(K) /\ K2 \in SUBSET Nat /\ IsFiniteSet(K2)
    BY GroupAssumption, FS_Subset
  <2>2. start_after \in Nat /\ limit \in Nat \ {0}
    <3>1. Cardinality(Addr) \in Nat BY GroupAssumption, FS_CardinalityType
    <3> QED BY <3>1, GroupAssumption
  <2>3. /\ first \cap second = {}
        /\ \A a \in K \cap K2 :
             a > start_after /\ (Cardinality(second) < limit \/ a <= LastOf(second))
               => a \in first \cup second
    <3> HIDE DEF K, K2
    <3> QED BY <2>1, <2>2, TwoPages
  <2>4. \A a \in Addr : Current[a] # None /\ Current'[a] # None => a \in K \cap K2 OBVIOUS
  <2> HIDE DEF K, K2
  <2> QED BY <2>3, <2>4
<1> QED BY <1>1, PTL DEF Spec, PagesSurviveEdits
-----------------------------------------------------------------------------
(* The refinement of the abstract electorate: NextBlock starts a block, an *)
(* update edits, and whatever else happens is a stutter.                   *)
LEMMA PastIsPastOf == Past = PastOf(Addr, members, height)
BY DEF Past, PastOf, query_member

LEMMA InitRefines == Init => EL!Init
<1> SUFFICES ASSUME Init PROVE EL!Init OBVIOUS
<1>1. PICK list \in MemberLists, owner \in Admins : create(list, owner) BY DEF Init
<1> DEFINE add == AsMap(list)
<1>2. height = 0 BY DEF Init
<1>3. \A a \in DOMAIN add : add[a] \in MaybeWeight BY AsMapType, WeightType
<1>4. \A a \in Addr : members[a] = IF a \in DOMAIN add THEN Write(Fresh(None), 0, add[a])
                                   ELSE Fresh(None)
  BY <1>1, <1>2 DEF create, Save
<1> HIDE DEF add
<1>5. /\ Item(Fresh(None), 0, MaybeWeight) /\ AtHeight(Fresh(None), 0) = None
      /\ 0 \in Nat /\ 0 \in 0..0
  BY FreshItem, WeightType
<1>6. ASSUME NEW a \in Addr PROVE AtHeight(members[a], 0) = None
  <2>1. CASE a \in DOMAIN add BY <1>3, <1>4, <1>5, <2>1, WriteItem
  <2>2. CASE a \notin DOMAIN add BY <1>4, <1>5, <2>2
  <2> QED BY <2>1, <2>2
<1>7. Past = <<[a \in Addr |-> None]>>
  <2>1. height + 1 = 1 /\ \A b \in 1..1 : b - 1 = 0 BY <1>2
  <2>2. Past = [b \in 1..1 |-> [a \in Addr |-> None]] BY <1>6, <2>1 DEF Past, query_member
  <2> QED BY <2>2
<1>8. Current \in [Addr -> Weights \cup {None}]
  BY InitIInv, CurrentType DEF IInv, MaybeWeight, Maybe
<1> QED BY <1>7, <1>8 DEF EL!Init, EL!Memberships, EL!Nobody

LEMMA StepRefines == IInv /\ IInv' /\ [Next]_groupVars => [EL!Next]_<<Current, Past>>
<1> SUFFICES ASSUME IInv, IInv', [Next]_groupVars PROVE [EL!Next]_<<Current, Past>>
  OBVIOUS
<1>1. height \in Nat /\ height' \in Nat BY HeightType DEF IInv, ControlOK
<1>2. CASE NextBlock
  <2>1. height' = height + 1 /\ members' = members BY <1>2 DEF NextBlock
  <2>2. \A a \in Addr : Item(members[a], height, MaybeWeight) BY DEF IInv, SnapshotsOK
  <2>3. PastOf(Addr, members, height') = Append(PastOf(Addr, members, height), Current)
    <3>1. Current \in [Addr -> MaybeWeight] BY CurrentType DEF IInv
    <3>2. \A a \in Addr : Current[a] = members[a].now BY DEF Current
    <3>3. Items(Addr, members, height, MaybeWeight, Current) BY <2>2, <3>1, <3>2 DEF Items
    <3> QED BY <1>1, <2>1, <3>3, NextPast
  <2>4. Past' = PastOf(Addr, members', height') BY DEF Past, PastOf, query_member
  <2>5. Past' = Append(Past, Current) BY <2>1, <2>3, <2>4, PastIsPastOf
  <2> QED BY <2>1, <2>5 DEF EL!Next, EL!NextBlock, Current
<1>3. CASE height' = height
  <2>1. [FixedStep]_groupVars BY NextIInv
  <2>2. \A a \in Addr, h \in 0..height : AtHeight(members'[a], h) = query_member(a, h)
    BY <2>1 DEF FixedStep, groupVars, query_member
  <2>3. Past' = Past
    <3>1. \A b \in 1..height + 1 : b - 1 \in 0..height BY <1>1
    <3> QED BY <1>3, <2>2, <3>1 DEF Past, query_member
  <2>4. Current' \in [Addr -> Weights \cup {None}]
    BY DEF IInv, SnapshotsOK, Item, Current, MaybeWeight, Maybe
  <2> QED BY <2>3, <2>4 DEF EL!Next, EL!Edit, EL!Memberships
<1>4. NextBlock \/ height' = height
  BY DEF Next, execute_update_members, execute_update_admin, execute_add_hook,
         execute_remove_hook, groupVars
<1> QED BY <1>2, <1>3, <1>4

(* Whatever is edited, and however often in a block, the group can be read *)
(* as it was at the start of every block.                                  *)
THEOREM Refinement == Spec => ImplementsElectorate
BY Invariance, InitRefines, StepRefines, PTL DEF Spec, ImplementsElectorate, EL!Spec
==============================================================================
