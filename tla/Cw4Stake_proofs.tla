-------------------------- MODULE Cw4Stake_proofs --------------------------
(***************************************************************************)
(* The staked group, for every set of accounts, purse and configuration:   *)
(* tokens are conserved and stay frozen while they unbond, and the members *)
(* with their weights, the total and the subscribers follow the stakes.    *)
(***************************************************************************)
EXTENDS Cw4Stake, Data_proofs

Amounts == [Addr -> Nat]
ByHeight == [Addr -> [Heights -> Nat]]
MaybeWeight == 0..MaxU64 \cup {None}
WeightMap(current) == [a \in Addr |-> WeightOf(current[a])]

LEMMA Constants ==
  /\ IsFiniteSet(Addr) /\ IsFiniteSet(Heights)
  /\ MaxU64 \in Nat /\ Purse \in [Addr -> Nat] /\ MaxHeight \in Nat /\ None \notin Nat
<1>1. /\ IsFiniteSet(Addr) /\ None \notin Nat
      /\ MaxU64 \in Nat /\ Purse \in [Addr -> Nat] /\ MaxHeight \in Nat
  BY StakeAssumption
<1>2. IsFiniteSet(0..MaxHeight) BY <1>1, FS_Interval
<1> QED BY <1>1, <1>2 DEF Heights

LEMMA WeightType ==
  /\ \A w \in MaybeWeight : WeightOf(w) \in 0..MaxU64
  /\ WeightOf(None) = 0 /\ None \in MaybeWeight
BY Constants DEF MaybeWeight, WeightOf

LEMMA Quotient ==
  ASSUME NEW n \in Nat, NEW d \in Nat, d # 0
  PROVE  n \div d \in Nat /\ n \div d <= n
OBVIOUS

LEMMA Remainder ==
  ASSUME NEW n \in Nat, NEW d \in Nat
  PROVE  n % (d + 1) \in 0..d /\ (n <= d => n % (d + 1) = n)
OBVIOUS

-----------------------------------------------------------------------------
(* The invariant.  tokens_per_weight may be 0 as long as nobody has staked *)
(* min_bond, which is never 0.                                             *)
ConfigOK ==
  /\ cfg.tokens_per_weight \in Nat
  /\ cfg.min_bond \in Nat \ {0}
  /\ cfg.unbonding_period \in Nat

ControlOK ==
  /\ admin \in Addr \cup {None}
  /\ hooks \subseteq Subscribers
  /\ mirror \in [hooks -> [Addr -> MaybeWeight]]
  /\ height \in Heights
  /\ SubscribersInSync

MembersOK ==
  /\ DOMAIN members = Addr
  /\ \A a \in Addr : Item(members[a], height, MaybeWeight)
  /\ \A a \in Addr : members[a].now = calc_weight(stake[a])
  /\ \A a \in Addr : stake[a] >= cfg.min_bond => cfg.tokens_per_weight # 0
  /\ total \in 0..MaxU64
  /\ TotalIsSum

TokensOK ==
  /\ stake \in Amounts /\ wallet \in Amounts
  /\ claims \in ByHeight
  /\ StakeAndClaimsBacked

(* Every unbonding that is not due yet has its claim, a period later.      *)
ExitsOK ==
  /\ exits \in ByHeight
  /\ \A a \in Addr, h \in Heights :
       LET due == h + cfg.unbonding_period IN
       /\ exits[a][h] > 0 => h <= height /\ due <= MaxHeight
       /\ height < due /\ due <= MaxHeight => claims[a][due] = exits[a][h]

IInv == ConfigOK /\ ControlOK /\ MembersOK /\ TokensOK /\ ExitsOK

LEMMA CalcType ==
  ASSUME ConfigOK, NEW n \in Nat, n >= cfg.min_bond => cfg.tokens_per_weight # 0
  PROVE  calc_weight(n) \in MaybeWeight
<1>1. CASE n < cfg.min_bond BY <1>1 DEF calc_weight, MaybeWeight
<1>2. CASE ~ (n < cfg.min_bond)
  <2>1. n \div cfg.tokens_per_weight \in Nat BY <1>2, Quotient DEF ConfigOK
  <2>2. (n \div cfg.tokens_per_weight) % (MaxU64 + 1) \in 0..MaxU64
    BY <2>1, Constants, Remainder
  <2> QED BY <1>2, <2>2 DEF calc_weight, MaybeWeight
<1> QED BY <1>1, <1>2

LEMMA HeightType ==
  ASSUME ControlOK
  PROVE  height \in Nat /\ height <= MaxHeight
BY Constants DEF ControlOK, Heights

-----------------------------------------------------------------------------
(* What a change of the stake does to the members, whether it changes the  *)
(* weight of its account or not.                                           *)
LEMMA UpdateMembership ==
  ASSUME ConfigOK, ControlOK, MembersOK, stake \in Amounts,
         NEW sender \in Addr, NEW n \in Nat, n >= cfg.min_bond => cfg.tokens_per_weight # 0,
         update_membership(sender, n),
         stake' = [stake EXCEPT ![sender] = n],
         UNCHANGED <<cfg, admin, hooks, height>>
  PROVE  ControlOK' /\ MembersOK' /\ FixedStep
<1> DEFINE new == calc_weight(n)
<1>1. new \in MaybeWeight BY CalcType
<1>2. height \in Nat BY HeightType
<1>3. \A m : calc_weight(m)' = calc_weight(m) BY DEF calc_weight
<1>4. /\ stake'[sender] = n /\ \A a \in Addr \ {sender} : stake'[a] = stake[a]
  BY DEF Amounts
<1>5. CASE new = members[sender].now
  <2>1. UNCHANGED <<members, total, mirror>> BY <1>5 DEF update_membership
  <2>2. \A a \in Addr : members'[a].now = calc_weight(stake'[a])
    BY <1>4, <1>5, <2>1 DEF MembersOK
  <2>3. \A a \in Addr : (calc_weight(stake[a]))' = calc_weight(stake'[a])
    BY DEF calc_weight
  <2>4. MembersOK' BY <1>4, <2>1, <2>2, <2>3 DEF MembersOK, TotalIsSum
  <2>5. ControlOK' BY <2>1 DEF ControlOK, SubscribersInSync, Current
  <2>6. FixedStep BY <2>1 DEF FixedStep
  <2> QED BY <2>4, <2>5, <2>6
<1>6. CASE new # members[sender].now
  <2>1. /\ total + WeightOf(new) <= MaxU64
        /\ members' = [members EXCEPT ![sender] = Write(@, height, new)]
        /\ total' = total + WeightOf(new) - WeightOf(members[sender].now)
        /\ mirror' = [s \in hooks |-> [mirror[s] EXCEPT ![sender] = new]]
    BY <1>6 DEF update_membership, WeightFits, NewTotal, Save, Diff
  <2> HIDE DEF new
  <2>2. /\ Item(Write(members[sender], height, new), height, MaybeWeight)
        /\ Write(members[sender], height, new).now = new
        /\ \A k \in 0..height :
             AtHeight(Write(members[sender], height, new), k) = AtHeight(members[sender], k)
    BY <1>1, <1>2, WriteItem DEF MembersOK
  <2>3. /\ DOMAIN members' = Addr
        /\ members'[sender] = Write(members[sender], height, new)
        /\ \A a \in Addr \ {sender} : members'[a] = members[a]
    BY <2>1 DEF MembersOK
  <2>4. \A a \in Addr : Item(members'[a], height, MaybeWeight)
    BY <2>2, <2>3 DEF MembersOK
  <2>5. Current' = [Current EXCEPT ![sender] = new]
    BY <2>2, <2>3 DEF Current
  <2>6. FixedStep BY <2>2, <2>3 DEF FixedStep
  <2>7. ControlOK'
    <3>1. \A s \in hooks : mirror[s] = Current BY DEF ControlOK, SubscribersInSync
    <3>2. \A s \in hooks : mirror'[s] = Current' BY <2>1, <2>5, <3>1
    <3>3. mirror' \in [hooks -> [Addr -> MaybeWeight]] BY <1>1, <2>1 DEF ControlOK
    <3> QED BY <3>2, <3>3 DEF ControlOK, SubscribersInSync
  <2>8. \A a \in Addr : members'[a].now = calc_weight(stake'[a])
    BY <1>4, <2>2, <2>3 DEF MembersOK, new
  <2>9. total' \in 0..MaxU64 /\ TotalIsSum'
    <3> DEFINE w == [a \in Addr |-> WeightOf(members[a].now)]
               v == WeightOf(new)
    <3>1. w \in [Addr -> Nat] /\ v \in 0..MaxU64
      <4>1. \A a \in Addr : members[a].now \in MaybeWeight BY DEF MembersOK, Item
      <4> QED BY <1>1, <4>1, WeightType
    <3>2. [a \in Addr |-> WeightOf(members[a].now)]' = [w EXCEPT ![sender] = v]
      BY <2>2, <2>3
    <3>3. total = Total(w) /\ total \in 0..MaxU64 BY DEF MembersOK, TotalIsSum
    <3>4. total' = total + v - w[sender] BY <2>1
    <3>5. total + v <= MaxU64 BY <2>1
    <3> HIDE DEF w, v
    <3>6. Total([w EXCEPT ![sender] = v]) = Total(w) - w[sender] + v
      <4>1. v \in Nat BY <3>1, Constants
      <4> QED BY <3>1, <4>1, Constants, TotalUpdate
    <3>7. w[sender] <= Total(w) BY <3>1, Constants, PartOfTotal
    <3>8. total' \in 0..MaxU64 BY <3>1, <3>3, <3>4, <3>5, <3>7, Constants
    <3>9. total' = Total([w EXCEPT ![sender] = v]) BY <3>1, <3>3, <3>4, <3>6, Constants
    <3> QED BY <3>2, <3>8, <3>9 DEF TotalIsSum
  <2>10. \A a \in Addr : (calc_weight(stake[a]))' = calc_weight(stake'[a])
    BY DEF calc_weight
  <2>11. MembersOK' BY <1>4, <2>3, <2>4, <2>8, <2>9, <2>10 DEF MembersOK
  <2> QED BY <2>6, <2>7, <2>11
<1> QED BY <1>5, <1>6
-----------------------------------------------------------------------------
(* Sums of stakes and of claims, and how one entry changes them.           *)
Owed(c) == [a \in Addr |-> Total(c[a])]

LEMMA StakeSum ==
  ASSUME NEW f \in Amounts, NEW a \in Addr, NEW n \in Nat
  PROVE  /\ Total(f) \in Nat /\ f[a] \in Nat /\ f[a] <= Total(f)
         /\ Total([f EXCEPT ![a] = n]) = Total(f) - f[a] + n
<1>1. f \in [Addr -> Nat] /\ IsFiniteSet(Addr) BY Constants DEF Amounts
<1>2. Total(f) \in Nat /\ f[a] <= Total(f) BY <1>1, TotalType, PartOfTotal
<1>3. Total([f EXCEPT ![a] = n]) = Total(f) - f[a] + n BY <1>1, TotalUpdate
<1> QED BY <1>1, <1>2, <1>3

LEMMA RowSum ==
  ASSUME NEW row \in [Heights -> Nat], NEW h \in Heights, NEW n \in Nat
  PROVE  /\ Total(row) \in Nat /\ row[h] \in Nat /\ row[h] <= Total(row)
         /\ Total([row EXCEPT ![h] = n]) = Total(row) - row[h] + n
<1>1. Total(row) \in Nat /\ row[h] <= Total(row) BY Constants, TotalType, PartOfTotal
<1>2. Total([row EXCEPT ![h] = n]) = Total(row) - row[h] + n BY Constants, TotalUpdate
<1> QED BY <1>1, <1>2

LEMMA OwedType ==
  ASSUME NEW c \in ByHeight
  PROVE  Owed(c) \in Amounts /\ \A a \in Addr : Owed(c)[a] = Total(c[a])
<1>1. \A a \in Addr : c[a] \in [Heights -> Nat] BY DEF ByHeight
<1>2. \A a \in Addr : Total(c[a]) \in Nat BY <1>1, Constants, TotalType
<1> QED BY <1>2 DEF Owed, Amounts

LEMMA OwedSum ==
  ASSUME NEW c \in ByHeight, NEW d \in ByHeight, NEW a \in Addr,
         \A b \in Addr \ {a} : d[b] = c[b]
  PROVE  Total(Owed(d)) = Total(Owed(c)) - Total(c[a]) + Total(d[a])
<1> DEFINE new == [Owed(c) EXCEPT ![a] = Total(d[a])]
<1>1. Owed(c) \in Amounts /\ Owed(c)[a] = Total(c[a]) BY OwedType
<1>2. d[a] \in [Heights -> Nat] BY DEF ByHeight
<1>3. Total(d[a]) \in Nat BY <1>2, Constants, TotalType
<1>4. Owed(d) = new BY DEF Owed
<1>5. Total(new) = Total(Owed(c)) - Owed(c)[a] + Total(d[a])
  BY <1>1, <1>3, StakeSum
<1> HIDE DEF new
<1> QED BY <1>1, <1>4, <1>5

(* The sums of StakeAndClaimsBacked, all of them naturals. *)
LEMMA Backed ==
  ASSUME TokensOK
  PROVE  /\ held = Total(stake) + Total(Owed(claims))
         /\ Total(stake) \in Nat /\ Total(Owed(claims)) \in Nat /\ held \in Nat
         /\ \A a \in Addr :
              /\ stake[a] \in Nat /\ wallet[a] \in Nat /\ Total(claims[a]) \in Nat
              /\ wallet[a] + stake[a] + Total(claims[a]) = Purse[a]
<1>1. held = Total(stake) + Total(Owed(claims)) BY DEF TokensOK, StakeAndClaimsBacked, Owed
<1>2. Owed(claims) \in Amounts /\ \A a \in Addr : Owed(claims)[a] = Total(claims[a])
  BY OwedType DEF TokensOK
<1>3. Total(stake) \in Nat /\ Total(Owed(claims)) \in Nat
  BY <1>2, Constants, TotalType DEF TokensOK, Amounts
<1>4. ASSUME NEW a \in Addr
      PROVE  /\ stake[a] \in Nat /\ wallet[a] \in Nat /\ Total(claims[a]) \in Nat
             /\ wallet[a] + stake[a] + Total(claims[a]) = Purse[a]
  BY <1>2 DEF TokensOK, StakeAndClaimsBacked, Amounts
<1> QED BY <1>1, <1>3, <1>4

-----------------------------------------------------------------------------
LEMMA BondKeeps ==
  ASSUME IInv, NEW sender \in Addr, NEW amount \in Nat, execute_bond(sender, amount)
  PROVE  IInv' /\ FixedStep
<1> DEFINE n == stake[sender] + amount
<1>1. stake \in Amounts /\ wallet \in Amounts /\ n \in Nat
  BY DEF IInv, TokensOK, Amounts
<1>2. /\ wallet[sender] >= amount
      /\ wallet' = [wallet EXCEPT ![sender] = wallet[sender] - amount]
      /\ held' = held + amount
      /\ stake' = [stake EXCEPT ![sender] = n]
      /\ UNCHANGED <<cfg, admin, hooks, claims, exits, height>>
  BY DEF execute_bond
<1>3. stake'[sender] = n BY <1>1, <1>2 DEF Amounts
<1>4. update_membership(sender, n) /\ (n >= cfg.min_bond => cfg.tokens_per_weight # 0)
  BY <1>3 DEF execute_bond
<1>5. ControlOK' /\ MembersOK' /\ FixedStep
  <2> HIDE DEF n
  <2> QED BY <1>1, <1>2, <1>4, UpdateMembership DEF IInv
<1>6. TokensOK'
  <2>1. stake' \in Amounts /\ wallet' \in Amounts /\ claims' \in ByHeight
    <3>1. wallet[sender] - amount \in Nat BY <1>1, <1>2 DEF Amounts
    <3> QED BY <1>1, <1>2, <3>1 DEF IInv, TokensOK, Amounts
  <2>2. Total(stake') = Total(stake) - stake[sender] + n
    <3> HIDE DEF n
    <3> QED BY <1>1, <1>2, StakeSum
  <2>3. held' = Total(stake') + Total([a \in Addr |-> Total(claims'[a])])
    <3>1. [a \in Addr |-> Total(claims'[a])] = Owed(claims) BY <1>2 DEF Owed
    <3> QED BY <1>2, <2>2, <3>1, Backed DEF IInv
  <2>4. \A a \in Addr : wallet'[a] + stake'[a] + Total(claims'[a]) = Purse[a]
    BY <1>1, <1>2, Backed DEF IInv, Amounts
  <2> QED BY <2>1, <2>3, <2>4 DEF TokensOK, StakeAndClaimsBacked
<1>7. ConfigOK' /\ ExitsOK' BY <1>2 DEF IInv, ConfigOK, ExitsOK
<1> QED BY <1>5, <1>6, <1>7 DEF IInv

LEMMA UnbondKeeps ==
  ASSUME IInv, NEW sender \in Addr, NEW amount \in Nat, execute_unbond(sender, amount)
  PROVE  IInv' /\ FixedStep
<1> DEFINE n == stake[sender] - amount
           due == height + cfg.unbonding_period
           row == [claims[sender] EXCEPT ![due] = claims[sender][due] + amount]
           out == [exits[sender] EXCEPT ![height] = exits[sender][height] + amount]
<1>1. /\ due <= MaxHeight /\ stake[sender] >= amount
      /\ stake' = [stake EXCEPT ![sender] = n]
      /\ claims' = [claims EXCEPT ![sender] = row]
      /\ exits' = [exits EXCEPT ![sender] = out]
      /\ UNCHANGED <<cfg, admin, hooks, wallet, held, height>>
  BY DEF execute_unbond, CanUnbond, ReleaseHeight
<1>2. /\ stake \in Amounts /\ wallet \in Amounts /\ claims \in ByHeight /\ exits \in ByHeight
      /\ n \in Nat
  BY <1>1 DEF IInv, TokensOK, ExitsOK, Amounts
<1>3. /\ height \in Nat /\ cfg.unbonding_period \in Nat
      /\ height \in Heights /\ due \in Heights /\ due \in Nat
  BY <1>1, HeightType, Constants DEF IInv, ConfigOK, Heights
<1>4. /\ row \in [Heights -> Nat] /\ row[due] = claims[sender][due] + amount
      /\ \A h \in Heights \ {due} : row[h] = claims[sender][h]
      /\ out \in [Heights -> Nat] /\ out[height] = exits[sender][height] + amount
      /\ \A h \in Heights \ {height} : out[h] = exits[sender][h]
  BY <1>2, <1>3 DEF ByHeight
<1>5. ControlOK' /\ MembersOK' /\ FixedStep
  <2>1. stake'[sender] = n BY <1>1, <1>2 DEF Amounts
  <2>2. update_membership(sender, n) /\ (n >= cfg.min_bond => cfg.tokens_per_weight # 0)
    BY <2>1 DEF execute_unbond
  <2> HIDE DEF n
  <2> QED BY <1>1, <1>2, <2>2, UpdateMembership DEF IInv
<1>6. TokensOK'
  <2>1. Total(stake') = Total(stake) - stake[sender] + n /\ stake' \in Amounts
    <3> HIDE DEF n
    <3> QED BY <1>1, <1>2, StakeSum DEF Amounts
  <2>2. Total(row) = Total(claims[sender]) + amount
    <3> DEFINE m == claims[sender][due] + amount
    <3>1. claims[sender] \in [Heights -> Nat] BY <1>2 DEF ByHeight
    <3>2. m \in Nat /\ claims[sender][due] \in Nat BY <1>3, <3>1
    <3>3. row = [claims[sender] EXCEPT ![due] = m] OBVIOUS
    <3> HIDE DEF m, due, row
    <3>4. Total(row) = Total(claims[sender]) - claims[sender][due] + m
      BY <1>3, <3>1, <3>2, <3>3, RowSum
    <3>5. Total(claims[sender]) \in Nat BY <1>3, <3>1, <3>2, RowSum
    <3> QED BY <3>2, <3>4, <3>5 DEF m
  <2> HIDE DEF row, out
  <2>3. /\ claims' \in ByHeight
        /\ Total(Owed(claims')) = Total(Owed(claims)) - Total(claims[sender]) + Total(row)
    <3> HIDE DEF n, due
    <3>1. claims' \in ByHeight BY <1>1, <1>2, <1>4 DEF ByHeight
    <3>2. claims'[sender] = row /\ \A a \in Addr \ {sender} : claims'[a] = claims[a]
      BY <1>1, <1>2 DEF ByHeight
    <3> QED BY <1>2, <3>1, <3>2, OwedSum
  <2>4. held' = Total(stake') + Total([a \in Addr |-> Total(claims'[a])])
    <3>1. Total(Owed(claims')) = Total(Owed(claims)) + amount /\ Total(stake') = Total(stake) - amount
      BY <1>2, <2>1, <2>2, <2>3, Backed DEF IInv
    <3>2. held' = Total(stake') + Total(Owed(claims')) BY <1>1, <3>1, Backed DEF IInv
    <3> QED BY <3>2 DEF Owed
  <2>5. \A a \in Addr : wallet'[a] + stake'[a] + Total(claims'[a]) = Purse[a]
    <3> SUFFICES ASSUME NEW a \in Addr
        PROVE  wallet'[a] + stake'[a] + Total(claims'[a]) = Purse[a]
      OBVIOUS
    <3>1. CASE a = sender
      <4>1. claims'[a] = row /\ stake'[a] = n /\ wallet'[a] = wallet[a]
        BY <1>1, <1>2, <3>1 DEF Amounts, ByHeight
      <4> QED BY <1>2, <2>2, <3>1, <4>1, Backed DEF IInv
    <3>2. CASE a # sender
      <4>1. claims'[a] = claims[a] /\ stake'[a] = stake[a] /\ wallet'[a] = wallet[a]
        BY <1>1, <1>2, <3>2 DEF Amounts, ByHeight
      <4> QED BY <4>1, Backed DEF IInv
    <3> QED BY <3>1, <3>2
  <2> QED BY <1>1, <1>2, <2>1, <2>3, <2>4, <2>5 DEF TokensOK, StakeAndClaimsBacked
<1>7. ConfigOK' BY <1>1 DEF IInv, ConfigOK
<1>8. ExitsOK'
  <2> HIDE DEF row, out
  <2>1. exits' \in ByHeight BY <1>1, <1>2, <1>4 DEF ByHeight
  <2> SUFFICES ASSUME NEW a \in Addr, NEW h \in Heights,
                      NEW k, k = h + cfg.unbonding_period
      PROVE  /\ exits'[a][h] > 0 => h <= height /\ k <= MaxHeight
             /\ height < k /\ k <= MaxHeight => claims'[a][k] = exits'[a][h]
    BY <1>1, <2>1 DEF ExitsOK
  <2>2. /\ exits[a][h] > 0 => h <= height /\ k <= MaxHeight
        /\ height < k /\ k <= MaxHeight => claims[a][k] = exits[a][h]
    BY DEF IInv, ExitsOK
  <2>3. h \in Nat /\ k \in Nat BY <1>3 DEF Heights
  <2>4. CASE a # sender
    <3>1. claims'[a] = claims[a] /\ exits'[a] = exits[a] BY <1>1, <1>2, <2>4 DEF ByHeight
    <3> QED BY <2>2, <3>1
  <2>5. CASE a = sender
    <3>1. claims'[a] = row /\ exits'[a] = out BY <1>1, <1>2, <2>5 DEF ByHeight
    <3>2. CASE h = height
      <4>1. k = due BY <3>2
      <4> HIDE DEF due
      <4>2. h <= height /\ k <= MaxHeight BY <1>1, <1>3, <3>2, <4>1
      <4>3. row[k] = claims[a][k] + amount /\ out[h] = exits[a][h] + amount
        BY <1>4, <2>5, <3>2, <4>1
      <4> QED BY <2>2, <3>1, <4>2, <4>3
    <3>3. CASE h # height
      <4>1. k # due BY <1>3, <2>3, <3>3
      <4>2. k <= MaxHeight => k \in Heights BY <2>3, Constants DEF Heights
      <4> HIDE DEF due
      <4>3. out[h] = exits[a][h] /\ (k <= MaxHeight => row[k] = claims[a][k])
        BY <1>4, <2>5, <3>3, <4>1, <4>2
      <4> QED BY <2>2, <3>1, <4>3
    <3> QED BY <3>2, <3>3
  <2> QED BY <2>4, <2>5
<1> QED BY <1>5, <1>6, <1>7, <1>8 DEF IInv

LEMMA ClaimKeeps ==
  ASSUME IInv, NEW sender \in Addr, execute_claim(sender)
  PROVE  IInv' /\ FixedStep
<1> DEFINE row == Unclaimed(sender)
           sum == Released(sender)
           mine == claims[sender]
           D == Due(sender)
<1>1. /\ held >= sum /\ held' = held - sum
      /\ wallet' = [wallet EXCEPT ![sender] = wallet[sender] + sum]
      /\ claims' = [claims EXCEPT ![sender] = row]
      /\ UNCHANGED <<cfg, admin, hooks, mirror, members, total, stake, exits, height>>
  BY DEF execute_claim, hookVars, memberVars
<1>2. /\ stake \in Amounts /\ wallet \in Amounts /\ claims \in ByHeight
      /\ mine \in [Heights -> Nat]
  BY DEF IInv, TokensOK, ByHeight
<1>3. D \in SUBSET Heights BY DEF Due
<1>4. row \in [Heights -> Nat] /\ \A h \in Heights : row[h] = IF h \in D THEN 0 ELSE mine[h]
  BY <1>2 DEF Unclaimed
<1>5. sum \in Nat /\ Total(row) \in Nat /\ Total(mine) = sum + Total(row)
  <2> DEFINE due == [h \in D |-> mine[h]]
             rest == [h \in Heights \ D |-> mine[h]]
             gone == [h \in D |-> row[h]]
  <2>1. sum = Total(due) BY DEF Released
  <2>2. due \in [D -> Nat] /\ rest \in [Heights \ D -> Nat] /\ gone \in [D -> Nat]
    <3> HIDE DEF mine, row, D
    <3> QED BY <1>2, <1>3, <1>4
  <2>3. \A h \in D : gone[h] = 0 BY <1>3, <1>4
  <2>4. rest = [h \in Heights \ D |-> row[h]]
    <3> HIDE DEF mine, row, D
    <3> QED BY <1>4
  <2>5. IsFiniteSet(D) /\ IsFiniteSet(Heights \ D) BY <1>3, Constants, FS_Subset
  <2> HIDE DEF row, sum, mine, D
  <2>6. Total(mine) = Total(due) + Total(rest) BY <1>2, <1>3, Constants, TotalSplit, ZenonT(60)
  <2>7. Total(row) = Total(gone) + Total(rest) BY <1>3, <1>4, <2>4, Constants, TotalSplit
  <2> HIDE DEF due, rest, gone
  <2>8. Total(gone) = 0 BY <2>2, <2>3, TotalZero
  <2>9. Total(due) \in Nat /\ Total(rest) \in Nat BY <2>2, <2>5, TotalType
  <2> QED BY <2>1, <2>6, <2>7, <2>8, <2>9
<1> HIDE DEF row, sum
<1>6. /\ claims' \in ByHeight
      /\ Total(Owed(claims')) = Total(Owed(claims)) - Total(claims[sender]) + Total(row)
  <2> HIDE DEF mine, D
  <2>1. claims' \in ByHeight BY <1>1, <1>2, <1>4 DEF ByHeight
  <2>2. claims'[sender] = row /\ \A a \in Addr \ {sender} : claims'[a] = claims[a]
    BY <1>1, <1>2 DEF ByHeight
  <2> QED BY <1>2, <2>1, <2>2, OwedSum
<1>7. TokensOK'
  <2>1. held' = Total(stake') + Total([a \in Addr |-> Total(claims'[a])])
    <3>1. held' = Total(stake') + Total(Owed(claims'))
      BY <1>1, <1>5, <1>6, Backed DEF IInv
    <3> QED BY <3>1 DEF Owed
  <2>2. \A a \in Addr : wallet'[a] + stake'[a] + Total(claims'[a]) = Purse[a]
    <3> SUFFICES ASSUME NEW a \in Addr
        PROVE  wallet'[a] + stake'[a] + Total(claims'[a]) = Purse[a]
      OBVIOUS
    <3>1. CASE a = sender
      <4>1. claims'[a] = row /\ stake'[a] = stake[a] /\ wallet'[a] = wallet[a] + sum
        BY <1>1, <1>2, <3>1 DEF Amounts, ByHeight
      <4> QED BY <1>5, <3>1, <4>1, Backed DEF IInv
    <3>2. CASE a # sender
      <4>1. claims'[a] = claims[a] /\ stake'[a] = stake[a] /\ wallet'[a] = wallet[a]
        BY <1>1, <1>2, <3>2 DEF Amounts, ByHeight
      <4> QED BY <4>1, Backed DEF IInv
    <3> QED BY <3>1, <3>2
  <2>3. wallet' \in Amounts BY <1>1, <1>2, <1>5 DEF Amounts
  <2> QED BY <1>1, <1>2, <1>6, <2>1, <2>2, <2>3 DEF TokensOK, StakeAndClaimsBacked
<1>8. ExitsOK'
  <2> SUFFICES ASSUME NEW a \in Addr, NEW h \in Heights,
                      NEW k, k = h + cfg.unbonding_period
      PROVE  /\ exits[a][h] > 0 => h <= height /\ k <= MaxHeight
             /\ height < k /\ k <= MaxHeight => claims'[a][k] = exits[a][h]
    BY <1>1 DEF IInv, ExitsOK
  <2>1. /\ exits[a][h] > 0 => h <= height /\ k <= MaxHeight
        /\ height < k /\ k <= MaxHeight => claims[a][k] = exits[a][h]
    BY DEF IInv, ExitsOK
  <2>2. ASSUME height < k, k <= MaxHeight PROVE claims'[a][k] = claims[a][k]
    <3>1. h \in Nat /\ k \in Nat /\ height \in Nat
      BY HeightType DEF IInv, ConfigOK, Heights
    <3>2. k \in Heights /\ k \notin D BY <2>2, <3>1, Constants DEF Heights, Due
    <3>3. CASE a = sender BY <1>1, <1>2, <1>4, <3>2, <3>3 DEF ByHeight
    <3>4. CASE a # sender BY <1>1, <1>2, <3>4 DEF ByHeight
    <3> QED BY <3>3, <3>4
  <2> QED BY <2>1, <2>2
<1>9. ConfigOK' /\ ControlOK' /\ MembersOK' /\ FixedStep
  <2>1. ConfigOK' BY <1>1 DEF IInv, ConfigOK
  <2>2. ControlOK' BY <1>1 DEF IInv, ControlOK, SubscribersInSync, Current
  <2>3. MembersOK' BY <1>1 DEF IInv, MembersOK, TotalIsSum, calc_weight
  <2>4. FixedStep BY <1>1 DEF FixedStep
  <2> QED BY <2>1, <2>2, <2>3, <2>4
<1> QED BY <1>7, <1>8, <1>9 DEF IInv

(* The messages that only admin and hooks are about, and the end of a      *)
(* block.                                                                  *)
LEMMA ControlKeeps ==
  ASSUME IInv, ControlOK', height' \in {height, height + 1},
         UNCHANGED <<cfg, memberVars, tokenVars>>
  PROVE  IInv' /\ FixedStep
<1>1. UNCHANGED <<cfg, members, total, stake, claims, wallet, held, exits>>
  BY DEF memberVars, tokenVars
<1>2. height \in Nat /\ height' \in Nat /\ height <= height' BY HeightType DEF IInv
<1>3. ConfigOK' BY <1>1 DEF IInv, ConfigOK
<1>4. MembersOK'
  <2>1. \A item : Item(item, height, MaybeWeight) => Item(item, height', MaybeWeight)
    BY <1>2 DEF Item
  <2> QED BY <1>1, <2>1 DEF IInv, MembersOK, TotalIsSum, calc_weight
<1>5. TokensOK' BY <1>1 DEF IInv, TokensOK, StakeAndClaimsBacked
<1>6. ExitsOK'
  <2> SUFFICES ASSUME NEW a \in Addr, NEW h \in Heights,
                      NEW k, k = h + cfg.unbonding_period
      PROVE  /\ exits[a][h] > 0 => h <= height' /\ k <= MaxHeight
             /\ height' < k /\ k <= MaxHeight => claims[a][k] = exits[a][h]
    BY <1>1 DEF IInv, ExitsOK
  <2>1. /\ exits[a][h] > 0 => h <= height /\ k <= MaxHeight
        /\ height < k /\ k <= MaxHeight => claims[a][k] = exits[a][h]
    BY DEF IInv, ExitsOK
  <2>2. h \in Nat /\ k \in Nat BY DEF IInv, ConfigOK, Heights
  <2> QED BY <1>2, <2>1, <2>2
<1>7. FixedStep BY <1>1 DEF FixedStep
<1> QED BY <1>3, <1>4, <1>5, <1>6, <1>7 DEF IInv

LEMMA NextIInv == IInv /\ [Next]_vars => IInv' /\ [FixedStep]_vars
<1> SUFFICES ASSUME IInv, [Next]_vars PROVE IInv' /\ [FixedStep]_vars OBVIOUS
<1>1. \A a \in Addr : 1..Purse[a] \subseteq Nat /\ 0..Purse[a] \subseteq Nat BY Constants
<1>2. ASSUME NEW sender \in Addr, NEW amount \in 1..Purse[sender], bond_native(sender, amount)
      PROVE  IInv' /\ FixedStep
  BY <1>1, <1>2, BondKeeps DEF bond_native
<1>3. ASSUME NEW sender \in Addr, NEW amount \in 0..Purse[sender], execute_receive(sender, amount)
      PROVE  IInv' /\ FixedStep
  BY <1>1, <1>3, BondKeeps DEF execute_receive
<1>4. ASSUME NEW sender \in Addr, NEW amount \in 0..Purse[sender], execute_unbond(sender, amount)
      PROVE  IInv' /\ FixedStep
  BY <1>1, <1>4, UnbondKeeps
<1>5. ASSUME NEW sender \in Addr, execute_claim(sender) PROVE IInv' /\ FixedStep
  BY <1>5, ClaimKeeps
<1>6. ASSUME NEW sender \in Addr, NEW new_admin \in Admins,
             execute_update_admin(sender, new_admin)
      PROVE  IInv' /\ FixedStep
  <2>1. /\ admin' = new_admin /\ UNCHANGED <<hooks, mirror, height>>
        /\ UNCHANGED <<cfg, memberVars, tokenVars>>
    BY <1>6 DEF execute_update_admin, Control!execute_update_admin, memberVars
  <2>2. ControlOK'
    BY <2>1, StakeAssumption DEF IInv, ControlOK, SubscribersInSync, Current, memberVars
  <2> QED BY <2>1, <2>2, ControlKeeps
<1>7. ASSUME NEW sender \in Addr, NEW s \in Subscribers, execute_add_hook(sender, s)
      PROVE  IInv' /\ FixedStep
  <2>1. /\ hooks' = hooks \cup {s} /\ s \notin hooks
        /\ mirror' = [t \in hooks \cup {s} |-> IF t = s THEN Current ELSE mirror[t]]
        /\ UNCHANGED <<admin, height, cfg, memberVars, tokenVars>>
    BY <1>7 DEF execute_add_hook, Control!execute_add_hook, Control!Current, Current, memberVars
  <2>2. Current \in [Addr -> MaybeWeight] /\ Current' = Current
    BY <2>1 DEF IInv, MembersOK, Item, Current, memberVars
  <2>3. \A t \in hooks' : mirror'[t] = Current'
    BY <2>1, <2>2 DEF IInv, ControlOK, SubscribersInSync
  <2>4. ControlOK' BY <2>1, <2>2, <2>3 DEF IInv, ControlOK, SubscribersInSync
  <2> QED BY <2>1, <2>4, ControlKeeps
<1>8. ASSUME NEW sender \in Addr, NEW s \in Subscribers, execute_remove_hook(sender, s)
      PROVE  IInv' /\ FixedStep
  <2>1. /\ hooks' = hooks \ {s} /\ mirror' = [t \in hooks \ {s} |-> mirror[t]]
        /\ UNCHANGED <<admin, height, cfg, memberVars, tokenVars>>
    BY <1>8 DEF execute_remove_hook, Control!execute_remove_hook, Control!Restrict, memberVars
  <2>2. Current' = Current BY <2>1 DEF Current, memberVars
  <2>3. ControlOK' BY <2>1, <2>2 DEF IInv, ControlOK, SubscribersInSync
  <2> QED BY <2>1, <2>3, ControlKeeps
<1>9. CASE NextBlock
  <2>1. /\ height < MaxHeight /\ height' = height + 1
        /\ UNCHANGED <<cfg, admin, hooks, mirror, memberVars, tokenVars>>
    BY <1>9 DEF NextBlock, hookVars
  <2>2. height' \in Heights BY <2>1, HeightType, Constants DEF IInv, Heights
  <2>3. ControlOK'
    BY <2>1, <2>2 DEF IInv, ControlOK, SubscribersInSync, Current, memberVars
  <2> QED BY <2>1, <2>3, ControlKeeps
<1>10. CASE UNCHANGED vars
  <2>1. UNCHANGED <<cfg, admin, hooks, mirror, height, memberVars, tokenVars>>
    BY <1>10 DEF vars, hookVars
  <2>2. ControlOK' BY <2>1 DEF IInv, ControlOK, SubscribersInSync, Current, memberVars
  <2> QED BY <2>1, <2>2, ControlKeeps
<1> QED BY <1>2, <1>3, <1>4, <1>5, <1>6, <1>7, <1>8, <1>9, <1>10 DEF Next

(* In the beginning nothing is staked or claimed and there are no members. *)
LEMMA InitIInv == Init => IInv
<1> SUFFICES ASSUME Init PROVE IInv OBVIOUS
<1>1. PICK d \in Denoms, t \in TokensPerWeights, m \in MinBonds, p \in Periods, o \in Admins :
        instantiate(d, t, m, p, o)
  BY DEF Init
<1>2. /\ hooks = {} /\ mirror = <<>> /\ height = 0 /\ held = 0 /\ exits = claims
      /\ members = [a \in Addr |-> Fresh(None)]
      /\ stake = [a \in Addr |-> 0] /\ wallet = Purse
      /\ claims = [a \in Addr |-> [h \in Heights |-> 0]]
  BY DEF Init
<1>3. t \in Nat /\ m \in Nat /\ p \in Nat /\ o \in Addr \cup {None} BY StakeAssumption
<1>4. ConfigOK BY <1>1, <1>3 DEF instantiate, ConfigOK
<1>5. \A a \in Addr : stake[a] < cfg.min_bond /\ calc_weight(stake[a]) = None
  BY <1>2, <1>4 DEF calc_weight, ConfigOK
<1>6. ControlOK
  <2>1. 0 \in Heights BY Constants DEF Heights
  <2>2. <<>> \in [{} -> [Addr -> MaybeWeight]] OBVIOUS
  <2>3. admin \in Addr \cup {None} BY <1>1, <1>3 DEF instantiate
  <2> QED BY <1>2, <2>1, <2>2, <2>3 DEF ControlOK, SubscribersInSync
<1>7. MembersOK
  <2>1. Item(Fresh(None), 0, MaybeWeight) /\ Fresh(None).now = None
    <3>1. 0 \in Nat BY Constants
    <3> QED BY <3>1, WeightType, FreshItem DEF Fresh
  <2>2. total = 0 /\ 0 \in 0..MaxU64 BY <1>1, Constants DEF instantiate
  <2>3. Total([a \in Addr |-> WeightOf(members[a].now)]) = 0
    <3> DEFINE w == [a \in Addr |-> WeightOf(members[a].now)]
    <3>1. \A a \in Addr : w[a] = 0 BY <1>2, <2>1, WeightType
    <3>2. w \in [Addr -> Nat] BY <3>1
    <3> HIDE DEF w
    <3>3. Total(w) = 0 BY <3>1, <3>2, TotalZero
    <3> QED BY <3>3 DEF w
  <2>4. \A a \in Addr : stake[a] >= cfg.min_bond => cfg.tokens_per_weight # 0
    BY <1>2, <1>4 DEF ConfigOK
  <2> QED BY <1>2, <1>5, <2>1, <2>2, <2>3, <2>4 DEF MembersOK, TotalIsSum
<1>8. TokensOK
  <2>1. stake \in Amounts /\ wallet \in Amounts /\ claims \in ByHeight
    BY <1>2, Constants DEF Amounts, ByHeight
  <2>2. \A a \in Addr : Total(claims[a]) = 0
    <3> SUFFICES ASSUME NEW a \in Addr PROVE Total(claims[a]) = 0 OBVIOUS
    <3>1. claims[a] \in [Heights -> Nat] /\ \A h \in Heights : claims[a][h] = 0
      BY <1>2
    <3> QED BY <3>1, TotalZero
  <2>3. Total(stake) = 0
    <3>1. stake \in [Addr -> Nat] /\ \A a \in Addr : stake[a] = 0 BY <1>2
    <3> QED BY <3>1, TotalZero
  <2>4. Total(Owed(claims)) = 0
    <3>1. Owed(claims) \in [Addr -> Nat] /\ \A a \in Addr : Owed(claims)[a] = 0
      BY <2>1, <2>2, OwedType DEF Amounts
    <3> QED BY <3>1, TotalZero
  <2>5. \A a \in Addr : wallet[a] + stake[a] + Total(claims[a]) = Purse[a]
    BY <1>2, <2>2, Constants
  <2> QED BY <1>2, <2>1, <2>3, <2>4, <2>5 DEF TokensOK, StakeAndClaimsBacked, Owed
<1>9. ExitsOK
  <2>1. exits \in ByHeight BY <1>2, <1>8 DEF TokensOK
  <2>2. \A a \in Addr, h \in Heights : exits[a][h] = 0 /\ claims[a][h] = 0 BY <1>2
  <2>3. ASSUME NEW k, height < k, k <= MaxHeight, NEW h \in Heights,
               k = h + cfg.unbonding_period
        PROVE  k \in Heights
    BY <1>2, <1>4, <2>3, Constants DEF ConfigOK, Heights
  <2> QED BY <2>1, <2>2, <2>3 DEF ExitsOK
<1> QED BY <1>4, <1>6, <1>7, <1>8, <1>9 DEF IInv

-----------------------------------------------------------------------------
(* The invariant holds whatever is bonded, unbonded and claimed, and when. *)
THEOREM Invariance == Spec => []IInv
BY InitIInv, NextIInv, PTL DEF Spec

(* No stake, claim or wallet is ever negative, and the total fits a u64.   *)
THEOREM TypeCorrect == Spec => []TypeOK
<1>1. IInv => TypeOK
  <2> SUFFICES ASSUME IInv PROVE TypeOK OBVIOUS
  <2>1. stake \in [Addr -> Nat] /\ wallet \in [Addr -> Nat]
    BY DEF IInv, TokensOK, Amounts
  <2>2. claims \in [Addr -> [Heights -> Nat]] BY DEF IInv, TokensOK, ByHeight
  <2>3. Current \in [Addr -> 0..MaxU64 \cup {None}]
    BY DEF IInv, MembersOK, Item, Current, MaybeWeight
  <2> QED BY <2>1, <2>2, <2>3, Backed DEF IInv, ControlOK, MembersOK, TypeOK
<1> QED BY <1>1, Invariance, PTL

(* What the contract holds covers all stakes and claims.                   *)
THEOREM BackedTheorem == Spec => []StakeAndClaimsBacked
<1>1. IInv => StakeAndClaimsBacked BY DEF IInv, TokensOK
<1> QED BY <1>1, Invariance, PTL

(* Tokens that have been unbonded for less than a period are still claims. *)
THEOREM FrozenTheorem == Spec => []FrozenWhileUnbonding
<1>1. IInv => FrozenWhileUnbonding
  <2> SUFFICES ASSUME IInv, NEW a \in Addr
      PROVE  wallet[a] + stake[a]
               + Total([h \in {h \in Heights : h <= height /\ h + cfg.unbonding_period > height}
                          |-> exits[a][h]]) <= Purse[a]
    BY DEF FrozenWhileUnbonding
  <2> DEFINE P == cfg.unbonding_period
             R == {h \in Heights : h <= height /\ h + P > height}
             f == [h \in R |-> exits[a][h]]
             K == {h \in R : h + P <= MaxHeight}
             g == [h \in K |-> f[h]]
             z == [h \in R \ K |-> f[h]]
             c == claims[a]
             m == [h \in K |-> h + P]
  <2>1. exits[a] \in [Heights -> Nat] /\ c \in [Heights -> Nat] /\ P \in Nat
    BY DEF IInv, ExitsOK, TokensOK, ConfigOK, ByHeight
  <2>2. /\ \A h \in R : f[h] > 0 => h + P <= MaxHeight
        /\ \A h \in K : c[h + P] = f[h]
    BY DEF IInv, ExitsOK
  <2>3. f \in [R -> Nat] /\ K \in SUBSET R /\ R \in SUBSET Heights BY <2>1
  <2>4. Total(f) = Total(g) + Total(z)
    <3>1. IsFiniteSet(R) BY <2>3, Constants, FS_Subset
    <3> HIDE DEF R, f, K
    <3> QED BY <2>3, <3>1, TotalSplit
  <2>5. \A h \in K : h \in Nat /\ h + P \in Heights BY <2>1, Constants DEF Heights
  <2>6. \A h \in R \ K : f[h] = 0
    <3> SUFFICES ASSUME NEW h \in R \ K PROVE f[h] = 0 OBVIOUS
    <3>1. ~ (h + P <= MaxHeight) OBVIOUS
    <3>2. f[h] \in Nat BY <2>3
    <3> HIDE DEF f, R, K
    <3> QED BY <2>2, <3>1, <3>2
  <2> HIDE DEF P, R, f, K, c
  <2>7. Total(z) = 0
    <3>1. z \in [R \ K -> Nat] /\ \A h \in R \ K : z[h] = 0 BY <2>3, <2>6
    <3> HIDE DEF z
    <3> QED BY <3>1, TotalZero
  <2>8. Total(g) <= Total(c)
    <3>1. g \in [K -> Nat] /\ m \in [K -> Heights] BY <2>3, <2>5
    <3>2. \A h \in K : g[h] <= c[m[h]]
      <4> SUFFICES ASSUME NEW h \in K PROVE g[h] <= c[m[h]] OBVIOUS
      <4>1. g[h] = f[h] /\ m[h] = h + P /\ f[h] \in Nat BY <2>3
      <4> QED BY <2>2, <4>1
    <3>3. \A x, y \in K : m[x] = m[y] => x = y BY <2>1, <2>5
    <3> HIDE DEF g, m
    <3> QED BY <2>1, <3>1, <3>2, <3>3, Constants, TotalEmbedding
  <2>9. Total(g) \in Nat
    <3>1. IsFiniteSet(K) BY <2>3, Constants, FS_Subset
    <3>2. g \in [K -> Nat] BY <2>3
    <3> HIDE DEF g
    <3> QED BY <3>1, <3>2, TotalType
  <2>10. Total(f) <= Total(c) /\ Total(f) \in Nat
    <3> HIDE DEF g, z
    <3>1. Total(c) \in Nat BY <2>1, Constants, TotalType
    <3> QED BY <2>4, <2>7, <2>8, <2>9, <3>1
  <2>11. wallet[a] + stake[a] + Total(f) <= Purse[a] BY <2>10, Backed, Constants DEF IInv, c
  <2> QED BY <2>11 DEF f, R, P
<1> QED BY <1>1, Invariance, PTL

(* The members are those with min_bond, at the rounded weights unless these *)
(* are truncated; total and subscribers follow the weights in any case.    *)
THEOREM MembersTheorem == Spec => []MembersFollowStake
<1>1. IInv => MembersFollowStake
  <2> SUFFICES ASSUME IInv PROVE MembersFollowStake OBVIOUS
  <2>1. ASSUME NEW a \in Addr
        PROVE  /\ members[a].now = None <=> stake[a] < cfg.min_bond
               /\ members[a].now # None /\ stake[a] \div cfg.tokens_per_weight <= MaxU64
                    => members[a].now = stake[a] \div cfg.tokens_per_weight
    <3>1. members[a].now = calc_weight(stake[a]) BY DEF IInv, MembersOK
    <3>2. CASE stake[a] < cfg.min_bond BY <3>1, <3>2 DEF calc_weight
    <3>3. CASE ~ (stake[a] < cfg.min_bond)
      <4> DEFINE q == stake[a] \div cfg.tokens_per_weight
      <4>1. stake[a] \in Nat /\ stake[a] <= Purse[a]
        BY Backed DEF IInv
      <4>2. cfg.tokens_per_weight \in Nat \ {0}
        BY <3>3, <4>1 DEF IInv, MembersOK, ConfigOK
      <4>3. q \in Nat /\ q <= stake[a] BY <4>1, <4>2, Quotient
      <4> HIDE DEF q
      <4>4. members[a].now = q % (MaxU64 + 1) BY <3>1, <3>3 DEF calc_weight, q
      <4>5. q % (MaxU64 + 1) \in Nat BY <4>3, Constants
      <4>6. q <= MaxU64 => q % (MaxU64 + 1) = q BY <4>3, Constants, Remainder
      <4>7. None \notin Nat BY Constants
      <4> QED BY <3>3, <4>4, <4>5, <4>6, <4>7 DEF q
    <3> QED BY <3>2, <3>3
  <2>2. WeightsFollowStake BY <2>1 DEF WeightsFollowStake
  <2> QED BY <2>2 DEF IInv, MembersOK, ControlOK, MembersFollowStake
<1> QED BY <1>1, Invariance, PTL

(* Membership at a block that has begun is fixed.                          *)
THEOREM HistoryTheorem == Spec => HistoryIsFixed
BY Invariance, NextIInv, PTL DEF Spec, HistoryIsFixed
-----------------------------------------------------------------------------
(* The refinement of the abstract electorate: NextBlock starts a block, a  *)
(* change of membership edits, and whatever else happens is a stutter.     *)
LEMMA PastIsPastOf == Past = PastOf(Addr, members, height)
BY DEF Past, PastOf, query_member

LEMMA CurrentType == IInv => Current \in [Addr -> MaybeWeight]
BY DEF IInv, MembersOK, Item, Current

LEMMA InitRefines == Init => EL!Init
<1> SUFFICES ASSUME Init PROVE EL!Init OBVIOUS
<1>1. members = [a \in Addr |-> Fresh(None)] /\ height = 0 BY DEF Init
<1>2. AtHeight(Fresh(None), 0) = None
  <2>1. 0 \in Nat BY Constants
  <2> QED BY <2>1, WeightType, FreshItem
<1>3. Past = <<[a \in Addr |-> None]>>
  <2>1. height + 1 = 1 /\ \A b \in 1..1 : b - 1 = 0 BY <1>1
  <2>2. Past = [b \in 1..1 |-> [a \in Addr |-> None]] BY <1>1, <1>2, <2>1 DEF Past, query_member
  <2> QED BY <2>2
<1>4. Current \in [Addr -> 0..MaxU64 \cup {None}] BY InitIInv, CurrentType DEF MaybeWeight
<1> QED BY <1>3, <1>4 DEF EL!Init, EL!Memberships, EL!Nobody

LEMMA StepRefines == IInv /\ IInv' /\ [Next]_vars => [EL!Next]_<<Current, Past>>
<1> SUFFICES ASSUME IInv, IInv', [Next]_vars PROVE [EL!Next]_<<Current, Past>> OBVIOUS
<1>1. height \in Nat BY HeightType DEF IInv
<1>2. CASE NextBlock
  <2>1. height' = height + 1 /\ members' = members BY <1>2 DEF NextBlock, memberVars
  <2>2. Items(Addr, members, height, MaybeWeight, Current)
    <3>1. Current \in [Addr -> MaybeWeight] BY CurrentType
    <3> QED BY <3>1 DEF IInv, MembersOK, Current, Items
  <2>3. PastOf(Addr, members, height') = Append(PastOf(Addr, members, height), Current)
    BY <1>1, <2>1, <2>2, NextPast
  <2>4. Past' = PastOf(Addr, members', height') BY DEF Past, PastOf, query_member
  <2>5. Past' = Append(Past, Current) BY <2>1, <2>3, <2>4, PastIsPastOf
  <2> QED BY <2>1, <2>5 DEF EL!Next, EL!NextBlock, Current
<1>3. CASE height' = height
  <2>1. [FixedStep]_vars BY NextIInv
  <2>2. \A a \in Addr, h \in 0..height : AtHeight(members'[a], h) = AtHeight(members[a], h)
    BY <2>1 DEF FixedStep, vars, memberVars
  <2>3. Past' = Past
    <3>1. \A b \in 1..height + 1 : b - 1 \in 0..height BY <1>1
    <3> QED BY <1>3, <2>2, <3>1 DEF Past, query_member
  <2>4. Current' \in [Addr -> 0..MaxU64 \cup {None}]
    BY DEF IInv, MembersOK, Item, Current, MaybeWeight
  <2> QED BY <2>3, <2>4 DEF EL!Next, EL!Edit, EL!Memberships
<1>4. NextBlock \/ height' = height
  BY DEF Next, bond_native, execute_receive, execute_bond, execute_unbond, execute_claim,
         execute_update_admin, execute_add_hook, execute_remove_hook, vars,
         Control!execute_update_admin, Control!execute_add_hook, Control!execute_remove_hook
<1> QED BY <1>2, <1>3, <1>4

(* Whatever is bonded, unbonded and claimed, and however often in a block, *)
(* the members can be read as they were at the start of every block.       *)
THEOREM Refinement == Spec => ImplementsElectorate
BY Invariance, InitRefines, StepRefines, PTL DEF Spec, ImplementsElectorate, EL!Spec
=============================================================================
