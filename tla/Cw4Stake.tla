------------------------------ MODULE Cw4Stake ------------------------------
(***************************************************************************)
(* contracts/cw4-stake: a group whose members are those who have bonded    *)
(* enough tokens, with a weight in proportion.  Unbonded tokens are frozen *)
(* as claims for a period.  u64 additions panic on overflow and revert the *)
(* transaction; the cast of calc_weight to u64 truncates.                  *)
(*                                                                         *)
(* Admin and hooks are those of cw-controllers, as in cw4-group.  Claims   *)
(* of one account that mature together are kept as one amount.             *)
(***************************************************************************)
EXTENDS Snapshot, Sums, Integers

CONSTANTS Addr,              \* the accounts
          Subscribers,       \* the contracts that may be registered as hooks
          Admins,            \* admins that may be set; None is one that is gone
          Denoms,            \* kinds of token to stake: "native", "cw20"
          TokensPerWeights,  \* values of tokens_per_weight
          MinBonds,          \* values of min_bond
          Periods,           \* values of unbonding_period, in blocks
          Purse,             \* the tokens each account starts with
          None,              \* not a member, or no admin
          MaxU64,            \* the largest u64
          MaxHeight          \* bound on the block height

ASSUME StakeAssumption ==
  /\ IsFiniteSet(Addr) /\ None \notin Nat /\ Admins \subseteq Addr \cup {None}
  /\ TokensPerWeights \cup MinBonds \cup Periods \cup {MaxU64, MaxHeight} \subseteq Nat
  /\ Purse \in [Addr -> Nat]
  /\ Denoms \subseteq {"native", "cw20"}

VARIABLES cfg,                   \* CONFIG
          admin, hooks, mirror,  \* ADMIN, HOOKS and what subscribers know
          members, total,        \* MEMBERS, a snapshot for each account; TOTAL
          stake,                 \* STAKE
          claims,                \* CLAIMS: amount of an account by release height
          wallet, held,          \* tokens of the accounts and of the contract
          height,                \* env.block.height
          exits                  \* amount unbonded by account and height (history)

hookVars == <<admin, hooks, mirror>>
memberVars == <<members, total>>
tokenVars == <<stake, claims, wallet, held, exits>>
vars == <<cfg, hookVars, memberVars, tokenVars, height>>

Heights == 0..MaxHeight
WeightOf(w) == IF w = None THEN 0 ELSE w
Current == [a \in Addr |-> members[a].now]

(* Mutant of query_member: the value at the end of the block is read. *)
end_of_block(a, at_height) == AtHeight(members[a], at_height + 1)

query_member(a, at_height) == AtHeight(members[a], at_height)

Control == INSTANCE Cw4Group WITH MemberLists <- {}, RemoveLists <- {}

(* min_bond is at least 1. *)
instantiate(denom, tokens_per_weight, min_bond, period, owner) ==
  /\ cfg = [denom |-> denom, tokens_per_weight |-> tokens_per_weight,
            min_bond |-> IF min_bond >= 1 THEN min_bond ELSE 1, unbonding_period |-> period]
  /\ admin = owner
  /\ total = 0

Init ==
  /\ \E d \in Denoms, t \in TokensPerWeights, m \in MinBonds, p \in Periods, o \in Admins :
       instantiate(d, t, m, p, o)
  /\ hooks = {} /\ mirror = <<>>
  /\ members = [a \in Addr |-> Fresh(None)]
  /\ stake = [a \in Addr |-> 0]
  /\ claims = [a \in Addr |-> [h \in Heights |-> 0]]
  /\ wallet = Purse /\ held = 0
  /\ height = 0
  /\ exits = claims

-----------------------------------------------------------------------------
(* Mutant of calc_weight: min_bond itself is not enough. *)
above_min_bond(amount) ==
  IF amount <= cfg.min_bond THEN None
  ELSE (amount \div cfg.tokens_per_weight) % (MaxU64 + 1)

calc_weight(amount) ==
  IF amount < cfg.min_bond THEN None
  ELSE (amount \div cfg.tokens_per_weight) % (MaxU64 + 1)

(* Neither a division by zero nor total + new beyond a u64, although the   *)
(* old weight is subtracted right after.                                   *)
WeightFits(new_stake) ==
  /\ new_stake >= cfg.min_bond => cfg.tokens_per_weight # 0
  /\ total + WeightOf(calc_weight(new_stake)) <= MaxU64

(* Mutant of NewTotal: the old weight stays in. *)
old_weight_kept(sender, new) == total + WeightOf(new)

NewTotal(sender, new) == total + WeightOf(new) - WeightOf(members[sender].now)

(* Mutant of Diff: who leaves is reported with weight 0. *)
zero_when_gone(new) == WeightOf(new)

(* The new weight in the one MemberDiff that the hooks are sent. *)
Diff(new) == new

(* Mutant of Save: nothing is logged. *)
save_now(item, value) == [item EXCEPT !.now = value]

(* MEMBERS is a snapshot of every block; TOTAL is not. *)
Save(item, value) == Write(item, height, value)

update_membership(sender, new_stake) ==
  LET new == calc_weight(new_stake) IN
  IF new = members[sender].now THEN UNCHANGED <<members, total, mirror>>
  ELSE /\ WeightFits(new_stake)
       /\ members' = [members EXCEPT ![sender] = Save(@, new)]
       /\ total' = NewTotal(sender, new)
       /\ mirror' = [s \in hooks |-> [mirror[s] EXCEPT ![sender] = Diff(new)]]

execute_bond(sender, amount) ==
  /\ wallet[sender] >= amount
  /\ wallet' = [wallet EXCEPT ![sender] = @ - amount]
  /\ held' = held + amount
  /\ stake' = [stake EXCEPT ![sender] = @ + amount]
  /\ stake'[sender] >= cfg.min_bond => cfg.tokens_per_weight # 0
  /\ update_membership(sender, stake'[sender])
  /\ UNCHANGED <<cfg, admin, hooks, claims, exits, height>>

(* The coins that come with the message: a bank never sends zero coins.    *)
bond_native(sender, amount) ==
  cfg.denom = "native" /\ amount > 0 /\ execute_bond(sender, amount)

(* Called by the cw20 contract, which has moved the tokens by then.        *)
execute_receive(sender, amount) ==
  cfg.denom = "cw20" /\ execute_bond(sender, amount)

(* Mutant of CanUnbond: the stake is not checked. *)
any_amount(sender, amount) == height + cfg.unbonding_period <= MaxHeight

CanUnbond(sender, amount) ==
  /\ height + cfg.unbonding_period <= MaxHeight
  /\ stake[sender] >= amount

(* Mutant of ReleaseHeight: the claim is due in the block it is made. *)
released_at_once == height

ReleaseHeight == height + cfg.unbonding_period

execute_unbond(sender, amount) ==
  /\ CanUnbond(sender, amount)
  /\ stake' = [stake EXCEPT ![sender] = @ - amount]
  /\ claims' = [claims EXCEPT ![sender][ReleaseHeight] = @ + amount]
  /\ exits' = [exits EXCEPT ![sender][height] = @ + amount]
  /\ stake'[sender] >= cfg.min_bond => cfg.tokens_per_weight # 0
  /\ update_membership(sender, stake'[sender])
  /\ UNCHANGED <<cfg, admin, hooks, wallet, held, height>>

(* The release heights that have come. *)
Due(sender) == {h \in Heights : h <= height}

Released(sender) == Total([h \in Due(sender) |-> claims[sender][h]])

Unclaimed(sender) == [h \in Heights |-> IF h \in Due(sender) THEN 0 ELSE claims[sender][h]]

execute_claim(sender) ==
  /\ Released(sender) > 0
  /\ held >= Released(sender)
  /\ held' = held - Released(sender)
  /\ wallet' = [wallet EXCEPT ![sender] = @ + Released(sender)]
  /\ claims' = [claims EXCEPT ![sender] = Unclaimed(sender)]
  /\ UNCHANGED <<cfg, hookVars, memberVars, stake, exits, height>>

execute_update_admin(sender, new_admin) ==
  /\ Control!execute_update_admin(sender, new_admin)
  /\ UNCHANGED <<cfg, tokenVars>>

execute_add_hook(sender, s) ==
  /\ Control!execute_add_hook(sender, s)
  /\ UNCHANGED <<cfg, tokenVars>>

execute_remove_hook(sender, s) ==
  /\ Control!execute_remove_hook(sender, s)
  /\ UNCHANGED <<cfg, tokenVars>>

NextBlock ==
  /\ height < MaxHeight
  /\ height' = height + 1
  /\ UNCHANGED <<cfg, hookVars, memberVars, tokenVars>>

Next ==
  \/ \E sender \in Addr : \E amount \in 1..Purse[sender] : bond_native(sender, amount)
  \/ \E sender \in Addr : \E amount \in 0..Purse[sender] : execute_receive(sender, amount)
  \/ \E sender \in Addr : \E amount \in 0..Purse[sender] : execute_unbond(sender, amount)
  \/ \E sender \in Addr : execute_claim(sender)
  \/ \E sender \in Addr, new_admin \in Admins : execute_update_admin(sender, new_admin)
  \/ \E sender \in Addr, s \in Subscribers : execute_add_hook(sender, s)
  \/ \E sender \in Addr, s \in Subscribers : execute_remove_hook(sender, s)
  \/ NextBlock

Spec == Init /\ [][Next]_vars

-----------------------------------------------------------------------------
(* Type invariant: no amount is negative, weights and the total fit a u64. *)
TypeOK ==
  /\ stake \in [Addr -> Nat] /\ wallet \in [Addr -> Nat] /\ held \in Nat
  /\ claims \in [Addr -> [Heights -> Nat]]
  /\ admin \in Addr \cup {None} /\ hooks \subseteq Subscribers
  /\ Current \in [Addr -> 0..MaxU64 \cup {None}]
  /\ total \in 0..MaxU64 /\ height \in Heights

(* Stake, claims and wallet of an account are its tokens, moved between    *)
(* three records by three messages; what the contract holds covers all     *)
(* stakes and claims, so no claim can fail for lack of funds.              *)
StakeAndClaimsBacked ==
  /\ held = Total(stake) + Total([a \in Addr |-> Total(claims[a])])
  /\ \A a \in Addr : wallet[a] + stake[a] + Total(claims[a]) = Purse[a]

(* "Only after the period can you get your tokens back": tokens unbonded   *)
(* less than a period ago are neither in the wallet nor bonded again.      *)
FrozenWhileUnbonding ==
  \A a \in Addr :
    wallet[a] + stake[a]
      + Total([h \in {h \in Heights : h <= height /\ h + cfg.unbonding_period > height}
                 |-> exits[a][h]]) <= Purse[a]

(* The members are those who have min_bond, and their weights the funds    *)
(* divided by tokens_per_weight, rounded down, where that fits a u64.      *)
WeightsFollowStake ==
  \A a \in Addr :
    /\ members[a].now = None <=> stake[a] < cfg.min_bond
    /\ members[a].now # None /\ stake[a] \div cfg.tokens_per_weight <= MaxU64
         => members[a].now = stake[a] \div cfg.tokens_per_weight

(* TOTAL, only ever adjusted by differences, is the sum of the weights,    *)
(* also when weights are truncated.                                        *)
TotalIsSum == total = Total([a \in Addr |-> WeightOf(members[a].now)])

(* A subscriber that applies the diffs knows the members and their weights,*)
(* although no diff is sent when a change of stake leaves a weight alone.  *)
SubscribersInSync == \A s \in hooks : mirror[s] = Current

(* The three records of who weighs what agree with the stakes: the members *)
(* that are queried, the total that multisigs read, and the copies of      *)
(* those who are sent the diffs.                                           *)
MembersFollowStake == WeightsFollowStake /\ TotalIsSum /\ SubscribersInSync

(* What queries answer for a block that has begun never changes, with      *)
(* several bonds and unbonds of one account in one block.                  *)
FixedStep == \A h \in 0..height, a \in Addr : AtHeight(members'[a], h) = AtHeight(members[a], h)
HistoryIsFixed == [][FixedStep]_vars

(* With its changelogs it implements the same electorate as cw4-group: a   *)
(* multisig may take either for its voters.                                *)
Past == [b \in 1..height + 1 |-> [a \in Addr |-> query_member(a, b - 1)]]
EL == INSTANCE Electorate WITH current <- Current, past <- Past, Weights <- 0..MaxU64
ImplementsElectorate == EL!Spec
=============================================================================
