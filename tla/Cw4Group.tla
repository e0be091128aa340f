------------------------------ MODULE Cw4Group ------------------------------
(***************************************************************************)
(* contracts/cw4-group: a group of weighted members that one admin edits,  *)
(* readable as it was at the start of any block, with hooks that tell      *)
(* other contracts what changed.  Addresses are numbered in their sort     *)
(* order.  The registered contracts are called in the transaction of the   *)
(* update; a subscriber is modelled as a copy of the group that is taken   *)
(* when its hook is added and then maintained from the diffs alone.        *)
(***************************************************************************)
EXTENDS Snapshot, Sums, Sequences, Functions, Listing

CONSTANTS Addr,          \* the accounts
          Subscribers,   \* the contracts that may be registered as hooks
          MemberLists,   \* lists of members used in instantiate and updates
          RemoveLists,   \* lists of addresses to remove
          Admins,        \* admins that may be set; None is one that is gone
          None,          \* not a member, or no admin
          MaxU64,        \* the largest u64
          MaxHeight      \* bound on the block height

ASSUME GroupAssumption ==
  /\ Addr \subseteq Nat \ {0} /\ IsFiniteSet(Addr)
  /\ None \notin Nat /\ MaxU64 \in Nat /\ MaxHeight \in Nat
  /\ \A list \in MemberLists : list \in Seq([addr: Addr, weight: 0..MaxU64])
  /\ \A list \in RemoveLists : list \in Seq(Addr)
  /\ Admins \subseteq Addr \cup {None}

VARIABLES admin,     \* ADMIN
          members,   \* MEMBERS: a snapshot of each account's weight or None
          total,     \* TOTAL: a snapshot of the sum
          hooks,     \* HOOKS
          mirror,    \* mirror[s]: what subscriber s makes of the diffs
          height     \* env.block.height

groupVars == <<admin, members, total, hooks, mirror, height>>

Weights == 0..MaxU64
Maybe(S) == S \cup {None}
WeightOf(w) == IF w = None THEN 0 ELSE w

Current == [a \in Addr |-> members[a].now]

(* Mutant of query_member: the value at the end of the block is read. *)
end_of_block(a, at_height) == AtHeight(members[a], at_height + 1)

query_member(a, at_height) == AtHeight(members[a], at_height)
query_total_weight(at_height) == WeightOf(AtHeight(total, at_height))
list_members(weights, start_after, limit) ==
  Page({a \in Addr : weights[a] # None}, start_after, limit)

-----------------------------------------------------------------------------
(* validate_unique_members sorts the list by address, so two entries for   *)
(* one address end up next to each other, and are refused.                 *)
validate_unique_members(list) ==
  \A i, j \in 1..Len(list) : list[i].addr = list[j].addr => i = j

(* A list of unique members as a map. *)
AsMap(list) ==
  [a \in {list[i].addr : i \in 1..Len(list)} |->
     list[CHOOSE i \in 1..Len(list) : list[i].addr = a].weight]

SumOver(f, S) == Total([a \in S |-> WeightOf(f[a])])

(* Mutant of Save: nothing is logged. *)
save_now(item, value) == [item EXCEPT !.now = value]

(* MEMBERS and TOTAL are snapshots of every block.                         *)
Save(item, value) == Write(item, height, value)

create(list, owner) ==
  /\ validate_unique_members(list)
  /\ SumOver(AsMap(list), DOMAIN AsMap(list)) <= MaxU64
  /\ admin = owner
  /\ members = [a \in Addr |->
       IF a \in DOMAIN AsMap(list) THEN Save(Fresh(None), AsMap(list)[a])
       ELSE Fresh(None)]
  /\ total = Save(Fresh(None), SumOver(AsMap(list), DOMAIN AsMap(list)))

Init ==
  /\ height = 0
  /\ \E list \in MemberLists, owner \in Admins : create(list, owner)
  /\ hooks = {}
  /\ mirror = <<>>

-----------------------------------------------------------------------------
(* The running total of the first loop of update_members when it has done  *)
(* the additions for the accounts in S, and what it needs not to overflow: *)
(* the old weight is taken off before the new one is put on.               *)
RunningTotal(add, S) == total.now - SumOver(Current, S) + SumOver(add, S)

(* Mutant of AddsFit: the sum is not checked for overflow. *)
unchecked_add(add) ==
  \A a \in DOMAIN add :
    RunningTotal(add, {b \in DOMAIN add : b < a}) >= WeightOf(Current[a])

AddsFit(add) ==
  \A a \in DOMAIN add :
    LET done == {b \in DOMAIN add : b < a} IN
    /\ RunningTotal(add, done) >= WeightOf(Current[a])
    /\ RunningTotal(add, done \cup {a}) <= MaxU64

WithAdded(add) == [a \in Addr |-> IF a \in DOMAIN add THEN add[a] ELSE Current[a]]

(* Removing an account that is not a member (any more) does nothing.       *)
Removed(add, remove) == {a \in Range(remove) : WithAdded(add)[a] # None}

(* Mutant of NewTotal: removals are taken at the weight before additions. *)
stale_removals(add, remove) ==
  RunningTotal(add, DOMAIN add) - SumOver(Current, Removed(add, remove))

NewTotal(add, remove) ==
  RunningTotal(add, DOMAIN add) - SumOver(WithAdded(add), Removed(add, remove))

(* Mutant of Diffs: only who was a member before is reported as removed. *)
stale_diffs(add, remove) ==
  <<[a \in DOMAIN add |-> [old |-> Current[a], new |-> add[a]]],
    [a \in {b \in Range(remove) : Current[b] # None} |-> [old |-> Current[a], new |-> None]]>>

(* One MemberDiff per addition, then one per removal. *)
Diffs(add, remove) ==
  <<[a \in DOMAIN add |-> [old |-> Current[a], new |-> add[a]]],
    [a \in Removed(add, remove) |-> [old |-> WithAdded(add)[a], new |-> None]]>>

update_members(sender, list, remove) ==
  LET add == AsMap(list)
      Added(a) == IF a \in DOMAIN add THEN Save(members[a], add[a]) ELSE members[a]
  IN  /\ validate_unique_members(list)
      /\ sender = admin
      /\ AddsFit(add)
      /\ NewTotal(add, remove) >= 0
      /\ members' = [a \in Addr |->
           IF a \in Removed(add, remove) THEN Save(Added(a), None) ELSE Added(a)]
      /\ total' = Save(total, NewTotal(add, remove))

(* What a subscriber makes of the diffs it is sent: it overwrites.         *)
ApplyDiffs(copy, diffs) ==
  LET first == [a \in Addr |-> IF a \in DOMAIN diffs[1] THEN diffs[1][a].new ELSE copy[a]]
  IN  [a \in Addr |-> IF a \in DOMAIN diffs[2] THEN diffs[2][a].new ELSE first[a]]

execute_update_members(sender, list, remove) ==
  /\ update_members(sender, list, remove)
  /\ mirror' = [s \in hooks |-> ApplyDiffs(mirror[s], Diffs(AsMap(list), remove))]
  /\ UNCHANGED <<admin, hooks, height>>

execute_update_admin(sender, new_admin) ==
  /\ sender = admin
  /\ admin' = new_admin
  /\ UNCHANGED <<members, total, hooks, mirror, height>>

(* The subscriber copies the group in the transaction that registers it.   *)
execute_add_hook(sender, s) ==
  /\ sender = admin
  /\ s \notin hooks
  /\ hooks' = hooks \cup {s}
  /\ mirror' = [t \in hooks \cup {s} |-> IF t = s THEN Current ELSE mirror[t]]
  /\ UNCHANGED <<admin, members, total, height>>

execute_remove_hook(sender, s) ==
  /\ sender = admin
  /\ s \in hooks
  /\ hooks' = hooks \ {s}
  /\ mirror' = Restrict(mirror, hooks \ {s})
  /\ UNCHANGED <<admin, members, total, height>>

NextBlock ==
  /\ height < MaxHeight
  /\ height' = height + 1
  /\ UNCHANGED <<admin, members, total, hooks, mirror>>

Next ==
  \/ \E sender \in Addr, list \in MemberLists, remove \in RemoveLists :
       execute_update_members(sender, list, remove)
  \/ \E sender \in Addr, new_admin \in Admins : execute_update_admin(sender, new_admin)
  \/ \E sender \in Addr, s \in Subscribers : execute_add_hook(sender, s)
  \/ \E sender \in Addr, s \in Subscribers : execute_remove_hook(sender, s)
  \/ NextBlock

Spec == Init /\ [][Next]_groupVars

-----------------------------------------------------------------------------
(* Type invariant: weights and the total stay within a u64, and changes    *)
(* are logged for past blocks and the current one.                         *)
TypeOK ==
  /\ admin \in Maybe(Addr)
  /\ \A item \in Range(members) \cup {total} :
       /\ item.now \in Maybe(Weights)
       /\ DOMAIN item.log \subseteq 0..height
       /\ \A h \in DOMAIN item.log : item.log[h] \in Maybe(Weights)
  /\ DOMAIN members = Addr
  /\ hooks \subseteq Subscribers
  /\ mirror \in [hooks -> [Addr -> Maybe(Weights)]]
  /\ height \in 0..MaxHeight

(* TOTAL and MEMBERS are kept and logged apart, but agree at every height  *)
(* a query may ask for: the total weight there is the sum of the weights.  *)
TotalIsSum ==
  \A h \in 0..height + 1 :
    query_total_weight(h) = Total([a \in Addr |-> WeightOf(query_member(a, h))])

(* What the queries answer for a block that has begun never changes, so a  *)
(* vote that reads the group as of an earlier block reads one group.       *)
FixedStep ==
  \A h \in 0..height :
    /\ \A a \in Addr : AtHeight(members'[a], h) = query_member(a, h)
    /\ AtHeight(total', h) = AtHeight(total, h)
HistoryIsFixed == [][FixedStep]_groupVars

(* All in all the group is an electorate that anyone may read as it was at *)
(* the start of any block: the snapshots that cw3-flex-multisig reads are  *)
(* those of the members at that moment, not of some moment.                *)
Past == [b \in 1..height + 1 |-> [a \in Addr |-> query_member(a, b - 1)]]
EL == INSTANCE Electorate WITH current <- Current, past <- Past
ImplementsElectorate == EL!Spec

(* A subscriber that only ever applies the diffs, in the order they are    *)
(* sent, knows the current members and weights.                            *)
SubscribersInSync == \A s \in hooks : mirror[s] = Current

(* A client lists the members page by page while the group is edited:      *)
(* whatever a step does between two pages, no account is on both, and none *)
(* is left out that was a member all the time and comes before the end of  *)
(* what was listed.                                                        *)
PagesStep ==
  \A start_after \in Addr \cup {0}, limit \in 1..Cardinality(Addr) :
    LET first == list_members(Current, start_after, limit)
        second == list_members(Current', LastOf(first), limit)
        Reached(a) == Cardinality(second) < limit \/ a <= LastOf(second)
    IN  Cardinality(first) = limit =>
          /\ first \cap second = {}
          /\ \A a \in Addr :
               a > start_after /\ Current[a] # None /\ Current'[a] # None /\ Reached(a)
                 => a \in first \cup second
PagesSurviveEdits == [][PagesStep]_groupVars
=============================================================================
