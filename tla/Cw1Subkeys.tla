----------------------------- MODULE Cw1Subkeys -----------------------------
(***************************************************************************)
(* contracts/cw1-subkeys: a proxy whose admins relay any message, and      *)
(* whose other callers relay payments within an allowance in several       *)
(* denominations and staking messages they have a permission for.  One     *)
(* call relays a list of messages: they are checked one after the other,   *)
(* and all fail if one does, in the contract or when it is dispatched.     *)
(***************************************************************************)
EXTENDS Cw1Whitelist, Sums, Sequences, Listing

CONSTANTS Denoms,        \* denominations
          Payments,      \* coins of a bank message: maps of denoms to amounts
          Grants,        \* coins an admin adds or takes away: [denom, amount]
          PermissionSets,\* permissions that may be set
          Expirations,   \* heights that may be given as an expiration
          Never,         \* Expiration::Never
          None,          \* no allowance; no expiration given
          MaxMsgs,       \* bound on the messages of one call
          MaxGranted,    \* bound on what is granted in one denomination
          MaxHeight      \* bound on the block height

Permissions == {"delegate", "redelegate", "undelegate", "withdraw"}

(* No allowance left, and what a message that is not allowed leaves. *)
Empty == [balance |-> <<>>, expires |-> Never]
Rejected == [balance |-> <<>>, expires |-> None]

ASSUME SubkeyAssumption ==
  /\ \A c \in Payments : DOMAIN c \subseteq Denoms /\ \A d \in DOMAIN c : c[d] \in Nat \ {0}
  /\ Grants \subseteq [denom: Denoms, amount: Nat]
  /\ PermissionSets \subseteq SUBSET Permissions
  /\ Expirations \subseteq Nat /\ {Never, None} \cap Nat = {}
  /\ None \notin {Never, Rejected}
  /\ Addr \subseteq Nat \ {0} /\ IsFiniteSet(Addr)

VARIABLES allowances,      \* ALLOWANCES: None, or a balance and an expiration
          permissions,     \* PERMISSIONS; the empty set if there is no entry
          height,          \* env.block
          granted, spent   \* by account and denomination (history)

subkeyVars == <<allowances, permissions, granted, spent>>
vars == <<adminVars, subkeyVars, height>>

(* What a call may relay: payments, staking messages under the name of the *)
(* permission they need, and messages of other kinds.  The coins of a      *)
(* payment are a map: the handler subtracts a list of coins one by one,    *)
(* and the bank refuses one that repeats a denomination or holds a zero    *)
(* coin, which reverts the whole call.                                     *)
Messages == [kind: {"bank"}, coins: Payments] \cup [kind: Permissions \cup {"other"}]
Calls == UNION {[1..n -> Messages] : n \in 1..MaxMsgs}

Init ==
  /\ \E list \in AdminLists, can_change \in BOOLEAN : instantiate(list, can_change)
  /\ allowances = [a \in Addr |-> None]
  /\ permissions = [a \in Addr |-> {}]
  /\ height = 0
  /\ granted = [a \in Addr |-> [d \in Denoms |-> 0]]
  /\ spent = granted

is_expired(expires) == expires \notin {Never, None} /\ height >= expires

-----------------------------------------------------------------------------
(* NativeBalance: coins by denomination.  Taking coins away needs all of   *)
(* them, and drops the denominations it uses up.                           *)
Amount(coins, d) == IF d \in DOMAIN coins THEN coins[d] ELSE 0

Covers(balance, coins) ==
  \A d \in DOMAIN coins : d \in DOMAIN balance /\ balance[d] >= coins[d]

Less(balance, coins) ==
  [d \in {e \in DOMAIN balance : e \in DOMAIN coins => balance[e] # coins[e]} |->
     balance[d] - Amount(coins, d)]

Plus(balance, coin) ==
  [d \in DOMAIN balance \cup {coin.denom} |->
     Amount(balance, d) + (IF d = coin.denom THEN coin.amount ELSE 0)]

(* sub_saturating, for a denomination that is there. *)
LessAtMost(balance, coin) ==
  [d \in {e \in DOMAIN balance : e = coin.denom => balance[e] > coin.amount} |->
     IF d = coin.denom THEN balance[d] - coin.amount ELSE balance[d]]

(* No coins, or only coins of amount zero. *)
IsEmpty(balance) == \A d \in DOMAIN balance : balance[d] = 0

-----------------------------------------------------------------------------
(* The outcome of the checks so far: the allowance left, or Rejected.      *)
Usable(allow) == allow \notin {None, Rejected} /\ ~ is_expired(allow.expires)

(* Mutants of Checked: amounts are not compared, and every message is      *)
(* checked against the stored allowance.                                   *)
checked_denoms(sender, left, msg) ==
  CASE left = Rejected -> Rejected
    [] left # Rejected /\ msg.kind = "bank" ->
         IF Usable(left) /\ DOMAIN msg.coins \subseteq DOMAIN left.balance
           THEN [left EXCEPT !.balance = Less(@, msg.coins)] ELSE Rejected
    [] left # Rejected /\ msg.kind # "bank" ->
         IF msg.kind \in permissions[sender] THEN left ELSE Rejected
checked_alone(sender, left, msg) ==
  LET allow == allowances[sender] IN
  CASE left = Rejected -> Rejected
    [] left # Rejected /\ msg.kind = "bank" ->
         IF Usable(allow) /\ Covers(allow.balance, msg.coins)
           THEN [allow EXCEPT !.balance = Less(@, msg.coins)] ELSE Rejected
    [] left # Rejected /\ msg.kind # "bank" ->
         IF msg.kind \in permissions[sender] THEN left ELSE Rejected

Checked(sender, left, msg) ==
  CASE left = Rejected -> Rejected
    [] left # Rejected /\ msg.kind = "bank" ->
         IF Usable(left) /\ Covers(left.balance, msg.coins)
           THEN [left EXCEPT !.balance = Less(@, msg.coins)] ELSE Rejected
    [] left # Rejected /\ msg.kind # "bank" ->
         IF msg.kind \in permissions[sender] THEN left ELSE Rejected

AfterChecks(sender, msgs) ==
  LET after[i \in 0..Len(msgs)] ==
        IF i = 0 THEN allowances[sender] ELSE Checked(sender, after[i - 1], msgs[i])
  IN  after[Len(msgs)]

Accepts(sender, msgs) == is_admin(sender) \/ AfterChecks(sender, msgs) # Rejected

Paid(msgs, d) ==
  Total([i \in 1..Len(msgs) |-> IF msgs[i].kind = "bank" THEN Amount(msgs[i].coins, d) ELSE 0])

(* An admin's own allowance is not used up. *)
execute_execute(sender, msgs) ==
  /\ Accepts(sender, msgs)
  /\ IF is_admin(sender) THEN UNCHANGED <<allowances, spent>>
     ELSE /\ allowances' = [allowances EXCEPT ![sender] = AfterChecks(sender, msgs)]
          /\ spent' = [spent EXCEPT ![sender] = [d \in Denoms |-> @[d] + Paid(msgs, d)]]
  /\ UNCHANGED <<adminVars, permissions, granted, height>>

(* Mutant of can_execute: the expiration is not looked at. *)
can_execute_expired(sender, msg) ==
  \/ is_admin(sender)
  \/ /\ msg.kind = "bank"
     /\ allowances[sender] # None
     /\ Covers(allowances[sender].balance, msg.coins)
  \/ msg.kind \in permissions[sender]

can_execute(sender, msg) ==
  \/ is_admin(sender)
  \/ /\ msg.kind = "bank"
     /\ allowances[sender] # None
     /\ ~ is_expired(allowances[sender].expires)
     /\ Covers(allowances[sender].balance, msg.coins)
  \/ msg.kind \in permissions[sender]

query_allowance(spender) == IF Usable(allowances[spender]) THEN allowances[spender] ELSE Empty

(* Mutant of query_all_allowances: the page is filtered after it is taken. *)
filtered_page(start_after, limit) ==
  {a \in Page({b \in Addr : allowances[b] # None}, start_after, limit) : Usable(allowances[a])}

(* Allowances that are over are left out before the page is taken.         *)
query_all_allowances(start_after, limit) ==
  Page({a \in Addr : Usable(allowances[a])}, start_after, limit)

-----------------------------------------------------------------------------
(* An allowance that is over starts from nothing. *)
Renewed(spender, coin, expires) ==
  LET old == IF Usable(allowances[spender]) THEN allowances[spender] ELSE Empty
  IN  [balance |-> Plus(old.balance, coin),
       expires |-> IF expires = None THEN old.expires ELSE expires]

(* An allowance that is over can be renewed only with a new expiration.    *)
execute_increase_allowance(sender, spender, coin, expires) ==
  /\ granted[spender][coin.denom] + coin.amount <= MaxGranted
  /\ is_admin(sender) /\ sender # spender
  /\ ~ is_expired(expires)
  /\ expires = None => allowances[spender] = None \/ Usable(allowances[spender])
  /\ allowances' = [allowances EXCEPT ![spender] = Renewed(spender, coin, expires)]
  /\ granted' = [granted EXCEPT ![spender] =
       Plus(IF Usable(allowances[spender]) THEN @ ELSE spent[spender], coin)]
  /\ UNCHANGED <<adminVars, permissions, spent, height>>

(* The denomination has to be there; the entry is removed when no coins    *)
(* are left.                                                               *)
execute_decrease_allowance(sender, spender, coin, expires) ==
  /\ is_admin(sender) /\ sender # spender
  /\ Usable(allowances[spender])
  /\ ~ is_expired(expires)
  /\ coin.denom \in DOMAIN allowances[spender].balance
  /\ LET balance == LessAtMost(allowances[spender].balance, coin) IN
     allowances' = [allowances EXCEPT ![spender] =
       IF IsEmpty(balance) THEN None
       ELSE [balance |-> balance, expires |-> IF expires = None THEN @.expires ELSE expires]]
  /\ UNCHANGED <<adminVars, permissions, granted, spent, height>>

execute_set_permissions(sender, spender, perm) ==
  /\ is_admin(sender) /\ sender # spender
  /\ permissions' = [permissions EXCEPT ![spender] = perm]
  /\ UNCHANGED <<adminVars, allowances, granted, spent, height>>

NextBlock ==
  /\ height < MaxHeight
  /\ height' = height + 1
  /\ UNCHANGED <<adminVars, subkeyVars>>

Next ==
  \/ \E sender \in Addr, msgs \in Calls : execute_execute(sender, msgs)
  \/ \E sender, spender \in Addr, coin \in Grants, expires \in Expirations \cup {Never, None} :
       execute_increase_allowance(sender, spender, coin, expires)
  \/ \E sender, spender \in Addr, coin \in Grants, expires \in Expirations \cup {Never, None} :
       execute_decrease_allowance(sender, spender, coin, expires)
  \/ \E sender, spender \in Addr, perm \in PermissionSets :
       execute_set_permissions(sender, spender, perm)
  \/ \E sender \in Addr : execute_freeze(sender) /\ UNCHANGED <<subkeyVars, height>>
  \/ \E sender \in Addr, list \in AdminLists :
       execute_update_admins(sender, list) /\ UNCHANGED <<subkeyVars, height>>
  \/ NextBlock

Spec == Init /\ [][Next]_vars

-----------------------------------------------------------------------------
(* Type invariant: an allowance is a positive or zero amount of some       *)
(* denominations, and an expiration.                                       *)
TypeOK ==
  /\ admins \subseteq Addr /\ mutable \in BOOLEAN
  /\ \A a \in Addr : allowances[a] # None =>
       /\ allowances[a].balance \in [DOMAIN allowances[a].balance -> Nat]
       /\ DOMAIN allowances[a].balance \subseteq Denoms
       /\ allowances[a].expires \in Nat \cup {Never}
  /\ permissions \in [Addr -> SUBSET Permissions]
  /\ granted \in [Addr -> [Denoms -> Nat]] /\ spent \in [Addr -> [Denoms -> Nat]]

(* Through calls with several messages, decreases, expirations, renewals   *)
(* and changes of admins, a subkey never spends more of a denomination     *)
(* than admins granted it; what it had not spent of a grant that is over   *)
(* is lost.                                                                *)
SpentWithinGrants ==
  \A a \in Addr, d \in Denoms :
    spent[a][d] + (IF Usable(allowances[a]) THEN Amount(allowances[a].balance, d) ELSE 0)
      <= granted[a][d]

(* A client that pages through AllAllowances sees every subkey that has an *)
(* allowance Execute would accept, also next to allowances that are over.  *)
AllowancesListed ==
  \A limit \in 1..Cardinality(Addr) :
    Lists(LAMBDA start_after : query_all_allowances(start_after, limit), limit,
          {a \in Addr : Usable(allowances[a])})

(* CanExecute, Allowance and AllAllowances, which read the storage each in *)
(* its own way, tell what Execute accepts; only a payment of no coins is   *)
(* covered by an allowance that is not there, and not accepted.            *)
QueriesTellTheTruth ==
  /\ \A sender \in Addr, msg \in Messages :
       /\ can_execute(sender, msg) <=> Accepts(sender, <<msg>>)
       /\ msg.kind = "bank" /\ DOMAIN msg.coins # {} /\ ~ is_admin(sender) =>
            (Covers(query_allowance(sender).balance, msg.coins) <=> Accepts(sender, <<msg>>))
  /\ AllowancesListed

(* Once frozen, the list of admins is the same for ever.                   *)
FrozenForever == [][~ mutable => UNCHANGED adminVars]_vars
=============================================================================
