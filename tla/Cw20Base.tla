------------------------------ MODULE Cw20Base ------------------------------
(***************************************************************************)
(* contracts/cw20-base: a token with balances, allowances, a minter and a  *)
(* cap.  Uint128 subtraction and addition fail instead of wrapping, and a  *)
(* failure reverts the transaction, so both are guards.  Send and SendFrom *)
(* differ from Transfer and TransferFrom in the call of the receiver, made *)
(* when the balances are already stored; whatever the receiver then does   *)
(* to the token is a further step.                                         *)
(***************************************************************************)
EXTENDS Integers, Sums, Listing

CONSTANTS Addr,         \* the accounts, numbered in their sort order
          Amounts,      \* amounts used in messages
          Supplies,     \* initial balances
          Minters,      \* initial mint data: NoMint, or a minter and a cap
          Expirations,  \* heights that may be given as an expiration
          NoCap,        \* cap: None
          Never,        \* Expiration::Never
          None,         \* no expiration given with a message
          MaxU128,      \* the largest u128
          MaxHeight,    \* bound on the block height
          MaxIssued     \* bound on all that is minted, and all that is granted

(* Account 0 is nobody. *)
NoMint == [minter |-> 0, cap |-> NoCap]
NoAllowance == [allowance |-> -1, expires |-> Never]
Allowance == [allowance: Nat, expires: Nat \cup {Never}]
MinterData == [minter: Addr, cap: Nat \cup {NoCap}]
Pairs == Addr \X Addr

ASSUME AddrAssumption == IsFiniteSet(Addr)
ASSUME TokenAssumption ==
  /\ Addr \subseteq Nat \ {0}
  /\ MaxU128 \in Nat /\ NoCap \notin Int
  /\ Never \notin Int /\ None \notin Int \cup {Never}
  /\ \A n \in Amounts : n \in Nat
  /\ \A b \in Supplies : b \in [Addr -> Nat]
  /\ \A m \in Minters : m \in MinterData \cup {NoMint}
  /\ \A e \in Expirations : e \in Nat

VARIABLES balances,            \* BALANCES; 0 for an account without entry
          total_supply, mint,  \* TOKEN_INFO
          allowances,          \* ALLOWANCES by <<owner, spender>>
          allowances_spender,  \* ALLOWANCES_SPENDER by <<spender, owner>>
          version,             \* the version that wrote the storage
          height,              \* env.block
          minted,              \* how much was minted (history)
          granted, spent       \* by <<owner, spender>> (history)

token == <<balances, total_supply, mint>>
history == <<minted, granted, spent>>
vars == <<balances, total_supply, mint, allowances, allowances_spender, version,
          height, minted, granted, spent>>

Reverse(pair) == <<pair[2], pair[1]>>
NoAllowances == [p \in Pairs |-> NoAllowance]
Nothing == [p \in Pairs |-> 0]

(* Versions, as 100 * major + minor: the first one that keeps              *)
(* ALLOWANCES_SPENDER, and this one.                                       *)
Indexed == 14
This == 101

WithinCap(supply, m) == m.cap # NoCap => supply <= m.cap

instantiate(supply, m) ==
  /\ WithinCap(Total(supply), m)
  /\ Total(supply) <= MaxU128
  /\ balances = supply
  /\ total_supply = Total(supply)
  /\ mint = m

(* A contract just instantiated, or one whose code was replaced by this    *)
(* version, with an allowance granted under an older one, which kept the   *)
(* index or did not.                                                       *)
Init ==
  /\ \E supply \in Supplies, m \in Minters : instantiate(supply, m)
  /\ \/ version = This /\ allowances = NoAllowances
     \/ /\ version \in {Indexed - 1, Indexed}
        /\ \E p \in Pairs, n \in Amounts :
             /\ p[1] # p[2]
             /\ allowances = [NoAllowances EXCEPT ![p] = [allowance |-> n, expires |-> Never]]
  /\ allowances_spender =
       IF version < Indexed THEN NoAllowances ELSE [p \in Pairs |-> allowances[Reverse(p)]]
  /\ height = 0
  /\ minted = 0
  /\ granted = [p \in Pairs |-> IF allowances[p] = NoAllowance THEN 0 ELSE allowances[p].allowance]
  /\ spent = Nothing

-----------------------------------------------------------------------------
is_expired(expires) == expires \notin {Never, None} /\ height >= expires

(* The chain runs migrate in the transaction that installs the new code.   *)
Ready == version = This

migrate ==
  /\ version' = This
  /\ allowances_spender' =
       IF version < Indexed
         THEN [p \in Pairs |-> IF allowances[Reverse(p)] # NoAllowance
                               THEN allowances[Reverse(p)] ELSE allowances_spender[p]]
         ELSE allowances_spender
  /\ UNCHANGED <<balances, total_supply, mint, allowances, height, minted, granted, spent>>

Debit(b, from, amount) == [b EXCEPT ![from] = @ - amount]
Credit(b, to, amount) == [b EXCEPT ![to] = @ + amount]

(* Mutant of Move: both balances are read before one is written. *)
stale_move(from, to, amount) ==
  /\ balances[from] >= amount
  /\ balances[to] + amount <= MaxU128
  /\ balances' = [Debit(balances, from, amount) EXCEPT ![to] = balances[to] + amount]
  /\ UNCHANGED <<total_supply, mint>>

(* Debit first, then credit: from may be to. *)
Move(from, to, amount) ==
  /\ balances[from] >= amount
  /\ Debit(balances, from, amount)[to] + amount <= MaxU128
  /\ balances' = Credit(Debit(balances, from, amount), to, amount)
  /\ UNCHANGED <<total_supply, mint>>

(* Mutant of Destroy: the balance is not checked. *)
unchecked_destroy(from, amount) ==
  /\ total_supply >= amount
  /\ balances' = Debit(balances, from, amount)
  /\ total_supply' = total_supply - amount
  /\ UNCHANGED mint

Destroy(from, amount) ==
  /\ balances[from] >= amount
  /\ total_supply >= amount
  /\ balances' = Debit(balances, from, amount)
  /\ total_supply' = total_supply - amount
  /\ UNCHANGED mint

(* execute_transfer and execute_send. *)
execute_transfer(sender, recipient, amount) ==
  /\ Ready
  /\ Move(sender, recipient, amount)
  /\ UNCHANGED <<allowances, allowances_spender, version, height, minted, granted, spent>>

execute_burn(sender, amount) ==
  /\ Ready
  /\ Destroy(sender, amount)
  /\ UNCHANGED <<allowances, allowances_spender, version, height, minted, granted, spent>>

(* Mutant of Mintable: the addition to the supply is not checked. *)
cap_only(amount) == WithinCap(total_supply + amount, mint)

(* The supply can grow by this: it stays a u128 and below a cap.           *)
Mintable(amount) ==
  /\ total_supply + amount <= MaxU128
  /\ WithinCap(total_supply + amount, mint)

execute_mint(sender, recipient, amount) ==
  /\ Ready
  /\ minted + amount <= MaxIssued
  /\ mint # NoMint /\ mint.minter = sender
  /\ Mintable(amount)
  /\ balances[recipient] + amount <= MaxU128
  /\ total_supply' = total_supply + amount
  /\ balances' = Credit(balances, recipient, amount)
  /\ minted' = minted + amount
  /\ UNCHANGED <<mint, allowances, allowances_spender, version, height, granted, spent>>

(* The cap is handed on to the new minter; without one it is gone.         *)
execute_update_minter(sender, new_minter) ==
  /\ Ready
  /\ mint # NoMint /\ mint.minter = sender
  /\ mint' = IF new_minter = 0 THEN NoMint ELSE [mint EXCEPT !.minter = new_minter]
  /\ UNCHANGED <<balances, total_supply, allowances, allowances_spender, version, height,
                 minted, granted, spent>>

-----------------------------------------------------------------------------
(* Mutant of SaveAllowance: the key of the index is not reversed. *)
save_unreversed(p, a) ==
  /\ allowances' = [allowances EXCEPT ![p] = a]
  /\ allowances_spender' = [allowances_spender EXCEPT ![p] = a]

SaveAllowance(p, a) ==
  /\ allowances' = [allowances EXCEPT ![p] = a]
  /\ allowances_spender' = [allowances_spender EXCEPT ![Reverse(p)] = a]

(* update_fn of execute_increase_allowance, applied to either map; without *)
(* an expiration the old one stays, even one that is over.                 *)
Increased(a, amount, expires) ==
  [allowance |-> IF a = NoAllowance THEN amount ELSE a.allowance + amount,
   expires |-> IF expires = None THEN a.expires ELSE expires]

execute_increase_allowance(p, amount, expires) ==
  /\ Ready
  /\ Total(granted) + amount <= MaxIssued
  /\ p[1] # p[2]
  /\ ~ is_expired(expires)
  /\ Increased(allowances[p], amount, expires).allowance <= MaxU128
  /\ allowances' = [allowances EXCEPT ![p] = Increased(@, amount, expires)]
  /\ allowances_spender' = [allowances_spender EXCEPT ![Reverse(p)] = Increased(@, amount, expires)]
  /\ granted' = [granted EXCEPT ![p] = @ + amount]
  /\ UNCHANGED <<balances, total_supply, mint, version, height, minted, spent>>

(* The entry is deleted when nothing is left; then the expiration given    *)
(* with the message is not looked at.                                      *)
execute_decrease_allowance(p, amount, expires) ==
  /\ Ready
  /\ p[1] # p[2]
  /\ allowances[p] # NoAllowance
  /\ IF amount < allowances[p].allowance
       THEN /\ ~ is_expired(expires)
            /\ SaveAllowance(p,
                 [allowance |-> allowances[p].allowance - amount,
                  expires |-> IF expires = None THEN allowances[p].expires ELSE expires])
       ELSE SaveAllowance(p, NoAllowance)
  /\ UNCHANGED <<balances, total_supply, mint, version, height, minted, granted, spent>>

(* Both maps are read, checked and written on their own. An entry stays    *)
(* when its allowance reaches 0.                                           *)
CanDeduct(a, amount) == a # NoAllowance /\ ~ is_expired(a.expires) /\ a.allowance >= amount

(* Mutant of Deducted: the new amount is not stored. *)
not_deducted(a, amount) == a

Deducted(a, amount) == [a EXCEPT !.allowance = @ - amount]

deduct_allowance(owner, spender, amount) ==
  LET p == <<owner, spender>> IN
  /\ CanDeduct(allowances[p], amount)
  /\ CanDeduct(allowances_spender[Reverse(p)], amount)
  /\ allowances' = [allowances EXCEPT ![p] = Deducted(@, amount)]
  /\ allowances_spender' = [allowances_spender EXCEPT ![Reverse(p)] = Deducted(@, amount)]
  /\ spent' = [spent EXCEPT ![p] = @ + amount]

(* execute_transfer_from and execute_send_from. *)
execute_transfer_from(sender, owner, recipient, amount) ==
  /\ Ready
  /\ deduct_allowance(owner, sender, amount)
  /\ Move(owner, recipient, amount)
  /\ UNCHANGED <<version, height, minted, granted>>

execute_burn_from(sender, owner, amount) ==
  /\ Ready
  /\ deduct_allowance(owner, sender, amount)
  /\ Destroy(owner, amount)
  /\ UNCHANGED <<version, height, minted, granted>>

-----------------------------------------------------------------------------
(* Mutant of query_spender_allowances: the map by owner is read. *)
owner_prefix(spender, start_after, limit) ==
  Page({a \in Addr : allowances[<<spender, a>>] # NoAllowance}, start_after, limit)

(* AllAllowances and AllSpenderAllowances: each reads its own map, entries *)
(* that are over or used up included.                                      *)
query_owner_allowances(owner, start_after, limit) ==
  Page({a \in Addr : allowances[<<owner, a>>] # NoAllowance}, start_after, limit)

query_spender_allowances(spender, start_after, limit) ==
  Page({a \in Addr : allowances_spender[<<spender, a>>] # NoAllowance}, start_after, limit)

-----------------------------------------------------------------------------
NextBlock ==
  /\ height < MaxHeight
  /\ height' = height + 1
  /\ UNCHANGED <<balances, total_supply, mint, allowances, allowances_spender, version,
                 minted, granted, spent>>

Next ==
  \/ migrate
  \/ \E sender, recipient \in Addr, amount \in Amounts : execute_transfer(sender, recipient, amount)
  \/ \E sender \in Addr, amount \in Amounts : execute_burn(sender, amount)
  \/ \E sender, recipient \in Addr, amount \in Amounts : execute_mint(sender, recipient, amount)
  \/ \E sender \in Addr, new_minter \in Addr \cup {0} :
       execute_update_minter(sender, new_minter)
  \/ \E p \in Pairs, amount \in Amounts, expires \in Expirations \cup {Never, None} :
       execute_increase_allowance(p, amount, expires)
  \/ \E p \in Pairs, amount \in Amounts, expires \in Expirations \cup {Never, None} :
       execute_decrease_allowance(p, amount, expires)
  \/ \E sender, owner, recipient \in Addr, amount \in Amounts :
       execute_transfer_from(sender, owner, recipient, amount)
  \/ \E sender, owner \in Addr, amount \in Amounts : execute_burn_from(sender, owner, amount)
  \/ NextBlock

Spec == Init /\ [][Next]_vars

-----------------------------------------------------------------------------
(* Type invariant: no balance, supply or allowance is negative. *)
TypeOK ==
  /\ balances \in [Addr -> Nat] /\ total_supply \in Nat
  /\ mint \in MinterData \cup {NoMint}
  /\ allowances \in [Pairs -> Allowance \cup {NoAllowance}]
  /\ allowances_spender \in [Pairs -> Allowance \cup {NoAllowance}]
  /\ version \in {Indexed - 1, Indexed, This} /\ height \in Nat
  /\ minted \in Nat /\ granted \in [Pairs -> Nat] /\ spent \in [Pairs -> Nat]

(* The stored total supply is the sum of the balances, fits a u128 and     *)
(* never passes the cap, also when the minter changes hands and after      *)
(* tokens were burned and minted again.                                    *)
SupplyIsSum ==
  /\ total_supply = Total(balances)
  /\ total_supply <= MaxU128
  /\ WithinCap(total_supply, mint)

(* The index by spender lists the allowances that exist, no others, with   *)
(* the same amounts and expirations, in every version that has the index.  *)
IndexesAgree ==
  version >= Indexed => \A p \in Pairs : allowances_spender[Reverse(p)] = allowances[p]

(* Page by page, an owner sees all its spenders, and a spender the owners  *)
(* in whose lists it is, after any use, deletion and migration.            *)
AllowancesListed ==
  version = This => \A a \in Addr, limit \in 1..2 :
    /\ Lists(LAMBDA start_after : query_owner_allowances(a, start_after, limit), limit,
             {s \in Addr : allowances[<<a, s>>] # NoAllowance})
    /\ Lists(LAMBDA start_after : query_spender_allowances(a, start_after, limit), limit,
             {o \in Addr : \E n \in Addr \cup {0} : a \in query_owner_allowances(o, n, 1)})

(* Both parties of an allowance are told the same of it.                   *)
SidesAgree == IndexesAgree /\ AllowancesListed

(* Through all increases, decreases, deletions and expirations, a spender  *)
(* never moves more than it was granted, and can still move at most the    *)
(* rest; nobody has an allowance on an own account.                        *)
SpendingWithinGrants ==
  \A p \in Pairs :
    /\ spent[p] + (IF allowances[p] = NoAllowance THEN 0 ELSE allowances[p].allowance) <= granted[p]
    /\ p[1] = p[2] => allowances[p] = NoAllowance
=============================================================================
