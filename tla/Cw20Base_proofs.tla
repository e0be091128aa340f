-------------------------- MODULE Cw20Base_proofs ---------------------------
(***************************************************************************)
(* The token, for every set of accounts, all amounts, initial balances,    *)
(* minters and caps, and what it says of its logo, which is kept apart.    *)
(***************************************************************************)
EXTENDS Cw20Base, Cw20Marketing, Data_proofs

(* Before the migration there is no index to be found. *)
Unindexed == version < Indexed => allowances_spender = NoAllowances

IInv == TypeOK /\ SupplyIsSum /\ IndexesAgree /\ SpendingWithinGrants /\ Unindexed

(* Taking from an account, or giving to one, changes the sum by as much.   *)
LEMMA DebitTotal ==
  ASSUME NEW b \in [Addr -> Nat], NEW a \in Addr, NEW n \in Nat, b[a] >= n
  PROVE  /\ Debit(b, a, n) \in [Addr -> Nat]
         /\ Total(Debit(b, a, n)) = Total(b) - n
<1>1. Debit(b, a, n) = [b EXCEPT ![a] = b[a] - n] BY DEF Debit
<1>2. b[a] \in Nat /\ b[a] - n \in Nat OBVIOUS
<1>3. Total([b EXCEPT ![a] = b[a] - n]) = Total(b) - b[a] + (b[a] - n)
  BY <1>2, AddrAssumption, TotalUpdate
<1>4. Total(b) \in Nat BY AddrAssumption, TotalType
<1>5. Debit(b, a, n) \in [Addr -> Nat] BY <1>1, <1>2
<1> QED BY <1>1, <1>2, <1>3, <1>4, <1>5

LEMMA CreditTotal ==
  ASSUME NEW b \in [Addr -> Nat], NEW a \in Addr, NEW n \in Nat
  PROVE  /\ Credit(b, a, n) \in [Addr -> Nat]
         /\ Total(Credit(b, a, n)) = Total(b) + n
<1>1. Credit(b, a, n) = [b EXCEPT ![a] = b[a] + n] BY DEF Credit
<1>2. b[a] \in Nat /\ b[a] + n \in Nat OBVIOUS
<1>3. Total([b EXCEPT ![a] = b[a] + n]) = Total(b) - b[a] + (b[a] + n)
  BY <1>2, AddrAssumption, TotalUpdate
<1>4. Total(b) \in Nat BY AddrAssumption, TotalType
<1>5. Credit(b, a, n) \in [Addr -> Nat] BY <1>1, <1>2
<1> QED BY <1>1, <1>2, <1>3, <1>4, <1>5

(* The three ways in which the balances, the supply and the mint data of a *)
(* token change keep it well formed.                                       *)
TokenOK ==
  /\ balances \in [Addr -> Nat] /\ total_supply \in Nat
  /\ mint \in MinterData \cup {NoMint}
  /\ SupplyIsSum

LEMMA MoveKeeps ==
  ASSUME TokenOK, NEW from \in Addr, NEW to \in Addr, NEW n \in Nat, Move(from, to, n)
  PROVE  TokenOK'
<1> DEFINE d == Debit(balances, from, n)
<1>1. d \in [Addr -> Nat] /\ Total(d) = Total(balances) - n
  BY DebitTotal DEF TokenOK, Move
<1>2. Credit(d, to, n) \in [Addr -> Nat] /\ Total(Credit(d, to, n)) = Total(d) + n
  <2> HIDE DEF d
  <2> QED BY <1>1, CreditTotal
<1>3. Total(balances) \in Nat BY AddrAssumption, TotalType DEF TokenOK
<1>4. balances' = Credit(d, to, n) /\ UNCHANGED <<total_supply, mint>> BY DEF Move
<1> HIDE DEF d
<1>5. Total(balances') = Total(balances) BY <1>1, <1>2, <1>3, <1>4
<1> QED BY <1>2, <1>4, <1>5 DEF TokenOK, SupplyIsSum, WithinCap

LEMMA DestroyKeeps ==
  ASSUME TokenOK, NEW from \in Addr, NEW n \in Nat, Destroy(from, n)
  PROVE  TokenOK'
<1>1. balances' \in [Addr -> Nat] /\ Total(balances') = Total(balances) - n
  BY DebitTotal DEF TokenOK, Destroy
<1>2. total_supply \in Nat /\ total_supply' = total_supply - n /\ total_supply >= n /\ mint' = mint
  BY DEF TokenOK, Destroy
<1>3. total_supply' \in Nat /\ total_supply' <= total_supply BY <1>2
<1>4. mint.cap # NoCap => mint.cap \in Nat BY DEF TokenOK, MinterData, NoMint
<1> QED BY <1>1, <1>2, <1>3, <1>4, TokenAssumption DEF TokenOK, SupplyIsSum, WithinCap

LEMMA MintKeeps ==
  ASSUME TokenOK, NEW s \in Addr, NEW to \in Addr, NEW n \in Nat, execute_mint(s, to, n)
  PROVE  TokenOK'
<1>1. balances' \in [Addr -> Nat] /\ Total(balances') = Total(balances) + n
  BY CreditTotal DEF TokenOK, execute_mint
<1> QED BY <1>1 DEF TokenOK, SupplyIsSum, WithinCap, Mintable, execute_mint

-----------------------------------------------------------------------------
AllowanceTypes ==
  /\ allowances \in [Pairs -> Allowance \cup {NoAllowance}]
  /\ allowances_spender \in [Pairs -> Allowance \cup {NoAllowance}]
  /\ granted \in [Pairs -> Nat] /\ spent \in [Pairs -> Nat]

AllowanceOK == AllowanceTypes /\ IndexesAgree /\ SpendingWithinGrants /\ Unindexed

LEMMA ReversePairs ==
  ASSUME NEW p \in Pairs
  PROVE  Reverse(p) \in Pairs /\ \A q \in Pairs : Reverse(q) = Reverse(p) => q = p
BY DEF Pairs, Reverse

Left(a) == IF a = NoAllowance THEN 0 ELSE a.allowance

LEMMA AllowanceValues ==
  ASSUME NEW a \in Allowance \cup {NoAllowance}
  PROVE  /\ a # NoAllowance => a \in Allowance /\ a.allowance \in Nat
         /\ Left(a) \in Nat
         /\ a.expires \in Nat \cup {Never}
BY DEF Allowance, NoAllowance, Left

(* One entry replaced in both maps by the same value, and one grant or one *)
(* amount spent recorded along with it.                                    *)
LEMMA EntryStep ==
  ASSUME AllowanceOK, Ready, version' = version, NEW p \in Pairs, NEW a \in Allowance \cup {NoAllowance},
         allowances' = [allowances EXCEPT ![p] = a],
         allowances_spender' = [allowances_spender EXCEPT ![Reverse(p)] = a],
         NEW g \in Nat, NEW s \in Nat,
         granted' = [granted EXCEPT ![p] = granted[p] + g],
         spent' = [spent EXCEPT ![p] = spent[p] + s],
         s + Left(a) <= Left(allowances[p]) + g,
         p[1] = p[2] => a = NoAllowance
  PROVE  AllowanceOK'
<1>0. /\ AllowanceTypes /\ IndexesAgree
      /\ \A q \in Pairs : /\ spent[q] + Left(allowances[q]) <= granted[q]
                          /\ q[1] = q[2] => allowances[q] = NoAllowance
  BY DEF AllowanceOK, SpendingWithinGrants, Left
<1>1. Reverse(p) \in Pairs /\ \A q \in Pairs : Reverse(q) \in Pairs BY ReversePairs
<1>2. granted[p] \in Nat /\ spent[p] \in Nat BY <1>0 DEF AllowanceTypes
<1>3. AllowanceTypes' BY <1>0, <1>1, <1>2 DEF AllowanceTypes
<1>4. IndexesAgree'
  <2> SUFFICES ASSUME NEW q \in Pairs
               PROVE  allowances_spender'[Reverse(q)] = allowances'[q]
    BY DEF IndexesAgree
  <2>1. CASE q = p BY <1>0, <1>1, <2>1 DEF AllowanceTypes
  <2>2. CASE q # p
    <3>1. Reverse(q) # Reverse(p) BY <2>2, ReversePairs
    <3>2. allowances_spender[Reverse(q)] = allowances[q] BY <1>0 DEF IndexesAgree, Ready, This, Indexed
    <3> QED BY <1>0, <1>1, <2>2, <3>1, <3>2 DEF AllowanceTypes
  <2> QED BY <2>1, <2>2
<1>5. ASSUME NEW q \in Pairs
      PROVE  /\ spent'[q] + Left(allowances'[q]) <= granted'[q]
             /\ q[1] = q[2] => allowances'[q] = NoAllowance
  <2>1. CASE q = p
    <3>1. spent'[p] = spent[p] + s /\ granted'[p] = granted[p] + g /\ allowances'[p] = a
      BY <1>0 DEF AllowanceTypes
    <3>2. Left(a) \in Nat /\ Left(allowances[p]) \in Nat
      BY <1>0, AllowanceValues DEF AllowanceTypes
    <3>3. spent[p] + Left(allowances[p]) <= granted[p] BY <1>0
    <3>4. spent[p] + s + Left(a) <= granted[p] + g BY <1>2, <3>2, <3>3
    <3> QED BY <2>1, <3>1, <3>4
  <2>2. CASE q # p
    <3>1. spent'[q] = spent[q] /\ granted'[q] = granted[q] /\ allowances'[q] = allowances[q]
      BY <1>0, <2>2 DEF AllowanceTypes
    <3> QED BY <1>0, <3>1
  <2> QED BY <2>1, <2>2
<1>6. SpendingWithinGrants' BY <1>5 DEF SpendingWithinGrants, Left
<1> QED BY <1>3, <1>4, <1>6 DEF AllowanceOK, Unindexed, Ready, This, Indexed

LEMMA DeductKeeps ==
  ASSUME AllowanceOK, Ready, version' = version, granted' = granted,
         NEW owner \in Addr, NEW spender \in Addr, NEW n \in Nat,
         deduct_allowance(owner, spender, n)
  PROVE  AllowanceOK'
<1> DEFINE p == <<owner, spender>>
           a == Deducted(allowances[p], n)
<1>1. p \in Pairs BY DEF Pairs
<1>2. /\ allowances[p] # NoAllowance /\ allowances[p].allowance >= n
      /\ allowances' = [allowances EXCEPT ![p] = a]
      /\ allowances_spender' =
           [allowances_spender EXCEPT ![Reverse(p)] = Deducted(allowances_spender[Reverse(p)], n)]
      /\ spent' = [spent EXCEPT ![p] = spent[p] + n]
  BY DEF deduct_allowance, CanDeduct
<1>3. allowances_spender[Reverse(p)] = allowances[p]
  BY <1>1 DEF AllowanceOK, IndexesAgree, Ready, This, Indexed
<1>4. allowances[p] \in Allowance /\ allowances[p].allowance \in Nat
  BY <1>1, <1>2, AllowanceValues DEF AllowanceOK, AllowanceTypes
<1>5. a \in Allowance /\ a.allowance = allowances[p].allowance - n
  BY <1>2, <1>4 DEF Deducted, Allowance
<1>6. Left(allowances[p]) = allowances[p].allowance BY <1>2 DEF Left
<1>7. a # NoAllowance /\ Left(a) = a.allowance BY <1>4, <1>5 DEF Left, NoAllowance, Allowance
<1>8. n + Left(a) <= Left(allowances[p]) + 0 BY <1>4, <1>5, <1>6, <1>7
<1>9. ~ (p[1] = p[2]) BY <1>1, <1>2 DEF AllowanceOK, SpendingWithinGrants
<1>10. granted' = [granted EXCEPT ![p] = granted[p] + 0]
  BY <1>1 DEF AllowanceOK, AllowanceTypes
<1> HIDE DEF a, p
<1> QED BY <1>1, <1>2, <1>3, <1>5, <1>8, <1>9, <1>10, EntryStep DEF a

LEMMA IncreaseKeeps ==
  ASSUME AllowanceOK, NEW p \in Pairs, NEW n \in Nat, NEW e \in Expirations \cup {Never, None},
         execute_increase_allowance(p, n, e)
  PROVE  AllowanceOK'
<1> DEFINE a == Increased(allowances[p], n, e)
<1>1. /\ Ready /\ version' = version /\ p[1] # p[2] /\ spent' = spent
      /\ allowances' = [allowances EXCEPT ![p] = a]
      /\ allowances_spender' =
           [allowances_spender EXCEPT ![Reverse(p)] = Increased(allowances_spender[Reverse(p)], n, e)]
      /\ granted' = [granted EXCEPT ![p] = granted[p] + n]
  BY DEF execute_increase_allowance
<1>2. allowances_spender[Reverse(p)] = allowances[p]
  BY <1>1 DEF AllowanceOK, IndexesAgree, Ready, This, Indexed
<1>3. /\ Left(allowances[p]) \in Nat /\ allowances[p].expires \in Nat \cup {Never}
  BY AllowanceValues DEF AllowanceOK, AllowanceTypes
<1>4. e \in Nat \cup {Never, None} BY TokenAssumption
<1>5. a = [allowance |-> Left(allowances[p]) + n,
           expires |-> IF e = None THEN allowances[p].expires ELSE e]
  BY <1>3 DEF Increased, Left
<1>6. a \in Allowance /\ a.allowance = Left(allowances[p]) + n BY <1>3, <1>4, <1>5 DEF Allowance
<1>7. Left(a) = a.allowance BY <1>3, <1>6 DEF Left, NoAllowance
<1>8. 0 + Left(a) <= Left(allowances[p]) + n BY <1>3, <1>6, <1>7
<1>9. spent' = [spent EXCEPT ![p] = spent[p] + 0] BY <1>1 DEF AllowanceOK, AllowanceTypes
<1> HIDE DEF a
<1> QED BY <1>1, <1>2, <1>6, <1>8, <1>9, EntryStep DEF a

LEMMA DecreaseKeeps ==
  ASSUME AllowanceOK, NEW p \in Pairs, NEW n \in Nat, NEW e \in Expirations \cup {Never, None},
         execute_decrease_allowance(p, n, e)
  PROVE  AllowanceOK'
<1>1. /\ Ready /\ version' = version /\ p[1] # p[2] /\ spent' = spent /\ granted' = granted
      /\ allowances[p] # NoAllowance
  BY DEF execute_decrease_allowance
<1>2. /\ spent' = [spent EXCEPT ![p] = spent[p] + 0]
      /\ granted' = [granted EXCEPT ![p] = granted[p] + 0]
  BY <1>1 DEF AllowanceOK, AllowanceTypes
<1>3. /\ allowances[p] \in Allowance /\ allowances[p].allowance \in Nat
      /\ allowances[p].expires \in Nat \cup {Never}
      /\ Left(allowances[p]) = allowances[p].allowance
  BY <1>1, AllowanceValues DEF AllowanceOK, AllowanceTypes, Left
<1>4. CASE n < allowances[p].allowance
  <2> DEFINE a == [allowance |-> allowances[p].allowance - n,
                   expires |-> IF e = None THEN allowances[p].expires ELSE e]
  <2>1. /\ allowances' = [allowances EXCEPT ![p] = a]
        /\ allowances_spender' = [allowances_spender EXCEPT ![Reverse(p)] = a]
    BY <1>4 DEF execute_decrease_allowance, SaveAllowance
  <2>2. e \in Nat \cup {Never, None} BY TokenAssumption
  <2>3. a \in Allowance /\ a.allowance = allowances[p].allowance - n
    BY <1>3, <1>4, <2>2 DEF Allowance
  <2>4. Left(a) = a.allowance BY <1>3, <1>4, <2>3 DEF Left, NoAllowance
  <2>5. 0 + Left(a) <= Left(allowances[p]) + 0 BY <1>3, <1>4, <2>3, <2>4
  <2> HIDE DEF a
  <2> QED BY <1>1, <1>2, <2>1, <2>3, <2>5, EntryStep
<1>5. CASE ~ (n < allowances[p].allowance)
  <2> DEFINE a == NoAllowance
  <2>1. /\ allowances' = [allowances EXCEPT ![p] = a]
        /\ allowances_spender' = [allowances_spender EXCEPT ![Reverse(p)] = a]
    BY <1>5 DEF execute_decrease_allowance, SaveAllowance
  <2>2. 0 + Left(a) <= Left(allowances[p]) + 0 BY <1>3 DEF Left
  <2> QED BY <1>1, <1>2, <2>1, <2>2, EntryStep
<1> QED BY <1>4, <1>5

(* The migration builds the index that older versions did not keep.        *)
LEMMA MigrateKeeps ==
  ASSUME AllowanceOK, migrate, version \in {Indexed - 1, Indexed, This}
  PROVE  AllowanceOK' /\ version' = This
<1>1. version' = This /\ UNCHANGED <<allowances, granted, spent>> BY DEF migrate
<1>2. AllowanceTypes /\ SpendingWithinGrants BY DEF AllowanceOK
<1>3. \A p \in Pairs : allowances_spender'[Reverse(p)] = allowances[p]
  <2> TAKE p \in Pairs
  <2>0. Reverse(p) \in Pairs /\ Reverse(Reverse(p)) = p BY DEF Pairs, Reverse
  <2>1. CASE version >= Indexed
    <3>1. allowances_spender' = allowances_spender BY <2>1 DEF migrate, Indexed, This
    <3> QED BY <2>1, <3>1 DEF AllowanceOK, IndexesAgree
  <2>2. CASE version < Indexed
    <3>1. version < Indexed BY <2>2
    <3>2. allowances_spender'[Reverse(p)] =
            IF allowances[p] # NoAllowance THEN allowances[p] ELSE allowances_spender[Reverse(p)]
      BY <2>0, <3>1 DEF migrate
    <3>3. allowances_spender[Reverse(p)] = NoAllowance
      BY <2>0, <2>2 DEF AllowanceOK, Unindexed, NoAllowances
    <3> QED BY <3>2, <3>3
  <2> QED BY <2>1, <2>2 DEF Indexed, This
<1>4. allowances_spender' \in [Pairs -> Allowance \cup {NoAllowance}]
  <2>1. \A p \in Pairs : Reverse(p) \in Pairs BY ReversePairs
  <2> QED BY <1>2, <2>1 DEF migrate, AllowanceTypes
<1> QED BY <1>1, <1>2, <1>3, <1>4
      DEF AllowanceOK, AllowanceTypes, IndexesAgree, SpendingWithinGrants, Unindexed, This, Indexed

-----------------------------------------------------------------------------
RestOK == version \in {Indexed - 1, Indexed, This} /\ height \in Nat /\ minted \in Nat

LEMMA Parts == IInv <=> TokenOK /\ AllowanceOK /\ RestOK
BY DEF IInv, TypeOK, TokenOK, AllowanceOK, AllowanceTypes, RestOK

LEMMA InitIInv == Init => IInv
<1> SUFFICES ASSUME Init PROVE TokenOK /\ AllowanceOK /\ RestOK BY Parts
<1>1. TokenOK
  <2>1. PICK supply \in Supplies, m \in Minters : instantiate(supply, m) BY DEF Init
  <2>2. supply \in [Addr -> Nat] /\ m \in MinterData \cup {NoMint} BY TokenAssumption
  <2>3. Total(supply) \in Nat BY <2>2, AddrAssumption, TotalType
  <2> QED BY <2>1, <2>2, <2>3 DEF instantiate, TokenOK, SupplyIsSum
<1>2. RestOK BY DEF Init, RestOK
<1>3. /\ allowances_spender =
           IF version < Indexed THEN NoAllowances ELSE [p \in Pairs |-> allowances[Reverse(p)]]
      /\ granted = [p \in Pairs |-> Left(allowances[p])]
      /\ spent = [p \in Pairs |-> 0]
  BY DEF Init, Nothing, Left
<1>5. /\ allowances \in [Pairs -> Allowance \cup {NoAllowance}]
      /\ \A p \in Pairs : p[1] = p[2] => allowances[p] = NoAllowance
  <2>1. CASE version = This /\ allowances = NoAllowances BY <2>1 DEF NoAllowances
  <2>2. CASE /\ version \in {Indexed - 1, Indexed}
             /\ \E p \in Pairs, n \in Amounts :
                  /\ p[1] # p[2]
                  /\ allowances = [NoAllowances EXCEPT ![p] = [allowance |-> n, expires |-> Never]]
    <3>1. PICK p \in Pairs, n \in Amounts :
            /\ p[1] # p[2]
            /\ allowances = [NoAllowances EXCEPT ![p] = [allowance |-> n, expires |-> Never]]
      BY <2>2
    <3>2. [allowance |-> n, expires |-> Never] \in Allowance BY TokenAssumption DEF Allowance
    <3> QED BY <3>1, <3>2 DEF NoAllowances
  <2> QED BY <2>1, <2>2 DEF Init
<1>6. \A p \in Pairs : Left(allowances[p]) \in Nat BY <1>5, AllowanceValues
<1>7. AllowanceTypes
  <2>1. \A p \in Pairs : Reverse(p) \in Pairs BY ReversePairs
  <2>2. allowances_spender \in [Pairs -> Allowance \cup {NoAllowance}]
    BY <1>3, <1>5, <2>1 DEF NoAllowances
  <2> QED BY <1>3, <1>5, <1>6, <2>2 DEF AllowanceTypes
<1>8. IndexesAgree
  <2>1. \A p \in Pairs : Reverse(p) \in Pairs /\ Reverse(Reverse(p)) = p
    BY DEF Pairs, Reverse
  <2>2. version >= Indexed => ~ (version < Indexed)
    BY <1>2 DEF RestOK, Indexed, This
  <2> QED BY <1>3, <2>1, <2>2 DEF IndexesAgree
<1>9. SpendingWithinGrants
  <2>1. \A p \in Pairs : spent[p] + Left(allowances[p]) <= granted[p] BY <1>3, <1>6
  <2> QED BY <1>5, <2>1 DEF SpendingWithinGrants, Left
<1>10. AllowanceOK BY <1>3, <1>7, <1>8, <1>9 DEF AllowanceOK, Unindexed
<1> QED BY <1>1, <1>2, <1>10

LEMMA TokenUnchanged == TokenOK /\ UNCHANGED <<balances, total_supply, mint>> => TokenOK'
BY DEF TokenOK, SupplyIsSum, WithinCap

LEMMA AllowancesUnchanged ==
  AllowanceOK /\ UNCHANGED <<allowances, allowances_spender, version, granted, spent>>
    => AllowanceOK'
BY DEF AllowanceOK, AllowanceTypes, IndexesAgree, SpendingWithinGrants, Unindexed

LEMMA NextIInv == IInv /\ [Next]_vars => IInv'
<1> SUFFICES ASSUME IInv, [Next]_vars PROVE TokenOK' /\ AllowanceOK' /\ RestOK'
  BY DEF IInv, TypeOK, TokenOK, AllowanceOK, AllowanceTypes, RestOK
<1>p. TokenOK /\ AllowanceOK /\ RestOK BY Parts
<1>n. \A n \in Amounts : n \in Nat BY TokenAssumption
<1>1. CASE migrate
  <2>1. AllowanceOK' /\ version' = This BY <1>1, <1>p, MigrateKeeps DEF RestOK
  <2> QED BY <1>1, <1>p, <2>1, TokenUnchanged DEF migrate, RestOK
<1>2. CASE \E s, to \in Addr, n \in Amounts : execute_transfer(s, to, n)
  <2>1. PICK s \in Addr, to \in Addr, n \in Amounts : execute_transfer(s, to, n) BY <1>2
  <2>2. TokenOK' BY <1>n, <1>p, <2>1, MoveKeeps DEF execute_transfer
  <2> QED BY <1>p, <2>1, <2>2, AllowancesUnchanged DEF execute_transfer, RestOK
<1>3. CASE \E s \in Addr, n \in Amounts : execute_burn(s, n)
  <2>1. PICK s \in Addr, n \in Amounts : execute_burn(s, n) BY <1>3
  <2>2. TokenOK' BY <1>n, <1>p, <2>1, DestroyKeeps DEF execute_burn
  <2> QED BY <1>p, <2>1, <2>2, AllowancesUnchanged DEF execute_burn, RestOK
<1>4. CASE \E s, to \in Addr, n \in Amounts : execute_mint(s, to, n)
  <2>1. PICK s \in Addr, to \in Addr, n \in Amounts : execute_mint(s, to, n) BY <1>4
  <2>2. TokenOK' BY <1>n, <1>p, <2>1, MintKeeps
  <2>3. RestOK' BY <1>n, <1>p, <2>1 DEF execute_mint, RestOK
  <2> QED BY <1>p, <2>1, <2>2, <2>3, AllowancesUnchanged DEF execute_mint
<1>5. CASE \E s \in Addr, m \in Addr \cup {0} : execute_update_minter(s, m)
  <2>1. PICK s \in Addr, m \in Addr \cup {0} : execute_update_minter(s, m) BY <1>5
  <2>2. mint \in MinterData BY <1>p, <2>1 DEF execute_update_minter, TokenOK
  <2>3. mint' = NoMint \/ (mint' \in MinterData /\ mint'.cap = mint.cap)
    BY <2>1, <2>2 DEF execute_update_minter, MinterData
  <2>4. TokenOK' BY <1>p, <2>1, <2>3
    DEF TokenOK, SupplyIsSum, WithinCap, execute_update_minter, NoMint
  <2> QED BY <1>p, <2>1, <2>4, AllowancesUnchanged DEF execute_update_minter, RestOK
<1>6. CASE \E p \in Pairs, n \in Amounts, e \in Expirations \cup {Never, None} :
             execute_increase_allowance(p, n, e)
  <2>1. PICK p \in Pairs, n \in Amounts, e \in Expirations \cup {Never, None} :
          execute_increase_allowance(p, n, e)
    BY <1>6
  <2>2. AllowanceOK' BY <1>n, <1>p, <2>1, IncreaseKeeps
  <2> QED BY <1>p, <2>1, <2>2, TokenUnchanged DEF execute_increase_allowance, RestOK
<1>7. CASE \E p \in Pairs, n \in Amounts, e \in Expirations \cup {Never, None} :
             execute_decrease_allowance(p, n, e)
  <2>1. PICK p \in Pairs, n \in Amounts, e \in Expirations \cup {Never, None} :
          execute_decrease_allowance(p, n, e)
    BY <1>7
  <2>2. AllowanceOK' BY <1>n, <1>p, <2>1, DecreaseKeeps
  <2> QED BY <1>p, <2>1, <2>2, TokenUnchanged DEF execute_decrease_allowance, RestOK
<1>8. CASE \E s, o, to \in Addr, n \in Amounts : execute_transfer_from(s, o, to, n)
  <2>1. PICK s \in Addr, o \in Addr, to \in Addr, n \in Amounts : execute_transfer_from(s, o, to, n)
    BY <1>8
  <2>2. TokenOK' BY <1>n, <1>p, <2>1, MoveKeeps DEF execute_transfer_from
  <2>3. AllowanceOK' BY <1>n, <1>p, <2>1, DeductKeeps DEF execute_transfer_from
  <2> QED BY <1>p, <2>1, <2>2, <2>3 DEF execute_transfer_from, RestOK
<1>9. CASE \E s, o \in Addr, n \in Amounts : execute_burn_from(s, o, n)
  <2>1. PICK s \in Addr, o \in Addr, n \in Amounts : execute_burn_from(s, o, n) BY <1>9
  <2>2. TokenOK' BY <1>n, <1>p, <2>1, DestroyKeeps DEF execute_burn_from
  <2>3. AllowanceOK' BY <1>n, <1>p, <2>1, DeductKeeps DEF execute_burn_from
  <2> QED BY <1>p, <2>1, <2>2, <2>3 DEF execute_burn_from, RestOK
<1>10. CASE NextBlock
  BY <1>10, <1>p, TokenUnchanged, AllowancesUnchanged DEF NextBlock, RestOK
<1>11. CASE UNCHANGED vars
  BY <1>11, <1>p, TokenUnchanged, AllowancesUnchanged DEF vars, RestOK
<1> QED BY <1>1, <1>2, <1>3, <1>4, <1>5, <1>6, <1>7, <1>8, <1>9, <1>10, <1>11 DEF Next

-----------------------------------------------------------------------------
(* The storage is well formed, and the four invariants of the token hold,  *)
(* in every reachable state.                                               *)
THEOREM Invariance == Spec => []IInv
<1>1. Init => IInv BY InitIInv
<1>2. IInv /\ [Next]_vars => IInv' BY NextIInv
<1> QED BY <1>1, <1>2, PTL DEF Spec

(* No message drives a balance, the supply or an allowance below zero.     *)
THEOREM TypeCorrect == Spec => []TypeOK
<1>1. IInv => TypeOK BY DEF IInv
<1> QED BY <1>1, Invariance, PTL

(* No transfer, mint or burn, of any amount and between any accounts, the  *)
(* same one included, makes the supply differ from the sum of the balances *)
(* or takes it past the cap.                                               *)
THEOREM SupplyTheorem == Spec => []SupplyIsSum
<1>1. IInv => SupplyIsSum BY DEF IInv
<1> QED BY <1>1, Invariance, PTL

(* The two maps of allowances, each written on its own by every handler,   *)
(* never differ after the migration.                                       *)
THEOREM IndexTheorem == Spec => []IndexesAgree
<1>1. IInv => IndexesAgree BY DEF IInv
<1> QED BY <1>1, Invariance, PTL

(* Whatever the order of grants, revocations and expirations, no spender   *)
(* moves more than it was granted.                                         *)
THEOREM SpendingTheorem == Spec => []SpendingWithinGrants
<1>1. IInv => SpendingWithinGrants BY DEF IInv
<1> QED BY <1>1, Invariance, PTL

(* A client that follows the pages of either map of allowances to the end, *)
(* of whatever size, sees each entry, and the entries of the one map are   *)
(* those of the other.                                                     *)
THEOREM ListingTheorem == Spec => []AllowancesListed
<1>1. IInv => AllowancesListed
  <2> SUFFICES ASSUME IInv, version = This, NEW a \in Addr, NEW limit \in 1..2
      PROVE  /\ Lists(LAMBDA start_after : query_owner_allowances(a, start_after, limit), limit,
                      {s \in Addr : allowances[<<a, s>>] # NoAllowance})
             /\ Lists(LAMBDA start_after : query_spender_allowances(a, start_after, limit), limit,
                      {o \in Addr : \E n \in Addr \cup {0} : a \in query_owner_allowances(o, n, 1)})
    BY DEF AllowancesListed
  <2> DEFINE Spenders(o) == {s \in Addr : allowances[<<o, s>>] # NoAllowance}
             Owners == {o \in Addr : allowances_spender[<<a, o>>] # NoAllowance}
             Shown == {o \in Addr : \E n \in Addr \cup {0} : a \in query_owner_allowances(o, n, 1)}
  <2>1. limit \in Nat \ {0} OBVIOUS
  <2>2. /\ \A o \in Addr : Spenders(o) \in SUBSET (Nat \ {0}) /\ IsFiniteSet(Spenders(o))
        /\ Owners \in SUBSET (Nat \ {0}) /\ IsFiniteSet(Owners)
    BY AddrAssumption, TokenAssumption, FS_Subset
  <2>3. Lists(LAMBDA start_after : Page(Spenders(a), start_after, limit), limit, Spenders(a))
    BY <2>1, <2>2, PagesList
  <2>4. Lists(LAMBDA start_after : Page(Owners, start_after, limit), limit, Owners)
    BY <2>1, <2>2, PagesList
  <2>5. Shown = Owners
    <3>1. ASSUME NEW o \in Addr PROVE o \in Owners <=> a \in Spenders(o)
      <4>1. <<o, a>> \in Pairs /\ Reverse(<<o, a>>) = <<a, o>> BY DEF Pairs, Reverse
      <4>2. version >= Indexed BY DEF This, Indexed
      <4> QED BY <4>1, <4>2 DEF IInv, IndexesAgree
    <3>2. ASSUME NEW o \in Addr PROVE o \in Shown <=> a \in Spenders(o)
      <4>1. ASSUME NEW n \in Addr \cup {0}, a \in query_owner_allowances(o, n, 1)
            PROVE  a \in Spenders(o)
        BY <4>1 DEF query_owner_allowances, Page
      <4>2. ASSUME a \in Spenders(o) PROVE o \in Shown
        <5>1. PICK n \in Spenders(o) \cup {0} : a \in Page(Spenders(o), n, 1)
          <6> HIDE DEF Spenders
          <6> QED BY <2>2, <4>2, PageOfOne
        <5>2. n \in Addr \cup {0} OBVIOUS
        <5> QED BY <5>1, <5>2 DEF query_owner_allowances
      <4> QED BY <4>1, <4>2
    <3> QED BY <3>1, <3>2
  <2>6. Lists(LAMBDA start_after : query_owner_allowances(a, start_after, limit), limit, Spenders(a))
    BY <2>3 DEF query_owner_allowances
  <2>7. Lists(LAMBDA start_after : query_spender_allowances(a, start_after, limit), limit, Shown)
    BY <2>4, <2>5 DEF query_spender_allowances
  <2> QED BY <2>6, <2>7
<1> QED BY <1>1, Invariance, PTL

(* Owner and spender are told the same of every allowance between them.    *)
THEOREM SidesTheorem == Spec => []SidesAgree
<1>1. IndexesAgree /\ AllowancesListed => SidesAgree BY DEF SidesAgree
<1> QED BY <1>1, IndexTheorem, ListingTheorem, PTL

-----------------------------------------------------------------------------
(* cw20-base: the marketing information.                                   *)
(* The entry, if there is one, says of the logo what is stored; a logo is  *)
(* stored only together with an entry, and only after it was verified.     *)
LogoOK ==
  /\ logo # Absent => logo \in Logos /\ verify_logo(logo)
  /\ info = Absent => logo = Absent
  /\ info # Absent => /\ info \in Entries
                    /\ info.logo = IF logo = Absent THEN Absent ELSE LogoInfo(logo)

LEMMA LogoInfoType ==
  ASSUME NEW l \in Logos
  PROVE  /\ LogoInfo(l) \in LogoInfos
         /\ LogoInfo(l) # Absent /\ l # Absent
BY MarketingAssumption DEF LogoInfo, LogoInfos

LEMMA InitLogoOK ==
  ASSUME MarketingInit
  PROVE  LogoOK
<1>1. CASE info = Absent /\ logo = Absent BY <1>1 DEF LogoOK
<1>2. ASSUME NEW project \in Texts \cup {Blank, Absent}, NEW description \in Texts \cup {Blank, Absent},
             NEW marketing \in Accounts \cup {Absent}, NEW l \in Logos \cup {Absent},
             instantiate_marketing(project, description, marketing, l)
      PROVE  LogoOK
  <2>1. info \in Entries
    BY <1>2, LogoInfoType DEF instantiate_marketing, Entries
  <2>2. info # Absent BY <2>1, MarketingAssumption
  <2> QED BY <1>2, <2>1, <2>2 DEF instantiate_marketing, LogoOK
<1> QED BY <1>1, <1>2 DEF MarketingInit

LEMMA MarketingUpdated ==
  ASSUME LogoOK, NEW sender \in Accounts,
         NEW project \in Texts \cup {Blank, Absent}, NEW description \in Texts \cup {Blank, Absent},
         NEW marketing \in Accounts \cup {Blank, Absent},
         execute_update_marketing(sender, project, description, marketing)
  PROVE  LogoOK'
<1> DEFINE new == [info EXCEPT !.project = Updated(@, project),
                               !.description = Updated(@, description),
                               !.marketing = Updated(@, marketing)]
<1>1. /\ info # Absent /\ logo' = logo
      /\ info' = IF IsEmpty(new) THEN Absent ELSE new
  BY DEF execute_update_marketing, MayChange
<1>2. info \in Entries BY <1>1 DEF LogoOK
<1>3. new \in Entries /\ new.logo = info.logo /\ DOMAIN new = DOMAIN info
  <2>1. info \in [project: Texts \cup {Blank, Absent}, description: Texts \cup {Blank, Absent},
                 marketing: Accounts \cup {Absent}, logo: LogoInfos \cup {Absent}]
    BY <1>2 DEF Entries
  <2>2. /\ Updated(info.project, project) \in Texts \cup {Blank, Absent}
        /\ Updated(info.description, description) \in Texts \cup {Blank, Absent}
        /\ Updated(info.marketing, marketing) \in Accounts \cup {Absent}
    BY <2>1 DEF Updated
  <2>3. new \in Entries BY <2>1, <2>2 DEF Entries
  <2>4. new.logo = info.logo /\ DOMAIN new = DOMAIN info BY <2>1
  <2> QED BY <2>3, <2>4
<1>4. new # Absent BY <1>3, MarketingAssumption
<1>5. ASSUME IsEmpty(new) PROVE logo = Absent
  <2>1. new.logo = Absent BY <1>2, <1>3, <1>5 DEF IsEmpty, Entries
  <2> QED BY <1>1, <1>3, <2>1, LogoInfoType DEF LogoOK
<1> HIDE DEF new
<1> QED BY <1>1, <1>3, <1>4, <1>5 DEF LogoOK, LogoInfo, verify_logo

LEMMA MarketingUploaded ==
  ASSUME LogoOK, NEW sender \in Accounts, NEW l \in Logos,
         execute_upload_logo(sender, l)
  PROVE  LogoOK'
<1>1. /\ info # Absent /\ logo' = l /\ verify_logo(l)
      /\ info' = [info EXCEPT !.logo = LogoInfo(l)]
  BY DEF execute_upload_logo, MayChange
<1>2. info \in Entries BY <1>1 DEF LogoOK
<1>3. info' \in Entries /\ info'.logo = LogoInfo(l)
  BY <1>1, <1>2, LogoInfoType DEF Entries
<1>4. info' # Absent BY <1>3, MarketingAssumption
<1> QED BY <1>1, <1>3, <1>4, LogoInfoType DEF LogoOK, LogoInfo, verify_logo

(* What MarketingInfo says of the logo is what DownloadLogo finds, through *)
(* every sequence of updates, removals of the entry and uploads.           *)
THEOREM MarketingLogo == MarketingSpec => []LogoAsAnnounced
<1>1. LogoOK /\ [MarketingNext]_marketing_vars => LogoOK'
  <2> SUFFICES ASSUME LogoOK, MarketingNext \/ UNCHANGED marketing_vars PROVE LogoOK' OBVIOUS
  <2>1. CASE MarketingNext BY <2>1, MarketingUpdated, MarketingUploaded DEF MarketingNext
  <2>2. CASE UNCHANGED marketing_vars BY <2>2 DEF marketing_vars, LogoOK, LogoInfo, verify_logo
  <2> QED BY <2>1, <2>2
<1>2. LogoOK => LogoAsAnnounced
  <2> SUFFICES ASSUME LogoOK PROVE LogoAsAnnounced OBVIOUS
  <2> DEFINE said == query_marketing_info.logo
  <2>1. said = IF logo = Absent THEN Absent ELSE LogoInfo(logo)
    BY DEF query_marketing_info, LogoOK
  <2>2. CASE logo = Absent
    <3>1. said = Absent BY <2>1, <2>2
    <3>2. Absent \notin [kind: {"embedded"}] BY MarketingAssumption DEF LogoInfos
    <3> QED BY <2>2, <3>1, <3>2 DEF LogoAsAnnounced, query_download_logo
  <2>3. CASE logo # Absent
    <3>1. logo \in Logos /\ verify_logo(logo) /\ said = LogoInfo(logo) /\ said # Absent
      BY <2>1, <2>3, LogoInfoType DEF LogoOK
    <3>2. CASE logo.kind = "url"
      <4>1. said = [kind |-> "url", content |-> logo.content] BY <3>1, <3>2 DEF LogoInfo
      <4>2. said \notin [kind: {"embedded"}] /\ said.content = logo.content BY <4>1
      <4> QED BY <3>1, <3>2, <4>2, <2>3 DEF LogoAsAnnounced, query_download_logo
    <3>3. CASE logo.kind # "url"
      <4>1. said = [kind |-> "embedded"] BY <3>1, <3>3 DEF LogoInfo
      <4>2. said \in [kind: {"embedded"}] /\ said \in {Absent, [kind |-> "embedded"]} BY <4>1
      <4>3. logo.header /\ logo.size <= SizeCap BY <3>1, <3>3 DEF verify_logo
      <4> QED BY <2>3, <3>1, <3>3, <4>2, <4>3 DEF LogoAsAnnounced, query_download_logo
    <3> QED BY <3>2, <3>3
  <2> QED BY <2>2, <2>3
<1> QED BY <1>1, <1>2, InitLogoOK, PTL DEF MarketingSpec
=============================================================================
