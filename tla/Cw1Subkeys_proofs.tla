------------------------- MODULE Cw1Subkeys_proofs -------------------------
(***************************************************************************)
(* The subkeys, for every set of accounts, all coins, payments and grants, *)
(* and calls of any number of messages.                                    *)
(***************************************************************************)
EXTENDS Cw1Subkeys, Data_proofs

Balances == UNION {[D -> Nat] : D \in SUBSET Denoms}
Allowance == [balance: Balances, expires: Nat \cup {Never}]

Left(a, d) == IF Usable(allowances[a]) THEN Amount(allowances[a].balance, d) ELSE 0

Entries ==
  /\ allowances \in [Addr -> Allowance \cup {None}]
  /\ granted \in [Addr -> [Denoms -> Nat]] /\ spent \in [Addr -> [Denoms -> Nat]]
  /\ \A a \in Addr, d \in Denoms : spent[a][d] + Left(a, d) <= granted[a][d]

Rest ==
  /\ admins \subseteq Addr /\ mutable \in BOOLEAN
  /\ permissions \in [Addr -> SUBSET Permissions]
  /\ height \in Nat

(* What an account spent and what is left for it are within its grants.    *)
IInv == Entries /\ Rest

-----------------------------------------------------------------------------
(* Coins.                                                                  *)
LEMMA AmountType ==
  ASSUME NEW b \in Balances
  PROVE  /\ DOMAIN b \in SUBSET Denoms /\ b \in [DOMAIN b -> Nat]
         /\ \A d \in DOMAIN b : b[d] \in Nat
         /\ \A d \in Denoms : Amount(b, d) \in Nat
<1>1. PICK D \in SUBSET Denoms : b \in [D -> Nat] BY DEF Balances
<1> QED BY <1>1 DEF Amount

LEMMA IsBalance ==
  ASSUME NEW D \in SUBSET Denoms, NEW b \in [D -> Nat]
  PROVE  b \in Balances
BY DEF Balances

LEMMA LessCoins ==
  ASSUME NEW b \in Balances, NEW c \in Payments, Covers(b, c)
  PROVE  /\ Less(b, c) \in Balances
         /\ \A d \in Denoms : /\ Amount(c, d) \in Nat
                              /\ Amount(Less(b, c), d) = Amount(b, d) - Amount(c, d)
<1> DEFINE D == {e \in DOMAIN b : e \in DOMAIN c => b[e] # c[e]}
           l == [d \in D |-> b[d] - Amount(c, d)]
<1>1. /\ DOMAIN b \in SUBSET Denoms
      /\ \A d \in DOMAIN b : b[d] \in Nat
  BY AmountType
<1>2. DOMAIN c \subseteq Denoms /\ \A d \in DOMAIN c : c[d] \in Nat \ {0} BY SubkeyAssumption
<1>3. \A d \in DOMAIN c : d \in DOMAIN b /\ b[d] >= c[d] BY DEF Covers
<1>4. \A d \in Denoms : Amount(c, d) \in Nat BY <1>2 DEF Amount
<1>5. ASSUME NEW d \in DOMAIN b PROVE b[d] - Amount(c, d) \in Nat
  BY <1>1, <1>2, <1>3 DEF Amount
<1>6. l \in [D -> Nat] BY <1>5
<1>7. l \in Balances
  <2>1. D \in SUBSET Denoms BY <1>1
  <2> HIDE DEF D, l
  <2> QED BY <1>6, <2>1, IsBalance
<1>8. ASSUME NEW d \in Denoms PROVE Amount(l, d) = Amount(b, d) - Amount(c, d)
  <2>1. CASE d \in D BY <2>1 DEF Amount
  <2>2. CASE d \notin DOMAIN b
    <3>1. d \notin DOMAIN c /\ d \notin D BY <1>3, <2>2
    <3> QED BY <2>2, <3>1 DEF Amount
  <2>3. CASE d \in DOMAIN b /\ d \notin D
    <3>1. d \in DOMAIN c /\ b[d] = c[d] BY <2>3
    <3>2. b[d] \in Nat BY <1>1, <2>3
    <3> QED BY <2>3, <3>1, <3>2 DEF Amount
  <2> QED BY <2>1, <2>2, <2>3
<1> QED BY <1>4, <1>7, <1>8 DEF Less

LEMMA PlusCoin ==
  ASSUME NEW b \in Balances, NEW coin \in Grants
  PROVE  /\ Plus(b, coin) \in Balances
         /\ DOMAIN Plus(b, coin) = DOMAIN b \cup {coin.denom}
         /\ \A d \in Denoms : Amount(Plus(b, coin), d)
              = Amount(b, d) + (IF d = coin.denom THEN coin.amount ELSE 0)
<1> DEFINE D == DOMAIN b \cup {coin.denom}
           p == [d \in D |-> Amount(b, d) + (IF d = coin.denom THEN coin.amount ELSE 0)]
<1>1. coin.denom \in Denoms /\ coin.amount \in Nat BY SubkeyAssumption
<1>2. DOMAIN b \in SUBSET Denoms /\ \A d \in Denoms : Amount(b, d) \in Nat BY AmountType
<1>3. p \in [D -> Nat] /\ DOMAIN p = D BY <1>1, <1>2
<1>4. p \in Balances
  <2>1. D \in SUBSET Denoms BY <1>1, <1>2
  <2> HIDE DEF D, p
  <2> QED BY <1>3, <2>1, IsBalance
<1>5. ASSUME NEW d \in Denoms
      PROVE  Amount(p, d) = Amount(b, d) + (IF d = coin.denom THEN coin.amount ELSE 0)
  <2>1. CASE d \in D BY <2>1 DEF Amount
  <2>2. CASE d \notin D BY <2>2 DEF Amount
  <2> QED BY <2>1, <2>2
<1> QED BY <1>3, <1>4, <1>5 DEF Plus

LEMMA LessCoin ==
  ASSUME NEW b \in Balances, NEW coin \in Grants
  PROVE  /\ LessAtMost(b, coin) \in Balances
         /\ \A d \in Denoms : Amount(LessAtMost(b, coin), d) <= Amount(b, d)
<1> DEFINE D == {e \in DOMAIN b : e = coin.denom => b[e] > coin.amount}
           l == [d \in D |-> IF d = coin.denom THEN b[d] - coin.amount ELSE b[d]]
<1>1. coin.denom \in Denoms /\ coin.amount \in Nat BY SubkeyAssumption
<1>2. /\ DOMAIN b \in SUBSET Denoms
      /\ \A d \in DOMAIN b : b[d] \in Nat
      /\ \A d \in Denoms : Amount(b, d) \in Nat
  BY AmountType
<1>3. l \in [D -> Nat] /\ \A d \in D : l[d] <= b[d] BY <1>1, <1>2
<1>4. l \in Balances
  <2>1. D \in SUBSET Denoms BY <1>1, <1>2
  <2> HIDE DEF D, l
  <2> QED BY <1>3, <2>1, IsBalance
<1>5. ASSUME NEW d \in Denoms PROVE Amount(l, d) <= Amount(b, d)
  <2>1. CASE d \in D
    <3>1. l[d] <= b[d] /\ d \in DOMAIN b /\ d \in DOMAIN l BY <1>3, <2>1
    <3> HIDE DEF l, D
    <3> QED BY <3>1 DEF Amount
  <2>2. CASE d \notin D
    <3>1. Amount(l, d) = 0 BY <2>2 DEF Amount
    <3> QED BY <1>2, <3>1
  <2> QED BY <2>1, <2>2
<1> QED BY <1>4, <1>5 DEF LessAtMost

-----------------------------------------------------------------------------
(* The checks of one call.                                                 *)
LEMMA MessageType ==
  ASSUME NEW msg \in Messages
  PROVE  /\ msg.kind = "bank" => msg.coins \in Payments
         /\ msg.kind # "bank" => msg.kind \in Permissions \cup {"other"}
BY DEF Messages, Permissions

IsChecked(after, sender, msgs) ==
  after = [i \in 0..Len(msgs) |->
             IF i = 0 THEN allowances[sender] ELSE Checked(sender, after[i - 1], msgs[i])]

LEMMA CallType ==
  ASSUME NEW msgs \in Calls
  PROVE  Len(msgs) \in Nat \ {0} /\ \A i \in 1..Len(msgs) : msgs[i] \in Messages
<1>1. PICK n \in 1..MaxMsgs : msgs \in [1..n -> Messages] BY DEF Calls
<1>2. n \in Nat \ {0} OBVIOUS
<1>3. Len(msgs) = n
  <2> HIDE DEF Messages
  <2> QED BY <1>1, <1>2, FunctionIsSeq
<1> QED BY <1>1, <1>2, <1>3

(* The fold over the messages is defined: by the first place where it      *)
(* would not be.                                                           *)
LEMMA CheckedExists ==
  ASSUME NEW sender, NEW msgs, Len(msgs) \in Nat
  PROVE  \E after : IsChecked(after, sender, msgs)
<1> DEFINE Upto(f, n) == f = [i \in 0..n |->
             IF i = 0 THEN allowances[sender] ELSE Checked(sender, f[i - 1], msgs[i])]
           Bad == {n \in 0..Len(msgs) : ~ \E f : Upto(f, n)}
<1>1. SUFFICES ASSUME Bad # {} PROVE FALSE
  <2>1. Len(msgs) \in 0..Len(msgs) OBVIOUS
  <2>2. \E f : Upto(f, Len(msgs))
    <3> HIDE DEF Upto
    <3> QED BY <1>1, <2>1
  <2> QED BY <2>2 DEF IsChecked
<1>2. PICK n \in Bad : \A m \in Bad : n <= m
  <2>1. Bad \in SUBSET (0..Len(msgs)) OBVIOUS
  <2> HIDE DEF Bad
  <2> QED BY <1>1, <2>1, LeastIndex
<1>3. n \in 0..Len(msgs) /\ ~ \E f : Upto(f, n)
  <2> HIDE DEF Upto
  <2> QED BY <1>2
<1>4. CASE n = 0
  <2> DEFINE f == [i \in 0..0 |-> allowances[sender]]
  <2>1. Upto(f, 0)
    <3>1. \A i \in 0..0 : i = 0 OBVIOUS
    <3> QED BY <3>1
  <2> HIDE DEF Upto, f
  <2> QED BY <1>3, <1>4, <2>1
<1>5. CASE n # 0
  <2>1. n - 1 \in 0..Len(msgs) /\ ~ (n <= n - 1) /\ n \in Nat BY <1>3, <1>5
  <2>2. PICK f : Upto(f, n - 1)
    <3> HIDE DEF Upto
    <3>1. n - 1 \notin Bad BY <1>2, <2>1
    <3> QED BY <2>1, <3>1
  <2> DEFINE g == [i \in 0..n |-> IF i = n THEN Checked(sender, f[n - 1], msgs[n]) ELSE f[i]]
  <2>3. ASSUME NEW i \in 0..n
        PROVE  g[i] = IF i = 0 THEN allowances[sender] ELSE Checked(sender, g[i - 1], msgs[i])
    <3>1. CASE i = n
      <4>1. g[i - 1] = f[n - 1] BY <1>5, <2>1, <3>1
      <4> QED BY <1>5, <3>1, <4>1
    <3>2. CASE i # n
      <4>1. i \in 0..(n - 1) BY <2>1, <3>2
      <4>2. f[i] = IF i = 0 THEN allowances[sender] ELSE Checked(sender, f[i - 1], msgs[i])
        BY <2>2, <4>1
      <4>3. i # 0 => g[i - 1] = f[i - 1] BY <2>1, <4>1
      <4> QED BY <3>2, <4>2, <4>3
    <3> QED BY <3>1, <3>2
  <2>4. Upto(g, n)
    <3>1. g = [i \in 0..n |-> g[i]] OBVIOUS
    <3> HIDE DEF g
    <3> QED BY <2>3, <3>1
  <2> HIDE DEF Upto, g
  <2> QED BY <1>3, <2>4
<1> QED BY <1>4, <1>5

LEMMA AfterChecksIs ==
  ASSUME NEW sender, NEW msgs, Len(msgs) \in Nat
  PROVE  \E after : /\ IsChecked(after, sender, msgs)
                    /\ AfterChecks(sender, msgs) = after[Len(msgs)]
<1> DEFINE after == CHOOSE f : IsChecked(f, sender, msgs)
<1>1. IsChecked(after, sender, msgs)
  <2>1. \E f : IsChecked(f, sender, msgs) BY CheckedExists
  <2> QED BY <2>1
<1>2. AfterChecks(sender, msgs) = after[Len(msgs)] BY DEF AfterChecks, IsChecked
<1> QED BY <1>1, <1>2

(* What the first messages of a call pay in one denomination.              *)
Cost(msgs, d) == [i \in 1..Len(msgs) |-> IF msgs[i].kind = "bank" THEN Amount(msgs[i].coins, d) ELSE 0]
PaidBy(msgs, d, n) == Total([i \in 1..n |-> Cost(msgs, d)[i]])

LEMMA CostType ==
  ASSUME NEW msgs \in Calls, NEW d \in Denoms
  PROVE  Cost(msgs, d) \in [1..Len(msgs) -> Nat]
<1>1. ASSUME NEW i \in 1..Len(msgs), msgs[i].kind = "bank" PROVE Amount(msgs[i].coins, d) \in Nat
  <2>1. msgs[i].coins \in Payments BY <1>1, CallType, MessageType
  <2>2. \A e \in DOMAIN msgs[i].coins : msgs[i].coins[e] \in Nat \ {0}
    BY <2>1, SubkeyAssumption
  <2> QED BY <2>2 DEF Amount
<1> QED BY <1>1 DEF Cost

LEMMA PaidByStep ==
  ASSUME NEW msgs \in Calls, NEW d \in Denoms
  PROVE  /\ PaidBy(msgs, d, 0) = 0
         /\ \A n \in 0..Len(msgs) : PaidBy(msgs, d, n) \in Nat
         /\ \A n \in 1..Len(msgs) : PaidBy(msgs, d, n) = PaidBy(msgs, d, n - 1) + Cost(msgs, d)[n]
         /\ PaidBy(msgs, d, Len(msgs)) = Paid(msgs, d)
<1> DEFINE c == Cost(msgs, d)
           f(n) == [i \in 1..n |-> c[i]]
<1>1. Len(msgs) \in Nat /\ c \in [1..Len(msgs) -> Nat] BY CallType, CostType
<1>2. c = [i \in 1..Len(msgs) |-> IF msgs[i].kind = "bank" THEN Amount(msgs[i].coins, d) ELSE 0]
  BY DEF Cost
<1> HIDE DEF c
<1>3. ASSUME NEW n \in 0..Len(msgs) PROVE IsFiniteSet(1..n) /\ f(n) \in [1..n -> Nat]
  <2>1. n \in Nat /\ \A i \in 1..n : i \in 1..Len(msgs) BY <1>1
  <2>2. IsFiniteSet(1..n) BY <2>1, FS_Interval
  <2>3. f(n) \in [1..n -> Nat] BY <1>1, <2>1
  <2> QED BY <2>2, <2>3
<1>4. f(0) \in [1..0 -> Nat] /\ \A i \in 1..0 : f(0)[i] = 0 OBVIOUS
<1>5. Total(f(0)) = 0
  <2> HIDE DEF f
  <2> QED BY <1>4, TotalZero
<1>6. ASSUME NEW n \in 0..Len(msgs) PROVE Total(f(n)) \in Nat
  <2> HIDE DEF f
  <2> QED BY <1>3, TotalType
<1>7. ASSUME NEW n \in 1..Len(msgs) PROVE Total(f(n)) = Total(f(n - 1)) + c[n]
  <2>1. n - 1 \in 0..Len(msgs) /\ n \in 0..Len(msgs) /\ n \notin 1..(n - 1)
        /\ 1..n = 1..(n - 1) \cup {n}
    BY <1>1
  <2>2. n \in Nat \ {0} BY <1>1
  <2>3. f(n)[n] = c[n] /\ \A i \in 1..(n - 1) : f(n)[i] = f(n - 1)[i] BY <2>1
  <2>4. f(n) \in [1..n -> Nat] /\ f(n - 1) \in [1..(n - 1) -> Nat] BY <1>3, <2>1
  <2> HIDE DEF f
  <2>5. Total(f(n)) = Total(f(n - 1)) + f(n)[n] BY <2>2, <2>3, <2>4, TotalOfSequence
  <2> QED BY <2>3, <2>5
<1>8. f(Len(msgs)) = c BY <1>1
<1>9. \A n : PaidBy(msgs, d, n) = Total(f(n)) BY DEF PaidBy, c
<1>10. Paid(msgs, d) = Total(c) BY <1>2 DEF Paid
<1> HIDE DEF f
<1> QED BY <1>1, <1>5, <1>6, <1>7, <1>8, <1>9, <1>10 DEF c

(* Message by message, what is left of the allowance and what was paid     *)
(* make up the allowance the call began with.                              *)
Settled(left, sender, paid) ==
  LET allow == allowances[sender] IN
  IF Usable(allow)
  THEN /\ left \in Allowance /\ left.expires = allow.expires
       /\ \A d \in Denoms : Amount(left.balance, d) + paid[d] = Amount(allow.balance, d)
  ELSE left = allow /\ \A d \in Denoms : paid[d] = 0

LEMMA UsableType ==
  ASSUME IInv, NEW a \in Addr, Usable(allowances[a])
  PROVE  allowances[a] \in Allowance
BY DEF IInv, Entries, Usable

LEMMA CheckSettles ==
  ASSUME IInv, NEW sender \in Addr, NEW msg \in Messages, NEW left, NEW paid \in [Denoms -> Nat],
         NEW next, next = Checked(sender, left, msg), next # Rejected,
         Settled(left, sender, paid),
         NEW more \in [Denoms -> Nat],
         \A d \in Denoms : more[d] = paid[d] + (IF msg.kind = "bank" THEN Amount(msg.coins, d) ELSE 0)
  PROVE  left # Rejected /\ Settled(next, sender, more)
<1> DEFINE allow == allowances[sender]
<1>1. left # Rejected BY DEF Checked
<1>2. CASE msg.kind # "bank"
  <2>1. next = left BY <1>1, <1>2 DEF Checked
  <2>2. \A d \in Denoms : more[d] = paid[d] BY <1>2
  <2> QED BY <1>1, <2>1, <2>2 DEF Settled
<1>3. CASE msg.kind = "bank"
  <2>1. /\ Usable(left) /\ Covers(left.balance, msg.coins)
        /\ next = [left EXCEPT !.balance = Less(left.balance, msg.coins)]
    BY <1>1, <1>3 DEF Checked
  <2>2. Usable(allow) BY <2>1 DEF Settled
  <2>3. /\ left \in Allowance /\ left.expires = allow.expires
        /\ \A d \in Denoms : Amount(left.balance, d) + paid[d] = Amount(allow.balance, d)
    BY <2>2 DEF Settled
  <2>4. msg.coins \in Payments BY <1>3, MessageType
  <2>5. left.balance \in Balances BY <2>3 DEF Allowance
  <2>6. /\ Less(left.balance, msg.coins) \in Balances
        /\ \A d \in Denoms : /\ Amount(msg.coins, d) \in Nat
             /\ Amount(Less(left.balance, msg.coins), d) = Amount(left.balance, d) - Amount(msg.coins, d)
    BY <2>1, <2>4, <2>5, LessCoins
  <2>7. /\ next \in Allowance /\ next.expires = left.expires
        /\ next.balance = Less(left.balance, msg.coins)
    BY <2>1, <2>3, <2>6 DEF Allowance
  <2>8. ASSUME NEW d \in Denoms PROVE Amount(next.balance, d) + more[d] = Amount(allow.balance, d)
    <3>1. Amount(left.balance, d) \in Nat BY <2>5, AmountType
    <3>2. more[d] = paid[d] + Amount(msg.coins, d) BY <1>3
    <3>3. paid[d] \in Nat /\ Amount(msg.coins, d) \in Nat BY <2>6
    <3>4. Amount(next.balance, d) = Amount(left.balance, d) - Amount(msg.coins, d) BY <2>6, <2>7
    <3>5. Amount(left.balance, d) + paid[d] = Amount(allow.balance, d) BY <2>3
    <3> HIDE DEF allow
    <3> QED BY <3>1, <3>2, <3>3, <3>4, <3>5
  <2> QED BY <1>1, <2>2, <2>3, <2>7, <2>8 DEF Settled
<1> QED BY <1>2, <1>3

(* A call that is accepted has taken exactly what it pays.                 *)
LEMMA CallSettles ==
  ASSUME IInv, NEW sender \in Addr, NEW msgs \in Calls, AfterChecks(sender, msgs) # Rejected
  PROVE  Settled(AfterChecks(sender, msgs), sender, [d \in Denoms |-> Paid(msgs, d)])
<1> DEFINE N == Len(msgs)
           paid(n) == [d \in Denoms |-> PaidBy(msgs, d, n)]
<1>1. N \in Nat \ {0} /\ \A i \in 1..N : msgs[i] \in Messages BY CallType
<1>2. PICK after : IsChecked(after, sender, msgs) /\ AfterChecks(sender, msgs) = after[N]
  BY <1>1, AfterChecksIs
<1>3. /\ after[0] = allowances[sender]
      /\ \A i \in 1..N : after[i] = Checked(sender, after[i - 1], msgs[i])
  <2>1. \A i \in 0..N : after[i] = IF i = 0 THEN allowances[sender]
                                   ELSE Checked(sender, after[i - 1], msgs[i])
    BY <1>2 DEF IsChecked
  <2>2. 0 \in 0..N /\ \A i \in 1..N : i \in 0..N /\ i # 0 BY <1>1
  <2> HIDE DEF N
  <2> QED BY <2>1, <2>2
<1>4. /\ \A n \in 0..N : paid(n) \in [Denoms -> Nat]
      /\ \A d \in Denoms : paid(0)[d] = 0
      /\ \A n \in 1..N : \A d \in Denoms : paid(n)[d] = paid(n - 1)[d] +
            (IF msgs[n].kind = "bank" THEN Amount(msgs[n].coins, d) ELSE 0)
      /\ paid(N) = [d \in Denoms |-> Paid(msgs, d)]
  BY PaidByStep DEF Cost
<1> DEFINE Good(n) == after[n] # Rejected => Settled(after[n], sender, paid(n))
           Bad == {n \in 0..N : ~ Good(n)}
<1> HIDE DEF paid
<1>5. SUFFICES ASSUME Bad # {} PROVE FALSE
  <2>1. N \in 0..N BY <1>1
  <2>2. Good(N)
    <3> HIDE DEF Good
    <3> QED BY <1>5, <2>1
  <2> QED BY <1>2, <1>4, <2>2
<1>6. PICK n \in Bad : \A m \in Bad : n <= m
  <2>1. Bad \in SUBSET (0..N) /\ N \in Nat BY <1>1
  <2> HIDE DEF Bad, N
  <2> QED BY <1>5, <2>1, LeastIndex
<1>7. n \in 0..N /\ ~ Good(n)
  <2> HIDE DEF Good
  <2> QED BY <1>6
<1>8. CASE n = 0
  <2>1. Settled(after[0], sender, paid(0))
    <3>1. CASE Usable(allowances[sender])
      <4>1. allowances[sender] \in Allowance BY <3>1, UsableType
      <4>2. \A d \in Denoms : Amount(allowances[sender].balance, d) \in Nat
        BY <4>1, AmountType DEF Allowance
      <4> QED BY <1>3, <1>4, <3>1, <4>1, <4>2 DEF Settled
    <3>2. CASE ~ Usable(allowances[sender]) BY <1>3, <1>4, <3>2 DEF Settled
    <3> QED BY <3>1, <3>2
  <2> QED BY <1>7, <1>8, <2>1
<1>9. CASE n # 0
  <2>1. n \in 1..N /\ n - 1 \in 0..N /\ ~ (n <= n - 1) BY <1>1, <1>7, <1>9
  <2>2. Good(n - 1)
    <3> HIDE DEF Good
    <3> QED BY <1>6, <2>1
  <2>3. msgs[n] \in Messages BY <1>1, <2>1
  <2>4. paid(n - 1) \in [Denoms -> Nat] /\ paid(n) \in [Denoms -> Nat] BY <1>4, <2>1, <1>7
  <2>5. after[n] = Checked(sender, after[n - 1], msgs[n]) /\ after[n] # Rejected
    BY <1>3, <1>7, <2>1
  <2>6. after[n - 1] # Rejected BY <2>5 DEF Checked
  <2>7. Settled(after[n - 1], sender, paid(n - 1)) BY <2>2, <2>6
  <2>8. \A d \in Denoms : paid(n)[d] = paid(n - 1)[d] +
          (IF msgs[n].kind = "bank" THEN Amount(msgs[n].coins, d) ELSE 0)
    BY <1>4, <2>1
  <2>9. Settled(after[n], sender, paid(n)) BY <2>3, <2>4, <2>5, <2>7, <2>8, CheckSettles
  <2> QED BY <1>7, <2>9
<1> QED BY <1>8, <1>9

-----------------------------------------------------------------------------
(* Each message keeps the invariant.                                       *)
LEMMA IInvImplies == IInv => TypeOK /\ SpentWithinGrants
<1> SUFFICES ASSUME Entries, Rest PROVE TypeOK /\ SpentWithinGrants BY DEF IInv
<1>1. ASSUME NEW a \in Addr, allowances[a] # None
      PROVE  /\ allowances[a].balance \in [DOMAIN allowances[a].balance -> Nat]
             /\ DOMAIN allowances[a].balance \subseteq Denoms
             /\ allowances[a].expires \in Nat \cup {Never}
  <2>1. allowances[a] \in Allowance BY <1>1 DEF Entries
  <2>2. allowances[a].balance \in Balances /\ allowances[a].expires \in Nat \cup {Never}
    BY <2>1 DEF Allowance
  <2> QED BY <2>2, AmountType
<1>2. SpentWithinGrants BY DEF Entries, SpentWithinGrants, Left
<1>3. TypeOK BY <1>1 DEF TypeOK, Entries, Rest
<1> QED BY <1>2, <1>3

LEMMA LeftType ==
  ASSUME Entries, NEW a \in Addr, NEW d \in Denoms
  PROVE  Left(a, d) \in Nat
<1>1. CASE Usable(allowances[a])
  <2>1. allowances[a] \in Allowance BY <1>1 DEF Entries, Usable
  <2>2. allowances[a].balance \in Balances BY <2>1 DEF Allowance
  <2> QED BY <1>1, <2>2, AmountType DEF Left
<1>2. CASE ~ Usable(allowances[a]) BY <1>2 DEF Left
<1> QED BY <1>1, <1>2

LEMMA InitIInv == Init => IInv
<1> SUFFICES ASSUME Init PROVE IInv OBVIOUS
<1>1. Rest
  <2>1. PICK list \in AdminLists, can_change \in BOOLEAN : instantiate(list, can_change) BY DEF Init
  <2>2. admins \subseteq Addr /\ mutable \in BOOLEAN BY <2>1, AdminAssumption DEF instantiate
  <2> QED BY <2>2 DEF Init, Rest
<1>2. Entries
  <2>1. \A a \in Addr : ~ Usable(allowances[a]) BY DEF Init, Usable
  <2>2. \A a \in Addr, d \in Denoms : spent[a][d] = 0 /\ granted[a][d] = 0 /\ Left(a, d) = 0
    BY <2>1 DEF Init, Left
  <2> QED BY <2>2 DEF Init, Entries
<1> QED BY <1>1, <1>2 DEF IInv

(* One account's allowance, grants and spending change, or less of them is *)
(* left.                                                                   *)
LEMMA EntryKeeps ==
  ASSUME Entries, NEW s \in Addr, UNCHANGED height,
         NEW r \in Allowance \cup {None}, allowances' = [allowances EXCEPT ![s] = r],
         NEW g \in [Denoms -> Nat], granted' = [granted EXCEPT ![s] = g],
         NEW p \in [Denoms -> Nat], spent' = [spent EXCEPT ![s] = p],
         \A d \in Denoms : p[d] + (IF Usable(r) THEN Amount(r.balance, d) ELSE 0) <= g[d]
  PROVE  Entries'
<1>1. /\ allowances' \in [Addr -> Allowance \cup {None}]
      /\ granted' \in [Addr -> [Denoms -> Nat]] /\ spent' \in [Addr -> [Denoms -> Nat]]
  BY DEF Entries
<1>2. ASSUME NEW a \in Addr, NEW d \in Denoms
      PROVE  spent'[a][d] + Left(a, d)' <= granted'[a][d]
  <2>1. \A x : Usable(x)' <=> Usable(x) BY DEF Usable, is_expired
  <2>2. CASE a = s
    <3>1. allowances'[a] = r /\ spent'[a] = p /\ granted'[a] = g BY <2>2 DEF Entries
    <3>2. Left(a, d)' = IF Usable(r) THEN Amount(r.balance, d) ELSE 0
      BY <2>1, <3>1 DEF Left
    <3> QED BY <3>1, <3>2
  <2>3. CASE a # s
    <3>1. allowances'[a] = allowances[a] /\ spent'[a] = spent[a] /\ granted'[a] = granted[a]
      BY <2>3 DEF Entries
    <3>2. Left(a, d)' = Left(a, d) BY <2>1, <3>1 DEF Left
    <3> QED BY <3>1, <3>2 DEF Entries
  <2> QED BY <2>2, <2>3
<1> QED BY <1>1, <1>2 DEF Entries

(* A whole call: what is paid comes out of the allowance.                  *)
LEMMA ExecuteKeeps ==
  ASSUME IInv, NEW sender \in Addr, NEW msgs \in Calls, execute_execute(sender, msgs)
  PROVE  IInv'
<1>1. Entries /\ Rest BY DEF IInv
<1>2. Rest' BY <1>1 DEF execute_execute, Rest, adminVars
<1>3. CASE is_admin(sender)
  <2>1. UNCHANGED <<allowances, spent, granted, height>> BY <1>3 DEF execute_execute
  <2>2. Entries' BY <1>1, <2>1 DEF Entries, Left, Usable, is_expired
  <2> QED BY <1>2, <2>2 DEF IInv
<1>4. CASE ~ is_admin(sender)
  <2> DEFINE r == AfterChecks(sender, msgs)
             g == granted[sender]
             p == [d \in Denoms |-> spent[sender][d] + Paid(msgs, d)]
             allow == allowances[sender]
  <2>1. /\ r # Rejected /\ UNCHANGED <<granted, height>>
        /\ allowances' = [allowances EXCEPT ![sender] = r]
        /\ spent' = [spent EXCEPT ![sender] = p]
    BY <1>4 DEF execute_execute, Accepts
  <2>2. Settled(r, sender, [d \in Denoms |-> Paid(msgs, d)]) BY <2>1, CallSettles
  <2>3. \A d \in Denoms : Paid(msgs, d) \in Nat
    <3>1. Len(msgs) \in 0..Len(msgs) BY CallType
    <3> QED BY <3>1, PaidByStep
  <2>4. g \in [Denoms -> Nat] /\ spent[sender] \in [Denoms -> Nat] BY <1>1 DEF Entries
  <2>5. p \in [Denoms -> Nat] BY <2>3, <2>4
  <2>6. granted' = [granted EXCEPT ![sender] = g] BY <1>1, <2>1 DEF Entries
  <2>7. allow \in Allowance \cup {None} BY <1>1 DEF Entries
  <2>8. r \in Allowance \cup {None} BY <2>2, <2>7 DEF Settled
  <2>9. ASSUME NEW d \in Denoms
        PROVE  p[d] + (IF Usable(r) THEN Amount(r.balance, d) ELSE 0) <= g[d]
    <3>1. /\ spent[sender][d] \in Nat /\ Paid(msgs, d) \in Nat /\ g[d] \in Nat
          /\ spent[sender][d] + Left(sender, d) <= g[d]
          /\ p[d] = spent[sender][d] + Paid(msgs, d)
      BY <1>1, <2>3, <2>4 DEF Entries
    <3>2. CASE Usable(allow)
      <4>1. r \in Allowance /\ Amount(r.balance, d) + Paid(msgs, d) = Amount(allow.balance, d)
        BY <2>2, <3>2 DEF Settled
      <4>2. Amount(r.balance, d) \in Nat BY <4>1, AmountType DEF Allowance
      <4>3. Left(sender, d) = Amount(allow.balance, d) BY <3>2 DEF Left
      <4> HIDE DEF r, g, p, allow
      <4> QED BY <3>1, <4>1, <4>2, <4>3
    <3>3. CASE ~ Usable(allow)
      <4>1. r = allow /\ Paid(msgs, d) = 0 BY <2>2, <3>3 DEF Settled
      <4>2. Left(sender, d) = 0 BY <3>3 DEF Left
      <4> QED BY <3>1, <3>3, <4>1, <4>2
    <3> QED BY <3>2, <3>3
  <2> HIDE DEF r, g, p, allow
  <2>10. Entries' BY <1>1, <2>1, <2>5, <2>4, <2>6, <2>8, <2>9, EntryKeeps DEF g
  <2> QED BY <1>2, <2>10 DEF IInv
<1> QED BY <1>3, <1>4

LEMMA GivenType ==
  ASSUME NEW coin \in Grants, NEW e \in Expirations \cup {Never, None}
  PROVE  /\ coin.denom \in Denoms /\ coin.amount \in Nat
         /\ e # None => e \in Nat \cup {Never}
BY SubkeyAssumption

LEMMA IncreaseKeeps ==
  ASSUME IInv, NEW sender \in Addr, NEW s \in Addr, NEW coin \in Grants,
         NEW e \in Expirations \cup {Never, None},
         execute_increase_allowance(sender, s, coin, e)
  PROVE  IInv'
<1>1. Entries /\ Rest BY DEF IInv
<1>2. Rest' BY <1>1 DEF execute_increase_allowance, Rest, adminVars
<1> DEFINE allow == allowances[s]
           old == IF Usable(allow) THEN allow ELSE Empty
           r == Renewed(s, coin, e)
           base == IF Usable(allow) THEN granted[s] ELSE spent[s]
           g == Plus(base, coin)
           p == spent[s]
<1>3. /\ UNCHANGED <<height, spent>>
      /\ allowances' = [allowances EXCEPT ![s] = r]
      /\ granted' = [granted EXCEPT ![s] = g]
  BY DEF execute_increase_allowance
<1>4. coin.denom \in Denoms /\ coin.amount \in Nat /\ (e # None => e \in Nat \cup {Never})
  BY GivenType
<1>5. old.balance \in Balances /\ old.expires \in Nat \cup {Never}
  <2>1. CASE Usable(allow)
    <3>1. allow \in Allowance BY <1>1, <2>1 DEF Entries, Usable
    <3> QED BY <2>1, <3>1 DEF Allowance
  <2>2. CASE ~ Usable(allow)
    <3>1. {} \in SUBSET Denoms /\ <<>> \in [{} -> Nat] OBVIOUS
    <3>2. <<>> \in Balances BY <3>1, IsBalance
    <3> QED BY <2>2, <3>2 DEF Empty
  <2> QED BY <2>1, <2>2
<1>6. r = [balance |-> Plus(old.balance, coin), expires |-> IF e = None THEN old.expires ELSE e]
  BY DEF Renewed
<1>7. r \in Allowance /\ r.balance = Plus(old.balance, coin)
  <2> HIDE DEF r, old
  <2>1. Plus(old.balance, coin) \in Balances BY <1>5, PlusCoin
  <2>2. (IF e = None THEN old.expires ELSE e) \in Nat \cup {Never} BY <1>4, <1>5
  <2> QED BY <1>6, <2>1, <2>2 DEF Allowance
<1>8. p \in [Denoms -> Nat] /\ granted[s] \in [Denoms -> Nat] BY <1>1 DEF Entries
<1>9. base \in [Denoms -> Nat] /\ base \in Balances
  <2>1. base \in [Denoms -> Nat] BY <1>8
  <2> HIDE DEF base
  <2>2. Denoms \in SUBSET Denoms OBVIOUS
  <2> QED BY <2>1, <2>2, IsBalance
<1> HIDE DEF base, old
<1>10. g \in [Denoms -> Nat] /\ \A d \in Denoms :
         g[d] = base[d] + (IF d = coin.denom THEN coin.amount ELSE 0)
  <2>1. g = [d \in Denoms |-> Amount(base, d) + (IF d = coin.denom THEN coin.amount ELSE 0)]
    BY <1>4, <1>9 DEF Plus
  <2>2. \A d \in Denoms : Amount(base, d) = base[d] /\ base[d] \in Nat BY <1>9 DEF Amount
  <2> QED BY <1>4, <2>1, <2>2
<1>11. ASSUME NEW d \in Denoms
       PROVE  p[d] + (IF Usable(r) THEN Amount(r.balance, d) ELSE 0) <= g[d]
  <2> DEFINE more == IF d = coin.denom THEN coin.amount ELSE 0
  <2>1. more \in Nat /\ p[d] \in Nat /\ base[d] \in Nat /\ g[d] = base[d] + more
    BY <1>4, <1>8, <1>9, <1>10
  <2>2. Amount(r.balance, d) = Amount(old.balance, d) + more /\ Amount(old.balance, d) \in Nat
    <3> HIDE DEF r
    <3>1. Amount(Plus(old.balance, coin), d) = Amount(old.balance, d) + more BY <1>5, PlusCoin
    <3> QED BY <1>5, <1>7, <3>1, AmountType
  <2>3. p[d] + Amount(old.balance, d) <= base[d]
    <3>1. CASE Usable(allow)
      <4>1. Left(s, d) = Amount(old.balance, d) BY <3>1 DEF Left, old
      <4>2. p[d] + Left(s, d) <= granted[s][d] BY <1>1 DEF Entries
      <4> QED BY <3>1, <4>1, <4>2 DEF base
    <3>2. CASE ~ Usable(allow)
      <4>1. Amount(old.balance, d) = 0 BY <3>2 DEF old, Empty, Amount
      <4> QED BY <2>1, <3>2, <4>1 DEF base
    <3> QED BY <3>1, <3>2
  <2> HIDE DEF more, r, g, p
  <2> QED BY <2>1, <2>2, <2>3
<1>12. spent' = [spent EXCEPT ![s] = p] BY <1>1, <1>3 DEF Entries
<1>13. UNCHANGED height /\ r \in Allowance \cup {None} BY <1>3, <1>7
<1> HIDE DEF r, g, p
<1>14. Entries' BY <1>1, <1>3, <1>8, <1>10, <1>11, <1>12, <1>13, EntryKeeps DEF p
<1> QED BY <1>2, <1>14 DEF IInv

LEMMA DecreaseKeeps ==
  ASSUME IInv, NEW sender \in Addr, NEW s \in Addr, NEW coin \in Grants,
         NEW e \in Expirations \cup {Never, None},
         execute_decrease_allowance(sender, s, coin, e)
  PROVE  IInv'
<1>1. Entries /\ Rest BY DEF IInv
<1>2. Rest' BY <1>1 DEF execute_decrease_allowance, Rest, adminVars
<1> DEFINE allow == allowances[s]
           balance == LessAtMost(allow.balance, coin)
           r == IF IsEmpty(balance) THEN None
                ELSE [balance |-> balance, expires |-> IF e = None THEN allow.expires ELSE e]
           g == granted[s]
           p == spent[s]
<1>3. /\ UNCHANGED <<height, granted, spent>> /\ Usable(allow)
      /\ allowances' = [allowances EXCEPT ![s] = r]
  BY DEF execute_decrease_allowance
<1>4. allow \in Allowance BY <1>1, <1>3 DEF Entries, Usable
<1>5. allow.balance \in Balances /\ allow.expires \in Nat \cup {Never} BY <1>4 DEF Allowance
<1>6. /\ balance \in Balances
      /\ \A d \in Denoms : Amount(balance, d) <= Amount(allow.balance, d)
  BY <1>5, LessCoin
<1>7. r \in Allowance \cup {None} BY <1>5, <1>6, GivenType DEF Allowance
<1>8. p \in [Denoms -> Nat] /\ g \in [Denoms -> Nat] BY <1>1 DEF Entries
<1>9. ASSUME NEW d \in Denoms
      PROVE  p[d] + (IF Usable(r) THEN Amount(r.balance, d) ELSE 0) <= g[d]
  <2>1. p[d] + Amount(allow.balance, d) <= g[d] /\ p[d] \in Nat /\ g[d] \in Nat
    BY <1>1, <1>3, <1>8 DEF Entries, Left
  <2>2. /\ Amount(allow.balance, d) \in Nat /\ Amount(balance, d) \in Nat
        /\ Amount(balance, d) <= Amount(allow.balance, d)
    BY <1>5, <1>6, AmountType
  <2>3. Usable(r) => r.balance = balance BY DEF Usable
  <2> HIDE DEF r, g, p, balance, allow
  <2> QED BY <2>1, <2>2, <2>3
<1>10. spent' = [spent EXCEPT ![s] = p] /\ granted' = [granted EXCEPT ![s] = g]
  BY <1>1, <1>3 DEF Entries
<1> HIDE DEF r, g, p
<1>11. Entries' BY <1>1, <1>3, <1>7, <1>8, <1>9, <1>10, EntryKeeps DEF g, p
<1> QED BY <1>2, <1>11 DEF IInv

(* Time only ends allowances. *)
LEMMA NextBlockKeeps == ASSUME IInv, NextBlock PROVE IInv'
<1>1. /\ height \in Nat /\ height' = height + 1
      /\ UNCHANGED <<admins, mutable, allowances, permissions, granted, spent>>
  BY DEF NextBlock, IInv, Rest, adminVars, subkeyVars
<1>2. Rest' BY <1>1 DEF IInv, Rest
<1>3. ASSUME NEW a \in Addr, NEW d \in Denoms
      PROVE  spent'[a][d] + Left(a, d)' <= granted'[a][d]
  <2>1. /\ spent[a][d] + Left(a, d) <= granted[a][d] /\ Left(a, d) \in Nat
        /\ spent[a][d] \in Nat /\ granted[a][d] \in Nat
    BY LeftType DEF IInv, Entries
  <2>2. Left(a, d)' = Left(a, d) \/ Left(a, d)' = 0
    <3>1. CASE Usable(allowances[a])' 
      <4>1. allowances[a] \notin {None, Rejected} /\ ~ is_expired(allowances[a].expires)'
        BY <1>1, <3>1 DEF Usable
      <4>2. allowances[a] \in Allowance BY <4>1 DEF IInv, Entries
      <4>3. allowances[a].expires \in Nat \cup {Never} BY <4>2 DEF Allowance
      <4>4. ~ is_expired(allowances[a].expires) BY <1>1, <4>1, <4>3 DEF is_expired
      <4>5. Usable(allowances[a]) BY <4>1, <4>4 DEF Usable
      <4> QED BY <1>1, <3>1, <4>5 DEF Left
    <3>2. CASE ~ Usable(allowances[a])' BY <3>2 DEF Left
    <3> QED BY <3>1, <3>2
  <2> QED BY <1>1, <2>1, <2>2
<1>4. Entries' BY <1>1, <1>3 DEF IInv, Entries
<1> QED BY <1>2, <1>4 DEF IInv

LEMMA NextIInv == IInv /\ [Next]_vars => IInv' /\ [~ mutable => UNCHANGED adminVars]_vars
<1> SUFFICES ASSUME IInv, [Next]_vars
    PROVE  IInv' /\ (~ mutable => UNCHANGED adminVars)
  OBVIOUS
<1>0. ASSUME Rest', UNCHANGED <<allowances, granted, spent, height>> PROVE IInv'
  BY <1>0 DEF IInv, Entries, Left, Usable, is_expired
<1>1. CASE \E sender \in Addr, msgs \in Calls : execute_execute(sender, msgs)
  BY <1>1, ExecuteKeeps DEF execute_execute
<1>2. CASE \E sender, spender \in Addr, coin \in Grants, expires \in Expirations \cup {Never, None} :
             execute_increase_allowance(sender, spender, coin, expires)
  BY <1>2, IncreaseKeeps DEF execute_increase_allowance
<1>3. CASE \E sender, spender \in Addr, coin \in Grants, expires \in Expirations \cup {Never, None} :
             execute_decrease_allowance(sender, spender, coin, expires)
  BY <1>3, DecreaseKeeps DEF execute_decrease_allowance
<1>4. CASE \E sender, spender \in Addr, perm \in PermissionSets :
             execute_set_permissions(sender, spender, perm)
  <2>1. PICK sender \in Addr, spender \in Addr, perm \in PermissionSets :
          execute_set_permissions(sender, spender, perm)
    BY <1>4
  <2>2. Rest' BY <2>1, SubkeyAssumption DEF execute_set_permissions, IInv, Rest, adminVars
  <2> QED BY <1>0, <2>1, <2>2 DEF execute_set_permissions
<1>5. CASE \E sender \in Addr : execute_freeze(sender) /\ UNCHANGED <<subkeyVars, height>>
  <2>1. mutable /\ Rest' /\ UNCHANGED <<allowances, granted, spent, height>>
    BY <1>5 DEF execute_freeze, can_modify, subkeyVars, IInv, Rest
  <2> QED BY <1>0, <2>1
<1>6. CASE \E sender \in Addr, list \in AdminLists :
             execute_update_admins(sender, list) /\ UNCHANGED <<subkeyVars, height>>
  <2>1. mutable /\ Rest' /\ UNCHANGED <<allowances, granted, spent, height>>
    BY <1>6, AdminAssumption DEF execute_update_admins, can_modify, subkeyVars, IInv, Rest
  <2> QED BY <1>0, <2>1
<1>7. CASE NextBlock BY <1>7, NextBlockKeeps DEF NextBlock
<1>8. CASE UNCHANGED vars
  <2>1. UNCHANGED adminVars /\ Rest' /\ UNCHANGED <<allowances, granted, spent, height>>
    BY <1>8 DEF vars, subkeyVars, adminVars, IInv, Rest
  <2> QED BY <1>0, <2>1
<1> QED BY <1>1, <1>2, <1>3, <1>4, <1>5, <1>6, <1>7, <1>8 DEF Next

(* A call of one message is checked once. *)
LEMMA OneMessage ==
  ASSUME NEW sender, NEW msg
  PROVE  AfterChecks(sender, <<msg>>) = Checked(sender, allowances[sender], msg)
<1>1. Len(<<msg>>) = 1 /\ <<msg>>[1] = msg OBVIOUS
<1>2. PICK after : /\ IsChecked(after, sender, <<msg>>)
                   /\ AfterChecks(sender, <<msg>>) = after[1]
  BY <1>1, AfterChecksIs
<1>3. \A i \in 0..1 : after[i] = IF i = 0 THEN allowances[sender]
                                 ELSE Checked(sender, after[i - 1], <<msg>>[i])
  BY <1>1, <1>2 DEF IsChecked
<1>4. after[0] = allowances[sender] BY <1>3
<1>5. after[1] = Checked(sender, after[0], msg) BY <1>1, <1>3
<1> QED BY <1>2, <1>4, <1>5

LEMMA QueriesAgree ==
  ASSUME IInv, NEW sender \in Addr, NEW msg \in Messages
  PROVE  /\ can_execute(sender, msg) <=> Accepts(sender, <<msg>>)
         /\ msg.kind = "bank" /\ DOMAIN msg.coins # {} /\ ~ is_admin(sender) =>
              (Covers(query_allowance(sender).balance, msg.coins) <=> Accepts(sender, <<msg>>))
<1> DEFINE allow == allowances[sender]
           next == Checked(sender, allow, msg)
<1>1. Accepts(sender, <<msg>>) <=> is_admin(sender) \/ next # Rejected
  BY OneMessage DEF Accepts
<1>2. allow # Rejected
  <2>1. allow \in Allowance \cup {None} BY DEF IInv, Entries
  <2>2. \A x \in Allowance : x.expires # None BY SubkeyAssumption DEF Allowance
  <2>3. Rejected.expires = None BY DEF Rejected
  <2>4. None # Rejected BY SubkeyAssumption
  <2> QED BY <2>1, <2>2, <2>3, <2>4
<1>3. CASE msg.kind = "bank"
  <2>1. next = IF Usable(allow) /\ Covers(allow.balance, msg.coins)
               THEN [allow EXCEPT !.balance = Less(allow.balance, msg.coins)] ELSE Rejected
    BY <1>2, <1>3 DEF Checked
  <2>2. ASSUME Usable(allow)
        PROVE  [allow EXCEPT !.balance = Less(allow.balance, msg.coins)] # Rejected
    <3> DEFINE left == [allow EXCEPT !.balance = Less(allow.balance, msg.coins)]
    <3>1. allow \in Allowance BY <2>2, UsableType
    <3>2. left.expires = allow.expires BY <3>1 DEF Allowance
    <3>3. allow.expires # None BY <3>1, SubkeyAssumption DEF Allowance
    <3>4. Rejected.expires = None BY DEF Rejected
    <3> QED BY <3>2, <3>3, <3>4
  <2>3. next # Rejected <=> Usable(allow) /\ Covers(allow.balance, msg.coins)
    <3> HIDE DEF next, allow
    <3> QED BY <2>1, <2>2
  <2>4. Usable(allow) <=> allow # None /\ ~ is_expired(allow.expires) BY <1>2 DEF Usable
  <2>5. msg.kind \notin permissions[sender]
    <3>1. permissions[sender] \in SUBSET Permissions BY DEF IInv, Rest
    <3> QED BY <1>3, <3>1 DEF Permissions
  <2>6. can_execute(sender, msg) <=> Accepts(sender, <<msg>>)
    BY <1>1, <1>3, <2>3, <2>4, <2>5 DEF can_execute
  <2>7. ASSUME DOMAIN msg.coins # {}
        PROVE  Covers(query_allowance(sender).balance, msg.coins)
                 <=> Usable(allow) /\ Covers(allow.balance, msg.coins)
    <3>1. CASE Usable(allow) BY <3>1 DEF query_allowance
    <3>2. CASE ~ Usable(allow)
      <4>1. query_allowance(sender).balance = <<>> BY <3>2 DEF query_allowance, Empty
      <4> QED BY <2>7, <3>2, <4>1 DEF Covers
    <3> QED BY <3>1, <3>2
  <2> QED BY <1>1, <2>3, <2>6, <2>7
<1>4. CASE msg.kind # "bank"
  <2>1. next = IF msg.kind \in permissions[sender] THEN allow ELSE Rejected
    BY <1>2, <1>4 DEF Checked
  <2>2. can_execute(sender, msg) <=> is_admin(sender) \/ msg.kind \in permissions[sender]
    BY <1>4 DEF can_execute
  <2> QED BY <1>1, <1>2, <1>4, <2>1, <2>2
<1> QED BY <1>3, <1>4

-----------------------------------------------------------------------------
(* Every message of the contract keeps the account of grants and spending. *)
THEOREM Invariance == Spec => []IInv
BY InitIInv, NextIInv, PTL DEF Spec

(* No call, whatever its messages, drives an allowance below zero.         *)
THEOREM TypeCorrect == Spec => []TypeOK
BY IInvImplies, Invariance, PTL

(* An account never spends more of a coin than it was granted, although a  *)
(* call deducts message by message, an increase renews an allowance that   *)
(* is over, and a decrease may take away more than is left.                *)
THEOREM SpendingTheorem == Spec => []SpentWithinGrants
BY IInvImplies, Invariance, PTL

(* The queries, which read the storage on their own, agree with Execute on *)
(* what an account may do, and the listing shows every usable allowance.   *)
THEOREM QueriesTheorem == Spec => []QueriesTellTheTruth
<1>1. IInv => QueriesTellTheTruth
  <2> SUFFICES ASSUME IInv PROVE QueriesTellTheTruth OBVIOUS
  <2> DEFINE Listed == {a \in Addr : Usable(allowances[a])}
  <2>1. AllowancesListed
    <3> SUFFICES ASSUME NEW limit \in 1..Cardinality(Addr)
        PROVE  Lists(LAMBDA start_after : query_all_allowances(start_after, limit), limit, Listed)
      BY DEF AllowancesListed
    <3>1. Listed \in SUBSET (Nat \ {0}) /\ IsFiniteSet(Listed) BY SubkeyAssumption, FS_Subset
    <3>2. limit \in Nat \ {0}
      <4>1. Cardinality(Addr) \in Nat BY SubkeyAssumption, FS_CardinalityType
      <4> QED BY <4>1
    <3>3. Lists(LAMBDA start_after : Page(Listed, start_after, limit), limit, Listed)
      BY <3>1, <3>2, PagesList
    <3> QED BY <3>3 DEF query_all_allowances
  <2> QED BY <2>1, QueriesAgree DEF QueriesTellTheTruth
<1> QED BY <1>1, Invariance, PTL

(* After a freeze no message changes the admins, or thaws the contract.    *)
THEOREM FrozenTheorem == Spec => FrozenForever
BY Invariance, NextIInv, PTL DEF Spec, FrozenForever
=============================================================================
