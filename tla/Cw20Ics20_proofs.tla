-------------------------- MODULE Cw20Ics20_proofs --------------------------
(***************************************************************************)
(* The bridge, for every set of channels, denominations and amounts, any   *)
(* number of packets, and chains at the other end that make vouchers up.   *)
(***************************************************************************)
EXTENDS Cw20Ics20, Data_proofs

(* The receiver is credited once a packet is delivered, and the sender     *)
(* once it is returned.                                                    *)
Credited(p) ==
  /\ p.receiver = One(p.progress = "delivered")
  /\ p.sender = One(p.progress = "returned")

(* Before the migration the storage is what an older version left.         *)
OldStorage ==
  ~ Ready => \E c \in Channels, d \in Denoms, n \in Amounts, given \in {0, 1} :
               n <= MaxU64 /\ old_storage(c, d, n, given)

ConfigOK ==
  /\ version \in {"v1", "v2", "v3"} /\ admin \in Admins
  /\ default_gas_limit \in GasLimit
  /\ allow_list \in [Tokens -> GasLimit \cup {NotListed}]
  /\ channels \subseteq Channels
  /\ CountedMayBeSent

BalanceOK ==
  /\ recorded \subseteq Keys
  /\ outstanding \in [Keys -> Nat] /\ total_sent \in [Keys -> Nat]
  /\ \A k \in Keys : /\ outstanding[k] <= total_sent[k]
                     /\ k \notin recorded => outstanding[k] = 0
  /\ escrow \in [Denoms -> Nat] /\ surplus \in [Denoms -> Nat]
  /\ EscrowAccounted

PacketsOK ==
  /\ packets \in Seq(PacketRecord) /\ vouchers \in [Keys -> Nat]
  /\ \A i \in Ids : Credited(packets[i])

IInv == ConfigOK /\ BalanceOK /\ PacketsOK /\ OldStorage

-----------------------------------------------------------------------------
(* Packets.                                                                *)
LEMMA PacketFields ==
  ASSUME PacketsOK, NEW i \in Ids
  PROVE  /\ packets[i] \in PacketRecord
         /\ Key(packets[i]) \in Keys /\ Key(packets[i])[2] = packets[i].denom
         /\ packets[i].denom \in Denoms /\ packets[i].amount \in Nat \ {0}
<1>1. packets[i] \in PacketRecord BY ElementOfSeq DEF PacketsOK, Ids
<1> QED BY <1>1 DEF PacketRecord, Key, Keys

Progresses == {"sent", "delivered", "refused", "returned", "stranded"}

(* What advancing packet i comes to. *)
Settled(i, g) ==
  [packets[i] EXCEPT !.progress = g, !.receiver = One(g = "delivered"),
                     !.sender = One(g = "returned")]

Advances(i, g) ==
  /\ packets[i].progress \in {"sent", "refused"}
  /\ packets' = Advanced(i, g, g = "delivered", g = "returned")

LEMMA AdvancedPacket ==
  ASSUME PacketsOK, NEW i \in Ids, NEW g \in Progresses, Advances(i, g)
  PROVE  /\ Settled(i, g) \in PacketRecord /\ Credited(Settled(i, g))
         /\ packets' = [packets EXCEPT ![i] = Settled(i, g)]
         /\ packets' \in Seq(PacketRecord) /\ Ids' = Ids
         /\ \A j \in Ids : packets'[j] = IF j = i THEN Settled(i, g) ELSE packets[j]
<1> DEFINE p == packets[i]
           q == Settled(i, g)
<1>1. p \in PacketRecord BY PacketFields
<1>2. p.receiver = 0 /\ p.sender = 0 BY DEF PacketsOK, Credited, One, Advances
<1>3. \A b \in BOOLEAN : One(b) \in Nat /\ 0 + One(b) = One(b) BY DEF One
<1>4. q \in PacketRecord BY <1>1, <1>3 DEF PacketRecord, Progresses, Settled
<1>5. Credited(q)
  <2>1. /\ q.progress = g /\ q.receiver = One(g = "delivered")
        /\ q.sender = One(g = "returned")
    BY <1>1 DEF PacketRecord, Settled
  <2> QED BY <2>1 DEF Credited
<1>6. packets' = [packets EXCEPT ![i] = q]
  BY <1>2, <1>3 DEF Advances, Advanced, Settled
<1> HIDE DEF q
<1>7. /\ packets' \in Seq(PacketRecord) /\ Len(packets') = Len(packets)
      /\ \A j \in Ids : packets'[j] = IF j = i THEN q ELSE packets[j]
  BY <1>4, <1>6, ExceptSeq DEF PacketsOK, Ids
<1> QED BY <1>4, <1>5, <1>6, <1>7 DEF q, Ids

LEMMA AdvanceKeeps ==
  ASSUME PacketsOK, NEW i \in Ids, NEW g \in Progresses, Advances(i, g),
         vouchers' \in [Keys -> Nat]
  PROVE  PacketsOK'
<1>1. \A j \in Ids' : Credited(packets'[j]) BY AdvancedPacket DEF PacketsOK
<1> QED BY <1>1, AdvancedPacket DEF PacketsOK, Credited

LEMMA NewPacket ==
  ASSUME NEW dir \in {"out", "in"}, NEW c \in Channels, NEW path \in Channels \cup {None},
         NEW d \in Denoms, NEW n \in Amounts
  PROVE  /\ Packet(dir, c, path, d, n) \in PacketRecord
         /\ Credited(Packet(dir, c, path, d, n))
         /\ Key(Packet(dir, c, path, d, n)) = <<c, d>>
BY Ics20Numbers DEF Packet, PacketRecord, Credited, One, Key

LEMMA AppendKeeps ==
  ASSUME PacketsOK, NEW p \in PacketRecord, Credited(p), packets' = Append(packets, p),
         vouchers' \in [Keys -> Nat]
  PROVE  PacketsOK'
<1>1. /\ packets' \in Seq(PacketRecord) /\ Len(packets') = Len(packets) + 1
      /\ \A i \in Ids : packets'[i] = packets[i]
      /\ packets'[Len(packets) + 1] = p
  BY AppendProperties DEF PacketsOK, Ids
<1>2. Len(packets) \in Nat BY DEF PacketsOK
<1>3. Ids' = Ids \cup {Len(packets) + 1} BY <1>1, <1>2 DEF Ids
<1>4. \A i \in Ids' : Credited(packets'[i]) BY <1>1, <1>3 DEF PacketsOK
<1> QED BY <1>1, <1>4 DEF PacketsOK, Credited

-----------------------------------------------------------------------------
(* Balances.  One entry of a channel changes, and the escrow of its        *)
(* denomination with it.                                                   *)
PerChannel(f, d) == [c \in Channels |-> f[<<c, d>>]]

LEMMA KeyParts ==
  ASSUME NEW k \in Keys
  PROVE  k[1] \in Channels /\ k[2] \in Denoms /\ k = <<k[1], k[2]>>
BY DEF Keys

LEMMA PerChannelUpdate ==
  \A f \in [Keys -> Nat], k \in Keys, v \in Nat, e \in Denoms :
    Total(PerChannel([f EXCEPT ![k] = v], e)) =
      IF e = k[2] THEN Total(PerChannel(f, e)) - f[k] + v ELSE Total(PerChannel(f, e))
<1> SUFFICES ASSUME NEW f \in [Keys -> Nat], NEW k \in Keys, NEW v \in Nat, NEW e \in Denoms
    PROVE  Total(PerChannel([f EXCEPT ![k] = v], e)) =
             IF e = k[2] THEN Total(PerChannel(f, e)) - f[k] + v ELSE Total(PerChannel(f, e))
  OBVIOUS
<1> DEFINE g == [f EXCEPT ![k] = v]
           h == PerChannel(f, e)
<1>1. h \in [Channels -> Nat] BY DEF PerChannel, Keys
<1>2. CASE e = k[2]
  <2>1. PerChannel(g, e) = [h EXCEPT ![k[1]] = v] BY <1>2, KeyParts DEF PerChannel, Keys
  <2>2. \A F \in [Channels -> Nat], x \in Channels, n \in Nat :
          Total([F EXCEPT ![x] = n]) = Total(F) - F[x] + n
    BY Ics20Sets, TotalUpdate
  <2>3. k[1] \in Channels /\ h[k[1]] = f[k] BY <1>2, KeyParts DEF PerChannel
  <2> HIDE DEF h
  <2>4. Total([h EXCEPT ![k[1]] = v]) = Total(h) - h[k[1]] + v BY <1>1, <2>2, <2>3, Zenon
  <2> QED BY <1>2, <2>1, <2>3, <2>4 DEF h
<1>3. CASE e # k[2]
  <2>1. PerChannel(g, e) = PerChannel(f, e) BY <1>3, KeyParts DEF PerChannel, Keys
  <2> QED BY <1>3, <2>1
<1> QED BY <1>2, <1>3

LEMMA OutstandingUpdate ==
  ASSUME outstanding \in [Keys -> Nat], NEW k \in Keys, NEW v \in Nat,
         outstanding' = [outstanding EXCEPT ![k] = v], NEW e \in Denoms
  PROVE  Total(PerChannel(outstanding', e)) =
           IF e = k[2] THEN Total(PerChannel(outstanding, e)) - outstanding[k] + v
           ELSE Total(PerChannel(outstanding, e))
<1>1. Total(PerChannel([outstanding EXCEPT ![k] = v], e)) =
        IF e = k[2] THEN Total(PerChannel(outstanding, e)) - outstanding[k] + v
        ELSE Total(PerChannel(outstanding, e))
  BY PerChannelUpdate, ZenonT(60)
<1> QED BY <1>1

LEMMA BalanceStep ==
  ASSUME BalanceOK, NEW k \in Keys, NEW d \in Denoms, d = k[2], NEW v \in Nat,
         recorded' = recorded \cup {k},
         outstanding' = [outstanding EXCEPT ![k] = v],
         total_sent' \in [Keys -> Nat], v <= total_sent'[k],
         \A j \in Keys : total_sent[j] <= total_sent'[j],
         escrow' \in [Denoms -> Nat], surplus' \in [Denoms -> Nat],
         \A e \in Denoms \ {d} : escrow'[e] = escrow[e] /\ surplus'[e] = surplus[e],
         escrow'[d] + surplus[d] + outstanding[k] = escrow[d] + surplus'[d] + v
  PROVE  BalanceOK'
<1>1. recorded' \subseteq Keys /\ outstanding' \in [Keys -> Nat] BY DEF BalanceOK
<1>2. ASSUME NEW j \in Keys
      PROVE  /\ outstanding'[j] <= total_sent'[j]
             /\ j \notin recorded' => outstanding'[j] = 0
  <2>1. /\ outstanding[j] \in Nat /\ total_sent[j] \in Nat /\ total_sent'[j] \in Nat
        /\ outstanding[j] <= total_sent[j] /\ total_sent[j] <= total_sent'[j]
        /\ j \notin recorded => outstanding[j] = 0
        /\ outstanding'[j] = IF j = k THEN v ELSE outstanding[j]
    BY DEF BalanceOK
  <2> QED BY <2>1
<1>3. ASSUME NEW e \in Denoms
      PROVE  escrow'[e] = Total(PerChannel(outstanding', e)) + surplus'[e]
  <2>1. outstanding \in [Keys -> Nat] BY DEF BalanceOK
  <2>2. Total(PerChannel(outstanding, e)) \in Nat
    <3>1. PerChannel(outstanding, e) \in [Channels -> Nat] BY <2>1 DEF PerChannel, Keys
    <3> QED BY <3>1, Ics20Sets, TotalType
  <2>3. escrow[e] = Total(PerChannel(outstanding, e)) + surplus[e]
    BY DEF BalanceOK, EscrowAccounted, PerChannel
  <2>4. Total(PerChannel(outstanding', e)) =
          IF e = d THEN Total(PerChannel(outstanding, e)) - outstanding[k] + v
          ELSE Total(PerChannel(outstanding, e))
    BY <2>1, OutstandingUpdate
  <2>5. /\ escrow[e] \in Nat /\ surplus[e] \in Nat /\ escrow'[e] \in Nat /\ surplus'[e] \in Nat
        /\ outstanding[k] \in Nat
    BY DEF BalanceOK
  <2>6. CASE e = d BY <2>2, <2>3, <2>4, <2>5, <2>6
  <2>7. CASE e # d BY <2>2, <2>3, <2>4, <2>5, <2>7
  <2> QED BY <2>6, <2>7
<1>4. EscrowAccounted' BY <1>3 DEF EscrowAccounted, PerChannel
<1> QED BY <1>1, <1>2, <1>4 DEF BalanceOK

LEMMA BalanceUnchanged ==
  BalanceOK /\ UNCHANGED <<recorded, outstanding, total_sent, escrow, surplus>> => BalanceOK'
BY DEF BalanceOK, EscrowAccounted

(* What is taken in, and what is paid or cannot be paid.                   *)
LEMMA IncreaseKeeps ==
  ASSUME BalanceOK, NEW k \in Keys, NEW d \in Denoms, d = k[2], NEW n \in Nat,
         increase_channel_balance(k, n),
         escrow' = [escrow EXCEPT ![d] = @ + n], UNCHANGED surplus
  PROVE  BalanceOK'
<1>2. /\ outstanding[k] \in Nat /\ total_sent[k] \in Nat
      /\ outstanding[k] <= total_sent[k] /\ escrow[d] \in Nat /\ surplus[d] \in Nat
  BY DEF BalanceOK
<1> DEFINE v == outstanding[k] + n
<1>3. /\ outstanding' = [outstanding EXCEPT ![k] = v] /\ recorded' = recorded \cup {k}
      /\ total_sent' = [total_sent EXCEPT ![k] = total_sent[k] + n]
  BY DEF increase_channel_balance
<1>4. total_sent \in [Keys -> Nat] BY DEF BalanceOK
<1>5. /\ total_sent' \in [Keys -> Nat] /\ v <= total_sent'[k] /\ v \in Nat
      /\ \A j \in Keys : total_sent[j] <= total_sent'[j]
  BY <1>2, <1>3, <1>4
<1>6. /\ escrow' \in [Denoms -> Nat] /\ surplus' \in [Denoms -> Nat] /\ escrow'[d] = escrow[d] + n
      /\ \A e \in Denoms \ {d} : escrow'[e] = escrow[e] /\ surplus'[e] = surplus[e]
  BY <1>2 DEF BalanceOK
<1>7. escrow'[d] + surplus[d] + outstanding[k] = escrow[d] + surplus'[d] + v
  BY <1>2, <1>6
<1> HIDE DEF v
<1> QED BY <1>3, <1>5, <1>6, <1>7, BalanceStep

LEMMA ReduceKeeps ==
  ASSUME BalanceOK, NEW k \in Keys, NEW d \in Denoms, d = k[2], NEW n \in Nat, NEW paid \in BOOLEAN,
         CanReduce(k, n), paid => CanPay(d, n),
         outstanding' = Reduced(k, n), UNCHANGED <<recorded, total_sent>>,
         escrow' = IF paid THEN [escrow EXCEPT ![d] = @ - n] ELSE escrow,
         surplus' = IF paid THEN surplus ELSE [surplus EXCEPT ![d] = @ + n]
  PROVE  BalanceOK'
<1>2. /\ outstanding[k] \in Nat /\ total_sent[k] \in Nat
      /\ outstanding[k] <= total_sent[k] /\ escrow[d] \in Nat /\ surplus[d] \in Nat
  BY DEF BalanceOK
<1> DEFINE v == outstanding[k] - n
<1>3. /\ outstanding' = [outstanding EXCEPT ![k] = v] /\ v \in Nat
      /\ recorded' = recorded \cup {k}
      /\ v <= total_sent'[k]
  BY <1>2 DEF CanReduce, Reduced
<1>4. total_sent' \in [Keys -> Nat] /\ \A j \in Keys : total_sent[j] <= total_sent'[j]
  BY DEF BalanceOK
<1>5. /\ escrow' \in [Denoms -> Nat] /\ surplus' \in [Denoms -> Nat]
      /\ \A e \in Denoms \ {d} : escrow'[e] = escrow[e] /\ surplus'[e] = surplus[e]
      /\ paid => escrow'[d] = escrow[d] - n /\ surplus'[d] = surplus[d]
      /\ ~ paid => escrow'[d] = escrow[d] /\ surplus'[d] = surplus[d] + n
  BY <1>2 DEF BalanceOK, CanPay
<1>6. escrow'[d] + surplus[d] + outstanding[k] = escrow[d] + surplus'[d] + v
  BY <1>2, <1>5
<1> HIDE DEF v
<1> QED BY <1>3, <1>4, <1>5, <1>6, BalanceStep

-----------------------------------------------------------------------------
(* Configuration.                                                          *)
LEMMA ConfigUnchanged == ConfigOK /\ UNCHANGED config /\ UNCHANGED recorded => ConfigOK'
BY DEF ConfigOK, config, CountedMayBeSent, MaySend

LEMMA ReadyStays == Ready /\ UNCHANGED version => OldStorage'
BY DEF OldStorage, Ready

(* What is taken in may be sent. *)
LEMMA TakenMayBeSent ==
  ASSUME NEW d \in Denoms, MayTransfer(d)
  PROVE  MaySend(d)
BY DEF MayTransfer, MaySend

LEMMA TakenConfig ==
  ASSUME ConfigOK, UNCHANGED config, NEW d \in Denoms, NEW c \in Channels, MayTransfer(d),
         recorded' = recorded \cup {<<c, d>>}
  PROVE  ConfigOK'
<1>1. \A k \in recorded' : MaySend(k[2]) BY TakenMayBeSent DEF ConfigOK, CountedMayBeSent
<1>2. \A k \in recorded' : MaySend(k[2])' BY <1>1 DEF config, MaySend
<1> QED BY <1>2 DEF ConfigOK, config, CountedMayBeSent

LEMMA AllowKeeps ==
  ASSUME IInv, NEW sender \in Admins, NEW token \in Tokens, NEW gas \in GasLimit,
         execute_allow(sender, token, gas)
  PROVE  IInv'
<1>1. UNCHANGED <<version, admin, default_gas_limit, channels, escrow, packets, vouchers, surplus>>
      /\ UNCHANGED balance /\ Ready
  BY DEF execute_allow
<1>2. allow_list' = [allow_list EXCEPT ![token] = gas] BY DEF execute_allow
<1>3. allow_list' \in [Tokens -> GasLimit \cup {NotListed}] BY <1>2 DEF IInv, ConfigOK
<1>4. \A d \in Tokens : allow_list[d] # NotListed => allow_list'[d] # NotListed
  BY <1>2, Ics20Values DEF IInv, ConfigOK
<1>5. CountedMayBeSent'
  BY <1>1, <1>4 DEF IInv, ConfigOK, CountedMayBeSent, MaySend, balance
<1>6. ConfigOK' BY <1>1, <1>3, <1>5 DEF IInv, ConfigOK
<1>7. BalanceOK' BY <1>1, BalanceUnchanged DEF IInv, balance
<1>8. PacketsOK' BY <1>1 DEF IInv, PacketsOK, Credited, Ids
<1> QED BY <1>1, <1>6, <1>7, <1>8, ReadyStays DEF IInv

-----------------------------------------------------------------------------
(* The storage of older versions, and its migration.                       *)
LEMMA OldBalances ==
  ASSUME NEW c \in Channels, NEW d \in Denoms, NEW n \in Amounts, NEW given \in {0, 1},
         old_storage(c, d, n, given)
  PROVE  /\ n \in Nat \ {0} /\ Len(packets) \in {0, 1}
         /\ recorded \subseteq {c} \X Denoms /\ recorded \subseteq Keys
         /\ outstanding \in [Keys -> Nat] /\ total_sent = outstanding
         /\ \A k \in Keys : outstanding[k] = IF k \in recorded THEN n ELSE 0
         /\ surplus \in [Denoms -> Nat] /\ escrow \in [Denoms -> Nat]
         /\ \A e \in Denoms : escrow[e] = outstanding[<<c, e>>] + surplus[e]
         /\ vouchers \in [Keys -> Nat]
<1>1. n \in Nat \ {0} BY Ics20Numbers
<1>2. Len(packets) \in {0, 1} BY DEF old_storage
<1>3. recorded \subseteq {c} \X Denoms /\ recorded \subseteq Keys BY DEF old_storage, Keys
<1>4. /\ outstanding = [k \in Keys |-> IF k \in recorded THEN n ELSE 0]
      /\ total_sent = outstanding
  BY DEF old_storage
<1>5. Len(packets) * n \in Nat
  <2>1. CASE Len(packets) = 0 BY <1>1, <2>1
  <2>2. CASE Len(packets) = 1 BY <1>1, <2>2
  <2> QED BY <1>2, <2>1, <2>2
<1>6. surplus \in [Denoms -> Nat]
  <2>1. surplus = [e \in Denoms |-> IF e = d THEN given + Len(packets) * n ELSE 0]
    BY DEF old_storage
  <2>2. given + Len(packets) * n \in Nat BY <1>5
  <2> QED BY <2>1, <2>2
<1>7. \A e \in Denoms : <<c, e>> \in Keys BY DEF Keys
<1>8. /\ escrow \in [Denoms -> Nat]
      /\ \A e \in Denoms : escrow[e] = outstanding[<<c, e>>] + surplus[e]
  <2>1. escrow = [e \in Denoms |-> outstanding[<<c, e>>] + surplus[e]] BY DEF old_storage
  <2> QED BY <1>1, <1>4, <1>6, <1>7, <2>1
<1>9. vouchers \in [Keys -> Nat] BY <1>1, <1>4 DEF old_storage
<1> QED BY <1>1, <1>2, <1>3, <1>4, <1>6, <1>8, <1>9

LEMMA OneChannel ==
  ASSUME NEW f \in [Keys -> Nat], NEW c \in Channels, NEW e \in Denoms,
         \A b \in Channels \ {c} : f[<<b, e>>] = 0
  PROVE  Total(PerChannel(f, e)) = f[<<c, e>>]
<1>1. PerChannel(f, e) \in [Channels -> Nat] BY DEF PerChannel, Keys
<1>2. /\ \A b \in Channels \ {c} : PerChannel(f, e)[b] = 0
      /\ PerChannel(f, e)[c] = f[<<c, e>>]
  BY DEF PerChannel
<1> HIDE DEF PerChannel
<1> QED BY <1>1, <1>2, Ics20Sets, TotalSingle

LEMMA OldIInv ==
  ASSUME NEW c \in Channels, NEW d \in Denoms, NEW n \in Amounts, NEW given \in {0, 1},
         n <= MaxU64, old_storage(c, d, n, given), admin \in Admins
  PROVE  IInv
<1>1. /\ version \in {"v1", "v2"} /\ default_gas_limit \in GasLimit
      /\ allow_list \in [Tokens -> GasLimit \cup {NotListed}] /\ channels \subseteq Channels
  BY DEF old_storage, GasLimit
<1>2. CountedMayBeSent
  <2>1. \A k \in recorded : MayTransfer(k[2]) /\ k[2] \in Denoms BY OldBalances DEF old_storage
  <2> QED BY <2>1, TakenMayBeSent DEF CountedMayBeSent
<1>3. EscrowAccounted
  <2>1. ASSUME NEW e \in Denoms PROVE escrow[e] = Total(PerChannel(outstanding, e)) + surplus[e]
    <3>1. \A b \in Channels \ {c} : outstanding[<<b, e>>] = 0 BY OldBalances DEF Keys
    <3>2. outstanding \in [Keys -> Nat] BY OldBalances
    <3>3. Total(PerChannel(outstanding, e)) = outstanding[<<c, e>>] BY <3>1, <3>2, OneChannel
    <3> QED BY <3>3, OldBalances
  <2> QED BY <2>1 DEF EscrowAccounted, PerChannel
<1>4. BalanceOK BY <1>3, OldBalances DEF BalanceOK
<1>5. PacketsOK
  <2>1. CASE packets = <<>> BY <2>1, OldBalances DEF PacketsOK, Ids
  <2>2. CASE packets = <<Packet("out", c, None, d, n)>>
    <3>1. Packet("out", c, None, d, n) \in PacketRecord /\ Credited(Packet("out", c, None, d, n))
      BY NewPacket
    <3> QED BY <2>2, <3>1, OldBalances DEF PacketsOK, Ids
  <2> QED BY <2>1, <2>2 DEF old_storage
<1>6. OldStorage BY DEF OldStorage
<1> QED BY <1>1, <1>2, <1>4, <1>5, <1>6 DEF IInv, ConfigOK

(* What the migration adds for a denomination is what the contract owns of *)
(* it and had counted nowhere.                                             *)
LEMMA MigratedBalances ==
  ASSUME NEW c \in Channels, NEW d \in Denoms, NEW n \in Amounts, NEW given \in {0, 1},
         old_storage(c, d, n, given), ~ Ready, NEW gas \in GasLimit, migrate(gas)
  PROVE  /\ outstanding' \in [Keys -> Nat] /\ total_sent' = outstanding'
         /\ surplus' \in [Denoms -> Nat]
         /\ \A k \in Keys : outstanding'[k] =
              IF k \in recorded THEN outstanding[k] + surplus[k[2]] ELSE 0
         /\ \A e \in Denoms : surplus'[e] = IF <<c, e>> \in recorded THEN 0 ELSE surplus[e]
<1>1. /\ outstanding' = [k \in Keys |-> outstanding[k] + Diff(k)]
      /\ total_sent' = [k \in Keys |-> total_sent[k] + Diff(k)]
      /\ surplus' = [e \in Denoms |->
           IF \E b \in Channels : <<b, e>> \in recorded THEN 0 ELSE surplus[e]]
  BY DEF migrate
<1>2. \A e \in Denoms : (\E b \in Channels : <<b, e>> \in recorded) <=> <<c, e>> \in recorded
  <2>1. recorded \subseteq {c} \X Denoms BY OldBalances
  <2> QED BY <2>1
<1>3. \A k \in Keys : /\ k[2] \in Denoms /\ surplus[k[2]] \in Nat
                      /\ k \in recorded => k = <<c, k[2]>>
  BY OldBalances, KeyParts
<1>4. ASSUME NEW k \in Keys
      PROVE  outstanding[k] + Diff(k) = IF k \in recorded THEN outstanding[k] + surplus[k[2]] ELSE 0
  <2>1. outstanding[k] \in Nat /\ (k \notin recorded => outstanding[k] = 0) BY OldBalances
  <2>2. CASE k \in recorded
    <3>1. escrow[k[2]] = outstanding[k] + surplus[k[2]] BY <1>3, <2>2, OldBalances
    <3>2. Diff(k) = escrow[k[2]] - outstanding[k] BY <2>2 DEF Diff
    <3> QED BY <1>3, <2>1, <2>2, <3>1, <3>2
  <2>3. CASE k \notin recorded BY <2>1, <2>3 DEF Diff
  <2> QED BY <2>2, <2>3
<1>5. \A k \in Keys : (IF k \in recorded THEN outstanding[k] + surplus[k[2]] ELSE 0) \in Nat
  BY <1>3, OldBalances
<1>6. total_sent = outstanding BY OldBalances
<1>7. surplus \in [Denoms -> Nat] BY OldBalances
<1> HIDE DEF Diff
<1> QED BY <1>1, <1>2, <1>4, <1>5, <1>6, <1>7

LEMMA MigrateConfig ==
  ASSUME ConfigOK, NEW gas \in GasLimit, migrate(gas)
  PROVE  ConfigOK' /\ Ready'
<1>1. /\ version' = "v3" /\ UNCHANGED <<admin, allow_list, channels, recorded>>
      /\ default_gas_limit' = IF gas = None THEN default_gas_limit ELSE gas
  BY DEF migrate, SetDefaultGas
<1>2. CountedMayBeSent' BY <1>1 DEF ConfigOK, CountedMayBeSent, MaySend
<1> QED BY <1>1, <1>2 DEF ConfigOK, Ready

LEMMA MigrateKeeps ==
  ASSUME IInv, NEW gas \in GasLimit, migrate(gas)
  PROVE  IInv'
<1>1. ConfigOK' /\ OldStorage' BY MigrateConfig DEF IInv, OldStorage
<1>2. PacketsOK' BY DEF IInv, PacketsOK, Credited, Ids, migrate
<1>3. UNCHANGED <<recorded, escrow>> BY DEF migrate
<1>4. CASE Ready
  <2>1. \A k \in Keys : Diff(k) = 0 BY <1>4 DEF Diff
  <2>2. /\ outstanding' = [k \in Keys |-> outstanding[k] + Diff(k)]
        /\ total_sent' = [k \in Keys |-> total_sent[k] + Diff(k)]
        /\ surplus' = [d \in Denoms |-> surplus[d]]
    BY <1>4 DEF migrate
  <2>3. /\ outstanding \in [Keys -> Nat] /\ total_sent \in [Keys -> Nat]
        /\ surplus \in [Denoms -> Nat]
    BY DEF IInv, BalanceOK
  <2> HIDE DEF Diff
  <2>4. outstanding' = outstanding /\ total_sent' = total_sent /\ surplus' = surplus
    BY <2>1, <2>2, <2>3
  <2> QED BY <1>1, <1>2, <1>3, <2>4, BalanceUnchanged DEF IInv
<1>5. CASE ~ Ready
  <2>1. PICK c \in Channels, d \in Denoms, n \in Amounts, given \in {0, 1} : old_storage(c, d, n, given)
    BY <1>5 DEF IInv, OldStorage
  <2>2. ASSUME NEW e \in Denoms
        PROVE  escrow'[e] = Total(PerChannel(outstanding', e)) + surplus'[e]
    <3>1. \A b \in Channels \ {c} : outstanding'[<<b, e>>] = 0
      BY <1>5, <2>1, MigratedBalances, OldBalances DEF Keys
    <3>2. outstanding' \in [Keys -> Nat] BY <1>5, <2>1, MigratedBalances
    <3>3. Total(PerChannel(outstanding', e)) = outstanding'[<<c, e>>] BY <3>1, <3>2, OneChannel
    <3>4. /\ <<c, e>> \in Keys /\ escrow[e] = outstanding[<<c, e>>] + surplus[e]
          /\ <<c, e>> \notin recorded => outstanding[<<c, e>>] = 0
          /\ surplus[e] \in Nat /\ outstanding[<<c, e>>] \in Nat
      BY <2>1, OldBalances DEF Keys
    <3>5. /\ outstanding'[<<c, e>>] = IF <<c, e>> \in recorded THEN outstanding[<<c, e>>] + surplus[e] ELSE 0
          /\ surplus'[e] = IF <<c, e>> \in recorded THEN 0 ELSE surplus[e]
      BY <1>5, <2>1, <3>4, MigratedBalances
    <3> QED BY <1>3, <3>3, <3>4, <3>5
  <2>3. EscrowAccounted' BY <2>2 DEF EscrowAccounted, PerChannel
  <2>4. /\ outstanding' \in [Keys -> Nat] /\ total_sent' = outstanding'
        /\ surplus' \in [Denoms -> Nat]
        /\ \A k \in Keys : k \notin recorded => outstanding'[k] = 0
    BY <1>5, <2>1, MigratedBalances
  <2>5. BalanceOK' BY <1>3, <2>3, <2>4 DEF IInv, BalanceOK
  <2> QED BY <1>1, <1>2, <2>5 DEF IInv
<1> QED BY <1>4, <1>5

-----------------------------------------------------------------------------
(* The handlers.  A packet that the balance covers can always be sent, so  *)
(* it is either paid, or refused and everything as it was.                 *)
LEMMA ReceiveEffect ==
  ASSUME IInv, NEW i \in Ids, NEW paid \in BOOLEAN, ibc_packet_receive(i, paid)
  PROVE  /\ Ready /\ UNCHANGED <<recorded, total_sent, vouchers, surplus>> /\ UNCHANGED config
         /\ packets[i].dir = "in" /\ packets[i].progress = "sent"
         /\ paid => /\ packets[i].path = packets[i].channel
                    /\ CanReduce(Key(packets[i]), packets[i].amount)
                    /\ CanPay(packets[i].denom, packets[i].amount)
                    /\ outstanding' = Reduced(Key(packets[i]), packets[i].amount)
                    /\ escrow' = [escrow EXCEPT ![packets[i].denom] = @ - packets[i].amount]
                    /\ Advances(i, "delivered")
         /\ ~ paid => /\ UNCHANGED <<outstanding, escrow>>
                      /\ Advances(i, "refused")
<1> DEFINE p == packets[i]
           k == Key(p)
           n == p.amount
           funded == parse_voucher_denom(p) /\ CanReduce(k, n)
           accepted == funded /\ MaySend(p.denom)
<1>1. /\ Ready /\ UNCHANGED <<recorded, total_sent, vouchers, surplus>> /\ UNCHANGED config
      /\ p.dir = "in" /\ p.progress = "sent"
      /\ paid => accepted /\ CanPay(p.denom, n)
      /\ outstanding' = IF accepted THEN reply(p, paid)
                        ELSE IF funded THEN Reduced(k, n) ELSE outstanding
      /\ escrow' = IF paid THEN [escrow EXCEPT ![p.denom] = @ - n] ELSE escrow
      /\ packets' = Advanced(i, Acknowledged(accepted, paid), paid, FALSE)
  BY DEF ibc_packet_receive
<1>2. funded => accepted
  <2>1. k \in recorded => MaySend(p.denom)
    BY PacketFields DEF IInv, ConfigOK, CountedMayBeSent
  <2> QED BY <2>1 DEF CanReduce
<1>3. CASE paid
  <2>1. Acknowledged(accepted, paid) = "delivered" BY <1>1, <1>3 DEF Acknowledged
  <2>2. Advances(i, "delivered") BY <1>1, <1>3, <2>1 DEF Advances
  <2>3. outstanding' = Reduced(k, n) BY <1>1, <1>3 DEF reply
  <2> QED BY <1>1, <1>3, <2>2, <2>3 DEF parse_voucher_denom
<1>4. CASE ~ paid
  <2>1. Acknowledged(accepted, paid) = "refused" BY <1>4 DEF Acknowledged
  <2>2. Advances(i, "refused") BY <1>1, <1>4, <2>1 DEF Advances
  <2>3. outstanding' = outstanding
    <3>1. CASE accepted
      <4>1. outstanding' = [[outstanding EXCEPT ![k] = outstanding[k] - n] EXCEPT ![k] =
                              [outstanding EXCEPT ![k] = outstanding[k] - n][k] + n]
        BY <1>1, <1>4, <3>1 DEF reply, Reduced
      <4>2. outstanding \in [Keys -> Nat] /\ k \in Keys /\ n \in Nat
        BY PacketFields DEF IInv, BalanceOK
      <4> HIDE DEF k, n
      <4>3. (outstanding[k] - n) + n = outstanding[k] BY <4>2
      <4> QED BY <4>1, <4>2, <4>3
    <3>2. CASE ~ accepted BY <1>1, <1>2, <3>2
    <3> QED BY <3>1, <3>2
  <2> QED BY <1>1, <1>4, <2>2, <2>3
<1> QED BY <1>3, <1>4

LEMMA ReceiveKeeps ==
  ASSUME IInv, NEW i \in Ids, NEW paid \in BOOLEAN, ibc_packet_receive(i, paid)
  PROVE  IInv'
<1>1. ConfigOK' /\ OldStorage'
  BY ReceiveEffect, ConfigUnchanged, ReadyStays DEF IInv, config
<1>2. vouchers' \in [Keys -> Nat] BY ReceiveEffect DEF IInv, PacketsOK
<1>3. CASE paid
  <2>1. PacketsOK' BY <1>2, <1>3, ReceiveEffect, AdvanceKeeps DEF IInv, Progresses
  <2>2. BalanceOK'
    <3> DEFINE k == Key(packets[i])
               d == packets[i].denom
               n == packets[i].amount
    <3>1. k \in Keys /\ d \in Denoms /\ d = k[2] /\ n \in Nat BY PacketFields DEF IInv
    <3>2. /\ CanReduce(k, n) /\ CanPay(d, n) /\ outstanding' = Reduced(k, n)
          /\ UNCHANGED <<recorded, total_sent>> /\ surplus' = surplus
          /\ escrow' = [escrow EXCEPT ![d] = @ - n]
      BY <1>3, ReceiveEffect
    <3> HIDE DEF k, d, n
    <3> QED BY <1>3, <3>1, <3>2, ReduceKeeps DEF IInv
  <2> QED BY <1>1, <2>1, <2>2 DEF IInv
<1>4. CASE ~ paid
  <2>1. PacketsOK' BY <1>2, <1>4, ReceiveEffect, AdvanceKeeps DEF IInv, Progresses
  <2>2. BalanceOK' BY <1>4, ReceiveEffect, BalanceUnchanged DEF IInv
  <2> QED BY <1>1, <2>1, <2>2 DEF IInv
<1> QED BY <1>3, <1>4

LEMMA FailureKeeps ==
  ASSUME IInv, Ready, NEW i \in Ids, NEW paid \in BOOLEAN, on_packet_failure(i, paid),
         packets[i].progress \in {"sent", "refused"}
  PROVE  IInv'
<1> DEFINE k == Key(packets[i])
           d == packets[i].denom
           n == packets[i].amount
<1>1. k \in Keys /\ d \in Denoms /\ d = k[2] /\ n \in Nat BY PacketFields DEF IInv
<1>2. /\ CanReduce(k, n) /\ (paid => CanPay(d, n)) /\ outstanding' = Reduced(k, n)
      /\ UNCHANGED <<recorded, total_sent, vouchers>> /\ UNCHANGED config
      /\ escrow' = IF paid THEN [escrow EXCEPT ![d] = @ - n] ELSE escrow
      /\ surplus' = IF paid THEN surplus ELSE [surplus EXCEPT ![d] = @ + n]
      /\ packets' = Advanced(i, IF paid THEN "returned" ELSE "stranded", FALSE, paid)
  BY DEF on_packet_failure
<1>3. ConfigOK' /\ OldStorage' BY <1>2, ConfigUnchanged, ReadyStays DEF IInv, config
<1>4. Advances(i, IF paid THEN "returned" ELSE "stranded")
  BY <1>2 DEF Advances
<1>5. PacketsOK'
  <2>1. vouchers' \in [Keys -> Nat] BY <1>2 DEF IInv, PacketsOK
  <2>2. (IF paid THEN "returned" ELSE "stranded") \in Progresses BY DEF Progresses
  <2> QED BY <1>4, <2>1, <2>2, AdvanceKeeps DEF IInv
<1> HIDE DEF k, d, n
<1>6. BalanceOK' BY <1>1, <1>2, ReduceKeeps DEF IInv
<1> QED BY <1>3, <1>5, <1>6 DEF IInv

LEMMA TransferKeeps ==
  ASSUME IInv, NEW c \in Channels, NEW d \in Denoms, NEW n \in Amounts, execute_transfer(c, d, n)
  PROVE  IInv'
<1> DEFINE k == <<c, d>>
<1>1. k \in Keys /\ d = k[2] /\ n \in Nat BY Ics20Numbers DEF Keys
<1>2. /\ Ready /\ MayTransfer(d) /\ increase_channel_balance(k, n)
      /\ escrow' = [escrow EXCEPT ![d] = @ + n]
      /\ packets' = Append(packets, Packet("out", c, None, d, n))
      /\ UNCHANGED <<vouchers, surplus>> /\ UNCHANGED config
  BY DEF execute_transfer
<1>3. recorded' = recorded \cup {k} BY <1>2 DEF increase_channel_balance
<1>4. ConfigOK' BY <1>2, <1>3, TakenConfig DEF IInv
<1>5. OldStorage' BY <1>2, ReadyStays DEF config
<1>6. PacketsOK'
  <2>1. Packet("out", c, None, d, n) \in PacketRecord /\ Credited(Packet("out", c, None, d, n))
    BY NewPacket
  <2>2. vouchers' \in [Keys -> Nat] BY <1>2 DEF IInv, PacketsOK
  <2> QED BY <1>2, <2>1, <2>2, AppendKeeps DEF IInv
<1> HIDE DEF k
<1>7. BalanceOK' BY <1>1, <1>2, IncreaseKeeps DEF IInv
<1> QED BY <1>4, <1>5, <1>6, <1>7 DEF IInv

(* Nothing but the channels or the admin changes. *)
LEMMA SettingsKeep ==
  ASSUME IInv, Ready, admin' \in Admins, channels' \subseteq Channels,
         UNCHANGED <<version, default_gas_limit, allow_list, escrow, packets, vouchers, surplus>>,
         UNCHANGED balance
  PROVE  IInv'
<1>1. ConfigOK' BY DEF IInv, ConfigOK, CountedMayBeSent, MaySend, balance
<1>2. BalanceOK' BY BalanceUnchanged DEF IInv, balance
<1>3. PacketsOK' BY DEF IInv, PacketsOK, Credited, Ids
<1> QED BY <1>1, <1>2, <1>3, ReadyStays DEF IInv

(* The other chains change packets and vouchers only.                      *)
LEMMA RemoteKeeps ==
  ASSUME IInv, Ready, UNCHANGED <<escrow, surplus>>, UNCHANGED balance, UNCHANGED config, PacketsOK'
  PROVE  IInv'
<1>1. ConfigOK' BY ConfigUnchanged DEF IInv, balance
<1>2. BalanceOK' BY BalanceUnchanged DEF IInv, balance
<1> QED BY <1>1, <1>2, ReadyStays DEF IInv, config

LEMMA IssuedType ==
  ASSUME PacketsOK, NEW p \in PacketRecord, NEW n \in Int,
         p.channel \in Honest => vouchers[Key(p)] + n >= 0
  PROVE  Issued(p, n) \in [Keys -> Nat]
<1>1. Key(p) \in Keys BY DEF Key, Keys, PacketRecord
<1>2. vouchers[Key(p)] \in Nat BY <1>1 DEF PacketsOK
<1>3. p.channel \in Honest => vouchers[Key(p)] + n \in Nat BY <1>2
<1> QED BY <1>1, <1>3 DEF Issued, PacketsOK

LEMMA RemoteReceiveKeeps ==
  ASSUME IInv, NEW i \in Ids, NEW accepted \in BOOLEAN, RemoteReceive(i, accepted)
  PROVE  IInv' /\ Advances(i, IF accepted THEN "delivered" ELSE "refused")
<1> DEFINE g == IF accepted THEN "delivered" ELSE "refused"
<1>1. /\ Ready /\ packets[i].progress = "sent"
      /\ packets' = Advanced(i, g, accepted, FALSE)
      /\ vouchers' = IF accepted THEN Issued(packets[i], packets[i].amount) ELSE vouchers
      /\ UNCHANGED <<escrow, surplus>> /\ UNCHANGED balance /\ UNCHANGED config
  BY DEF RemoteReceive
<1>2. Advances(i, g) /\ g \in Progresses BY <1>1 DEF Advances, Progresses
<1>3. vouchers' \in [Keys -> Nat]
  <2>1. packets[i] \in PacketRecord /\ packets[i].amount \in Nat /\ vouchers[Key(packets[i])] \in Nat
    BY PacketFields DEF IInv, PacketsOK
  <2>2. vouchers[Key(packets[i])] + packets[i].amount >= 0 BY <2>1
  <2>3. Issued(packets[i], packets[i].amount) \in [Keys -> Nat] BY <2>1, <2>2, IssuedType DEF IInv
  <2> QED BY <1>1, <2>3 DEF IInv, PacketsOK
<1>4. PacketsOK' BY <1>2, <1>3, AdvanceKeeps DEF IInv
<1> QED BY <1>1, <1>2, <1>4, RemoteKeeps

LEMMA RemoteReturnKeeps ==
  ASSUME IInv, NEW i \in Ids, RemoteReturn(i)
  PROVE  IInv' /\ Advances(i, "returned")
<1>1. /\ Ready /\ packets[i].progress \in {"sent", "refused"}
      /\ packets' = Advanced(i, "returned", FALSE, TRUE)
      /\ vouchers' = IF packets[i].path = packets[i].channel
                     THEN Issued(packets[i], packets[i].amount) ELSE vouchers
      /\ UNCHANGED <<escrow, surplus>> /\ UNCHANGED balance /\ UNCHANGED config
  BY DEF RemoteReturn
<1>2. Advances(i, "returned") /\ "returned" \in Progresses BY <1>1 DEF Advances, Progresses
<1>3. vouchers' \in [Keys -> Nat]
  <2>1. packets[i] \in PacketRecord /\ packets[i].amount \in Nat /\ vouchers[Key(packets[i])] \in Nat
    BY PacketFields DEF IInv, PacketsOK
  <2>2. vouchers[Key(packets[i])] + packets[i].amount >= 0 BY <2>1
  <2>3. Issued(packets[i], packets[i].amount) \in [Keys -> Nat] BY <2>1, <2>2, IssuedType DEF IInv
  <2> QED BY <1>1, <2>3 DEF IInv, PacketsOK
<1>4. PacketsOK' BY <1>2, <1>3, AdvanceKeeps DEF IInv
<1> QED BY <1>1, <1>2, <1>4, RemoteKeeps

LEMMA RemoteSendKeeps ==
  ASSUME IInv, NEW c \in Channels, NEW path \in Channels \cup {None}, NEW d \in Denoms,
         NEW n \in Amounts, RemoteSend(c, path, d, n)
  PROVE  IInv'
<1> DEFINE p == Packet("in", c, path, d, n)
<1>1. /\ Ready /\ (c \in Honest /\ path = c => vouchers[Key(p)] >= n)
      /\ vouchers' = IF path = c THEN Issued(p, -n) ELSE vouchers
      /\ packets' = Append(packets, p)
      /\ UNCHANGED <<escrow, surplus>> /\ UNCHANGED balance /\ UNCHANGED config
  BY DEF RemoteSend
<1>2. p \in PacketRecord /\ Credited(p) /\ Key(p) = <<c, d>> BY NewPacket
<1>3. p.channel = c /\ n \in Nat BY Ics20Numbers DEF Packet
<1>4. vouchers' \in [Keys -> Nat]
  <2>1. vouchers[Key(p)] \in Nat BY <1>2 DEF IInv, PacketsOK, Keys
  <2>2. CASE path = c
    <3>1. -n \in Int /\ (p.channel \in Honest => vouchers[Key(p)] + (-n) >= 0)
      BY <1>1, <1>3, <2>1, <2>2
    <3> HIDE DEF p
    <3>2. Issued(p, -n) \in [Keys -> Nat] BY <1>2, <3>1, IssuedType DEF IInv
    <3> QED BY <1>1, <2>2, <3>2
  <2>3. CASE path # c BY <1>1, <2>3 DEF IInv, PacketsOK
  <2> QED BY <2>2, <2>3
<1> HIDE DEF p
<1>5. PacketsOK' BY <1>1, <1>2, <1>4, AppendKeeps DEF IInv
<1> QED BY <1>1, <1>5, RemoteKeeps

-----------------------------------------------------------------------------
LEMMA OldStays ==
  ASSUME NEW c \in Channels, NEW d \in Denoms, NEW n \in Amounts, NEW given \in {0, 1},
         old_storage(c, d, n, given), UNCHANGED vars
  PROVE  old_storage(c, d, n, given)'
<1> DEFINE used == recorded \cup {Key(packets[i]) : i \in 1..Len(packets)}
<1>1. used' = used BY DEF vars, Key
<1>2. \A k \in used : MayTransfer(k[2]) BY DEF old_storage
<1>3. \A k \in used' : MayTransfer(k[2])' BY <1>1, <1>2 DEF vars, MayTransfer
<1>4. /\ version' \in {"v1", "v2"}
      /\ default_gas_limit' \in IF version' = "v1" THEN {None} ELSE GasLimit
      /\ allow_list' \in [Tokens -> GasLimit \cup {NotListed}]
      /\ channels' = {c} /\ recorded' \in SUBSET ({c} \X Denoms)
      /\ packets' \in {<<>>, <<Packet("out", c, None, d, n)>>}
      /\ Unrecorded \/ packets' = <<>> \/ <<c, d>> \in recorded'
  BY DEF vars, old_storage
<1>5. /\ recorded' = recorded /\ outstanding' = outstanding /\ total_sent' = total_sent
      /\ vouchers' = vouchers /\ surplus' = surplus /\ escrow' = escrow /\ packets' = packets
  BY DEF vars
<1>6. /\ outstanding' = [k \in Keys |-> IF k \in recorded' THEN n ELSE 0]
      /\ total_sent' = outstanding'
  <2>1. outstanding = [k \in Keys |-> IF k \in recorded THEN n ELSE 0] BY DEF old_storage
  <2>2. total_sent = outstanding BY DEF old_storage
  <2> QED BY <1>5, <2>1, <2>2
<1>7. vouchers' = [k \in Keys |-> IF c \in Honest THEN outstanding'[k] ELSE 0]
  <2>1. vouchers = [k \in Keys |-> IF c \in Honest THEN outstanding[k] ELSE 0] BY DEF old_storage
  <2> QED BY <1>5, <2>1
<1>8. surplus' = [e \in Denoms |-> IF e = d THEN given + Len(packets') * n ELSE 0]
  <2>1. surplus = [e \in Denoms |-> IF e = d THEN given + Len(packets) * n ELSE 0]
    BY DEF old_storage
  <2> QED BY <1>5, <2>1, Zenon
<1>9. /\ escrow' = [e \in Denoms |-> outstanding'[<<c, e>>] + surplus'[e]]
      /\ \A e \in Denoms : escrow'[e] <= Supply
  <2>1. escrow = [e \in Denoms |-> outstanding[<<c, e>>] + surplus[e]] BY DEF old_storage
  <2>2. \A e \in Denoms : escrow[e] <= Supply BY DEF old_storage
  <2> QED BY <1>5, <2>1, <2>2
<1> QED BY <1>3, <1>4, <1>6, <1>7, <1>8, <1>9 DEF old_storage

LEMMA InitIInv == Init => IInv
<1> SUFFICES ASSUME Init PROVE IInv OBVIOUS
<1>1. admin \in Admins BY DEF Init
<1>2. CASE instantiate
  <2>1. /\ version = "v3" /\ default_gas_limit \in GasLimit
        /\ allow_list \in [Tokens -> GasLimit \cup {NotListed}]
        /\ channels = {} /\ recorded = {} /\ packets = <<>>
        /\ outstanding = [k \in Keys |-> 0] /\ total_sent = outstanding /\ vouchers = outstanding
        /\ escrow = [d \in Denoms |-> 0] /\ surplus = escrow
    BY <1>2 DEF instantiate
  <2>2. ASSUME NEW d \in Denoms
        PROVE  escrow[d] = Total(PerChannel(outstanding, d)) + surplus[d]
    <3>1. /\ PerChannel(outstanding, d) \in [Channels -> Nat]
          /\ \A c \in Channels : PerChannel(outstanding, d)[c] = 0
      BY <2>1 DEF PerChannel, Keys
    <3>2. Total(PerChannel(outstanding, d)) = 0 BY <3>1, TotalZero
    <3> QED BY <2>1, <3>2
  <2>3. EscrowAccounted BY <2>2 DEF EscrowAccounted, PerChannel
  <2>4. BalanceOK BY <2>1, <2>3 DEF BalanceOK
  <2>5. ConfigOK BY <1>1, <2>1 DEF ConfigOK, CountedMayBeSent
  <2>6. PacketsOK BY <2>1 DEF PacketsOK, Ids
  <2> QED BY <2>1, <2>4, <2>5, <2>6 DEF IInv, OldStorage, Ready
<1>3. CASE \E c \in Channels, d \in Denoms, n \in Amounts, given \in {0, 1} :
             n <= MaxU64 /\ old_storage(c, d, n, given)
  BY <1>1, <1>3, OldIInv
<1> QED BY <1>2, <1>3 DEF Init

LEMMA NextIInv == IInv /\ [Next]_vars => IInv'
<1> SUFFICES ASSUME IInv, [Next]_vars PROVE IInv' OBVIOUS
<1>1. ASSUME NEW gas \in GasLimit, migrate(gas) PROVE IInv'
  BY <1>1, MigrateKeeps
<1>2. ASSUME NEW c \in Channels, ibc_channel_connect(c) PROVE IInv'
  BY <1>2, SettingsKeep DEF ibc_channel_connect, IInv, ConfigOK
<1>3. ASSUME NEW sender \in Admins, NEW token \in Tokens, NEW gas \in GasLimit,
             execute_allow(sender, token, gas)
      PROVE  IInv'
  BY <1>3, AllowKeeps
<1>4. ASSUME NEW sender \in Admins, NEW new_admin \in Admins, execute_update_admin(sender, new_admin)
      PROVE  IInv'
  BY <1>4, SettingsKeep DEF execute_update_admin, IInv, ConfigOK
<1>5. ASSUME NEW c \in Channels, NEW d \in Denoms, NEW n \in Amounts, execute_transfer(c, d, n)
      PROVE  IInv'
  BY <1>5, TransferKeeps
<1>6. ASSUME NEW i \in Ids, NEW paid \in BOOLEAN, ibc_packet_receive(i, paid) PROVE IInv'
  BY <1>6, ReceiveKeeps
<1>7. ASSUME NEW i \in Ids, NEW paid \in BOOLEAN, ibc_packet_ack(i, paid) PROVE IInv'
  BY <1>7, FailureKeeps DEF ibc_packet_ack
<1>8. ASSUME NEW i \in Ids, NEW paid \in BOOLEAN, ibc_packet_timeout(i, paid) PROVE IInv'
  BY <1>8, FailureKeeps DEF ibc_packet_timeout
<1>9. ASSUME NEW i \in Ids, NEW accepted \in BOOLEAN, RemoteReceive(i, accepted) PROVE IInv'
  BY <1>9, RemoteReceiveKeeps
<1>10. ASSUME NEW c \in Channels, NEW path \in Channels \cup {None}, NEW d \in Denoms,
              NEW n \in Amounts, RemoteSend(c, path, d, n)
       PROVE  IInv'
  BY <1>10, RemoteSendKeeps
<1>11. ASSUME NEW i \in Ids, RemoteReturn(i) PROVE IInv'
  BY <1>11, RemoteReturnKeeps
<1>12. CASE UNCHANGED vars
  <2>1. ConfigOK' /\ BalanceOK' /\ PacketsOK'
    BY <1>12, ConfigUnchanged, BalanceUnchanged DEF vars, config, IInv, PacketsOK, Credited, Ids
  <2>2. OldStorage'
    <3>1. CASE Ready BY <1>12, <3>1, ReadyStays DEF vars
    <3>2. CASE ~ Ready
      <4>1. PICK c \in Channels, d \in Denoms, n \in Amounts, given \in {0, 1} :
              n <= MaxU64 /\ old_storage(c, d, n, given)
        BY <3>2 DEF IInv, OldStorage
      <4>2. old_storage(c, d, n, given)' BY <1>12, <4>1, OldStays
      <4> QED BY <4>1, <4>2 DEF OldStorage
    <3> QED BY <3>1, <3>2
  <2> QED BY <2>1, <2>2 DEF IInv
<1> QED BY <1>1, <1>2, <1>3, <1>4, <1>5, <1>6, <1>7, <1>8, <1>9, <1>10, <1>11, <1>12 DEF Next

(* The inductive invariant holds whatever the other chains do.             *)
THEOREM Invariance == Spec => []IInv
<1> QED BY InitIInv, NextIInv, PTL DEF Spec

(* Type correctness: no balance, escrow or voucher count is ever negative, *)
(* and what execute_transfer counted bounds what is outstanding.           *)
THEOREM TypeCorrect == Spec => []TypeOK
<1>1. IInv => TypeOK BY DEF IInv, ConfigOK, BalanceOK, PacketsOK, TypeOK
<1> QED BY <1>1, Invariance, PTL

(* Every coin that send_amount did not pay out is counted as outstanding   *)
(* on some channel, or was never counted or could not be refunded.         *)
THEOREM EscrowTheorem == Spec => []EscrowAccounted
<1>1. IInv => EscrowAccounted BY DEF IInv, BalanceOK
<1> QED BY <1>1, Invariance, PTL

(* What has been taken in passes check_gas_limit for ever.                 *)
THEOREM SendTheorem == Spec => []CountedMayBeSent
<1>1. IInv => CountedMayBeSent BY DEF IInv, ConfigOK
<1> QED BY <1>1, Invariance, PTL

-----------------------------------------------------------------------------
(* The refinement of Transfers.                                            *)
Shown(p) == [progress |-> p.progress, receiver |-> p.receiver, sender |-> p.sender]

LEMMA ProgressFields ==
  ASSUME PacketsOK
  PROVE  /\ DOMAIN Progress = Ids /\ Len(Progress) = Len(packets)
         /\ Progress \in Seq([progress : Progresses, receiver : Nat, sender : Nat])
         /\ T!Ids = Ids /\ \A i \in Ids : Progress[i] = Shown(packets[i])
<1>1. /\ DOMAIN Progress = Ids
      /\ \A i \in Ids : Progress[i] = Shown(packets[i])
  BY DEF Progress, Shown
<1>2. \A i \in Ids : Shown(packets[i]) \in [progress : Progresses, receiver : Nat, sender : Nat]
  BY PacketFields DEF PacketRecord, Progresses, Shown
<1>3. Len(packets) \in Nat BY DEF PacketsOK
<1>4. Progress \in [1..Len(packets) -> [progress : Progresses, receiver : Nat, sender : Nat]]
  BY <1>1, <1>2 DEF Ids, Progress
<1>5. Progress \in Seq([progress : Progresses, receiver : Nat, sender : Nat])
  BY <1>3, <1>4, FunctionIsSeq, Zenon
<1>6. Len(Progress) = Len(packets) BY <1>1, <1>3, <1>5, LenProperties DEF Ids
<1> QED BY <1>1, <1>5, <1>6 DEF T!Ids, Ids

LEMMA AdvanceRefines ==
  ASSUME PacketsOK, PacketsOK', NEW i \in Ids, NEW g \in Progresses \ {"sent"}, Advances(i, g),
         g \in {"delivered", "refused"} => packets[i].progress = "sent"
  PROVE  T!Next
<1> DEFINE from == packets[i].progress
           t == [progress |-> g, receiver |-> One(g = "delivered"), sender |-> One(g = "returned")]
<1>1. packets[i].receiver = 0 /\ packets[i].sender = 0
  BY DEF PacketsOK, Credited, One, Advances
<1>2. Progress[i] = [progress |-> from, receiver |-> 0, sender |-> 0]
  BY <1>1, ProgressFields DEF Shown
<1>3. Shown(Settled(i, g)) = t
  <2>1. packets[i] \in PacketRecord BY PacketFields
  <2> QED BY <2>1 DEF Shown, Settled, PacketRecord
<1>4. Progress' = [Progress EXCEPT ![i] = t]
  <2>1. Ids' = Ids /\ \A j \in Ids : packets'[j] = IF j = i THEN Settled(i, g) ELSE packets[j]
    BY AdvancedPacket
  <2>2. Progress' = [j \in Ids |-> Shown(packets'[j])] BY <2>1 DEF Progress, Shown
  <2>3. Progress = [j \in Ids |-> Shown(packets[j])] BY DEF Progress, Shown
  <2> HIDE DEF t
  <2> QED BY <1>3, <2>1, <2>2, <2>3
<1>5. i \in T!Ids BY ProgressFields
<1>6. g \in {"delivered", "refused", "returned", "stranded"} BY DEF Progresses
<1>7. from \in {"sent", "refused"} BY DEF Advances
<1>8. Progress[i] = T!Transfer(Progress[i].progress, 0, 0) /\ Progress[i].progress = from
  BY <1>2 DEF T!Transfer
<1>9. /\ g = "delivered" => t = T!Transfer("delivered", 1, 0) /\ from = "sent"
      /\ g = "refused" => t = T!Transfer("refused", 0, 0) /\ from = "sent"
      /\ g = "returned" => t = T!Transfer("returned", 0, 1)
      /\ g = "stranded" => t = T!Transfer("stranded", 0, 0)
  BY DEF T!Transfer, One
<1> HIDE DEF from, t
<1>10. T!Deliver(i) \/ T!Refuse(i) \/ T!Return(i) \/ T!Strand(i)
  BY <1>4, <1>6, <1>7, <1>8, <1>9 DEF T!Deliver, T!Refuse, T!Return, T!Strand, T!Becomes
<1> QED BY <1>5, <1>10 DEF T!Next

LEMMA AppendRefines ==
  ASSUME PacketsOK, PacketsOK', NEW p \in PacketRecord, Shown(p) = T!Sent,
         packets' = Append(packets, p)
  PROVE  T!Next
<1> DEFINE n == Len(packets)
           R == [progress : Progresses, receiver : Nat, sender : Nat]
<1>1. /\ n \in Nat /\ Len(packets') = n + 1 /\ packets'[n + 1] = p
      /\ \A i \in Ids : packets'[i] = packets[i]
  BY AppendProperties DEF PacketsOK, Ids
<1>2. Ids' = 1..(n + 1) /\ Ids = 1..n BY <1>1 DEF Ids
<1>3. Progress' = [i \in 1..(n + 1) |-> Shown(packets'[i])] BY <1>2 DEF Progress, Shown
<1>4. Progress \in Seq(R) /\ Len(Progress) = n /\ \A i \in 1..n : Progress[i] = Shown(packets[i])
  BY <1>2, ProgressFields
<1>5. T!Sent \in R BY DEF T!Sent, T!Transfer, Progresses
<1>6. /\ Append(Progress, T!Sent) \in Seq(R) /\ Len(Append(Progress, T!Sent)) = n + 1
      /\ Append(Progress, T!Sent)[n + 1] = T!Sent
      /\ \A i \in 1..n : Append(Progress, T!Sent)[i] = Progress[i]
  BY <1>4, <1>5, AppendProperties
<1>7. Append(Progress, T!Sent) \in [1..(n + 1) -> R] BY <1>6, LenProperties
<1>8. Append(Progress, T!Sent) = [i \in 1..(n + 1) |-> Append(Progress, T!Sent)[i]]
  BY <1>7
<1>9. \A i \in 1..(n + 1) : Shown(packets'[i]) = Append(Progress, T!Sent)[i]
  <2> SUFFICES ASSUME NEW i \in 1..(n + 1) PROVE Shown(packets'[i]) = Append(Progress, T!Sent)[i]
    OBVIOUS
  <2>1. CASE i = n + 1 BY <1>1, <1>6, <2>1
  <2>2. CASE i \in 1..n BY <1>1, <1>2, <1>4, <1>6, <2>2
  <2>3. i = n + 1 \/ i \in 1..n
    <3> HIDE DEF n
    <3> QED BY <1>1
  <2> QED BY <2>1, <2>2, <2>3
<1>10. Progress' = Append(Progress, T!Sent) BY <1>3, <1>8, <1>9
<1> QED BY <1>10 DEF T!Next, T!Send

LEMMA NewShown ==
  ASSUME NEW dir, NEW c, NEW path, NEW d, NEW n
  PROVE  Shown(Packet(dir, c, path, d, n)) = T!Sent
BY DEF Shown, Packet, T!Sent, T!Transfer

LEMMA StepRefines == IInv /\ IInv' /\ [Next]_vars => [T!Next]_Progress
<1> SUFFICES ASSUME IInv, IInv', [Next]_vars PROVE T!Next \/ UNCHANGED Progress OBVIOUS
<1>0. PacketsOK /\ PacketsOK' BY DEF IInv
<1>1. CASE UNCHANGED packets BY <1>1 DEF Progress, Ids
<1>2. ASSUME NEW c \in Channels, NEW d \in Denoms, NEW n \in Amounts, execute_transfer(c, d, n)
      PROVE  T!Next
  <2>1. packets' = Append(packets, Packet("out", c, None, d, n)) BY <1>2 DEF execute_transfer
  <2>2. Packet("out", c, None, d, n) \in PacketRecord BY NewPacket
  <2> QED BY <1>0, <2>1, <2>2, NewShown, AppendRefines
<1>3. ASSUME NEW i \in Ids, NEW paid \in BOOLEAN, ibc_packet_receive(i, paid) PROVE T!Next
  <2>1. CASE paid BY <1>0, <1>3, <2>1, ReceiveEffect, AdvanceRefines DEF Progresses
  <2>2. CASE ~ paid BY <1>0, <1>3, <2>2, ReceiveEffect, AdvanceRefines DEF Progresses
  <2> QED BY <2>1, <2>2
<1>4. ASSUME NEW i \in Ids, NEW paid \in BOOLEAN, on_packet_failure(i, paid),
             packets[i].progress \in {"sent", "refused"}
      PROVE  T!Next
  <2>1. CASE paid
    <3>1. Advances(i, "returned") BY <1>4, <2>1 DEF on_packet_failure, Advances
    <3> QED BY <1>0, <3>1, AdvanceRefines DEF Progresses
  <2>2. CASE ~ paid
    <3>1. Advances(i, "stranded") BY <1>4, <2>2 DEF on_packet_failure, Advances
    <3> QED BY <1>0, <3>1, AdvanceRefines DEF Progresses
  <2> QED BY <2>1, <2>2
<1>5. ASSUME NEW i \in Ids, NEW accepted \in BOOLEAN, RemoteReceive(i, accepted) PROVE T!Next
  <2>1. packets[i].progress = "sent" BY <1>5 DEF RemoteReceive
  <2>2. CASE accepted
    <3>1. Advances(i, "delivered") BY <1>5, <2>2, RemoteReceiveKeeps
    <3> QED BY <1>0, <2>1, <3>1, AdvanceRefines DEF Progresses
  <2>3. CASE ~ accepted
    <3>1. Advances(i, "refused") BY <1>5, <2>3, RemoteReceiveKeeps
    <3> QED BY <1>0, <2>1, <3>1, AdvanceRefines DEF Progresses
  <2> QED BY <2>2, <2>3
<1>6. ASSUME NEW c \in Channels, NEW path \in Channels \cup {None}, NEW d \in Denoms,
             NEW n \in Amounts, RemoteSend(c, path, d, n)
      PROVE  T!Next
  <2>1. packets' = Append(packets, Packet("in", c, path, d, n)) BY <1>6 DEF RemoteSend
  <2>2. Packet("in", c, path, d, n) \in PacketRecord BY NewPacket
  <2> QED BY <1>0, <2>1, <2>2, NewShown, AppendRefines
<1>7. ASSUME NEW i \in Ids, RemoteReturn(i) PROVE T!Next
  BY <1>0, <1>7, RemoteReturnKeeps, AdvanceRefines DEF Progresses
<1>8. \A gas \in GasLimit : migrate(gas) => UNCHANGED packets BY DEF migrate
<1>9. \A c \in Channels : ibc_channel_connect(c) => UNCHANGED packets BY DEF ibc_channel_connect
<1>10. \A sender \in Admins, token \in Tokens, gas \in GasLimit :
         execute_allow(sender, token, gas) => UNCHANGED packets
  BY DEF execute_allow
<1>11. \A sender, new_admin \in Admins : execute_update_admin(sender, new_admin) => UNCHANGED packets
  BY DEF execute_update_admin
<1>12. ASSUME NEW i \in Ids, NEW paid \in BOOLEAN, ibc_packet_ack(i, paid) PROVE T!Next
  BY <1>4, <1>12 DEF ibc_packet_ack
<1>13. ASSUME NEW i \in Ids, NEW paid \in BOOLEAN, ibc_packet_timeout(i, paid) PROVE T!Next
  BY <1>4, <1>13 DEF ibc_packet_timeout
<1>14. UNCHANGED vars => UNCHANGED packets BY DEF vars
<1> QED
  BY <1>1, <1>2, <1>3, <1>5, <1>6, <1>7, <1>8, <1>9, <1>10, <1>11, <1>12, <1>13, <1>14 DEF Next

LEMMA InitRefines == Init => T!Init
<1> SUFFICES ASSUME Init PROVE T!Init OBVIOUS
<1>1. PacketsOK BY InitIInv DEF IInv
<1>2. ASSUME NEW i \in Ids PROVE Progress[i] = T!Sent
  <2>1. CASE instantiate BY <1>2, <2>1 DEF instantiate, Ids
  <2>2. CASE \E c \in Channels, d \in Denoms, n \in Amounts, given \in {0, 1} :
               old_storage(c, d, n, given)
    <3>1. PICK c \in Channels, d \in Denoms, n \in Amounts :
            packets \in {<<>>, <<Packet("out", c, None, d, n)>>}
      BY <2>2 DEF old_storage
    <3>2. packets[i] = Packet("out", c, None, d, n) BY <1>2, <3>1 DEF Ids
    <3>3. Progress[i] = Shown(packets[i]) BY <1>1, ProgressFields
    <3> QED BY <3>2, <3>3, NewShown
  <2> QED BY <2>1, <2>2 DEF Init
<1>3. T!Ids = Ids BY <1>1, ProgressFields
<1> QED BY <1>2, <1>3 DEF T!Init

(* The bridge implements Transfers: over any channel, to honest chains and *)
(* others, no transfer is credited twice or on both sides.                 *)
THEOREM Refinement == Spec => ImplementsTransfers
<1> QED BY InitRefines, StepRefines, Invariance, PTL DEF Spec, ImplementsTransfers, T!Spec

-----------------------------------------------------------------------------
(* What a channel owes.  Share is what one packet adds to it.              *)
Share(p, k) == IF Owes(p, k) THEN p.amount ELSE 0
Pending(k) == Total([i \in Ids |-> Share(packets[i], k)])

LEMMA OwedPending ==
  \A k : Owed(k) = vouchers[k] + Pending(k) /\ Owed(k)' = vouchers'[k] + Pending(k)'
BY DEF Owed, Pending, Share, Owes, Key

LEMMA IdsFinite ==
  ASSUME PacketsOK
  PROVE  IsFiniteSet(Ids) /\ Len(packets) \in Nat
<1>1. Len(packets) \in Nat BY DEF PacketsOK
<1> QED BY <1>1, FS_Interval DEF Ids

LEMMA ShareType ==
  ASSUME NEW p \in PacketRecord, NEW k
  PROVE  Share(p, k) \in Nat /\ (k # Key(p) => Share(p, k) = 0)
BY DEF Share, Owes, PacketRecord

LEMMA PendingType ==
  ASSUME PacketsOK, NEW k \in Keys
  PROVE  Pending(k) \in Nat /\ [i \in Ids |-> Share(packets[i], k)] \in [Ids -> Nat]
<1>1. [i \in Ids |-> Share(packets[i], k)] \in [Ids -> Nat] BY PacketFields, ShareType
<1> QED BY <1>1, IdsFinite, TotalType DEF Pending

LEMMA PendingAdvance ==
  ASSUME PacketsOK, NEW i \in Ids, NEW g \in Progresses, Advances(i, g), NEW k \in Keys
  PROVE  Pending(k)' = IF g \in {"sent", "refused"} THEN Pending(k)
                       ELSE Pending(k) - Share(packets[i], k)
<1> DEFINE f == [j \in Ids |-> Share(packets[j], k)]
           v == Share(Settled(i, g), k)
<1>1. /\ Settled(i, g) \in PacketRecord /\ Ids' = Ids
      /\ \A j \in Ids : packets'[j] = IF j = i THEN Settled(i, g) ELSE packets[j]
  BY AdvancedPacket
<1>2. packets[i] \in PacketRecord BY PacketFields
<1>3. v = IF g \in {"sent", "refused"} THEN Share(packets[i], k) ELSE 0
  <2>1. /\ Settled(i, g).progress = g /\ Settled(i, g).amount = packets[i].amount
        /\ Settled(i, g).dir = packets[i].dir /\ Settled(i, g).path = packets[i].path
        /\ Settled(i, g).channel = packets[i].channel /\ Settled(i, g).denom = packets[i].denom
    BY <1>2 DEF Settled, PacketRecord
  <2>2. packets[i].progress \in {"sent", "refused"} BY DEF Advances
  <2> QED BY <2>1, <2>2 DEF Share, Owes, Key
<1>4. Pending(k)' = Total([j \in Ids |-> Share(packets'[j], k)])
  BY <1>1 DEF Pending, Share, Owes, Key
<1>5. [j \in Ids |-> Share(packets'[j], k)] = [f EXCEPT ![i] = v]
  <2>1. \A j \in Ids : Share(packets'[j], k) = IF j = i THEN v ELSE f[j] BY <1>1
  <2> HIDE DEF v
  <2> QED BY <2>1
<1>6. f \in [Ids -> Nat] /\ Pending(k) \in Nat BY PendingType
<1>7. v \in Nat /\ f[i] = Share(packets[i], k) /\ f[i] \in Nat BY <1>1, <1>2, ShareType
<1>8. Total(f) = Pending(k) BY DEF Pending
<1>9. \A F \in [Ids -> Nat], x \in Ids, n \in Nat : Total([F EXCEPT ![x] = n]) = Total(F) - F[x] + n
  BY IdsFinite, TotalUpdate
<1> HIDE DEF f, v
<1>10. Total([f EXCEPT ![i] = v]) = Total(f) - f[i] + v BY <1>6, <1>7, <1>9, Zenon
<1> QED BY <1>3, <1>4, <1>5, <1>6, <1>7, <1>8, <1>10

LEMMA PendingAppend ==
  ASSUME PacketsOK, NEW p \in PacketRecord, packets' = Append(packets, p), NEW k \in Keys
  PROVE  Pending(k)' = Pending(k) + Share(p, k)
<1> DEFINE m == Len(packets)
           f == [j \in Ids |-> Share(packets[j], k)]
           g == [j \in Ids \cup {m + 1} |-> Share(packets'[j], k)]
<1>1. /\ m \in Nat /\ Len(packets') = m + 1 /\ packets'[m + 1] = p
      /\ \A i \in Ids : packets'[i] = packets[i]
  BY AppendProperties DEF PacketsOK, Ids
<1>2. Ids' = Ids \cup {m + 1} /\ m + 1 \notin Ids BY <1>1 DEF Ids
<1>3. Pending(k)' = Total(g) BY <1>2 DEF Pending, Share, Owes, Key
<1>4. f \in [Ids -> Nat] /\ Pending(k) = Total(f) BY PendingType DEF Pending
<1>5. g[m + 1] = Share(p, k) /\ \A i \in Ids : g[i] = f[i] BY <1>1
<1>6. Share(p, k) \in Nat BY ShareType
<1>7. g \in [Ids \cup {m + 1} -> Nat]
  <2>1. \A j \in Ids \cup {m + 1} : g[j] \in Nat BY <1>4, <1>5, <1>6
  <2> QED BY <2>1
<1> HIDE DEF f, g, m
<1> DEFINE x == m + 1
           v == Share(p, k)
<1>8. /\ x \notin Ids /\ v \in Nat /\ f \in [Ids -> Nat] /\ g \in [Ids \cup {x} -> Nat]
      /\ g[x] = v /\ \A i \in Ids : g[i] = f[i]
  BY <1>2, <1>4, <1>5, <1>6, <1>7
<1> HIDE DEF x, v
<1>9. Total(g) = Total(f) + v
  <2>1. IsFiniteSet(Ids) BY IdsFinite
  <2>2. \A y : \A w \in Nat, F \in [Ids -> Nat], G \in [Ids \cup {y} -> Nat] :
          (/\ y \notin Ids /\ G[y] = w
           /\ \A j \in Ids : G[j] = F[j]) => Total(G) = Total(F) + w
    BY <2>1, TotalExtend
  <2> QED BY <1>8, <2>2, Zenon
<1> QED BY <1>3, <1>4, <1>9 DEF v

HonestKeys == {k \in Keys : k[1] \in Honest}

LEMMA CoveredIs ==
  /\ Covered <=> (Ready => \A k \in HonestKeys : outstanding[k] >= vouchers[k] + Pending(k))
  /\ Covered' <=> (Ready' => \A k \in HonestKeys : outstanding'[k] >= vouchers'[k] + Pending(k)')
BY OwedPending DEF Covered, HonestKeys

LEMMA Amounted ==
  ASSUME IInv, NEW k \in Keys
  PROVE  outstanding[k] \in Nat /\ vouchers[k] \in Nat /\ Pending(k) \in Nat
BY PendingType DEF IInv, BalanceOK, PacketsOK

LEMMA IssuedAt ==
  ASSUME PacketsOK, NEW p \in PacketRecord, NEW n \in Int, NEW k \in HonestKeys
  PROVE  Issued(p, n)[k] = IF k = Key(p) THEN vouchers[k] + n ELSE vouchers[k]
<1>1. Key(p) \in Keys /\ Key(p)[1] = p.channel BY DEF Key, Keys, PacketRecord
<1>2. vouchers \in [Keys -> Nat] /\ k \in Keys /\ k[1] \in Honest BY DEF PacketsOK, HonestKeys
<1> QED BY <1>1, <1>2 DEF Issued

(* Delivery on either side, refund or not: what leaves the balance or the  *)
(* packet in flight is what is no longer owed.                             *)
LEMMA CoveredFailure ==
  ASSUME IInv, Covered, Ready, NEW i \in Ids, NEW paid \in BOOLEAN, on_packet_failure(i, paid),
         packets[i].dir = "out", packets[i].progress \in {"sent", "refused"}
  PROVE  Covered'
<1> DEFINE x == Key(packets[i])
           n == packets[i].amount
           g == IF paid THEN "returned" ELSE "stranded"
<1>1. x \in Keys /\ n \in Nat BY PacketFields DEF IInv
<1>2. outstanding' = [outstanding EXCEPT ![x] = @ - n] /\ vouchers' = vouchers
  BY DEF on_packet_failure, Reduced
<1>3. Advances(i, g) BY DEF on_packet_failure, Advances
<1>4. Share(packets[i], x) = n BY DEF Share, Owes
<1>5. \A k \in Keys : k # x => Share(packets[i], k) = 0 BY PacketFields, ShareType DEF IInv
<1>6. \A k \in Keys : Pending(k)' = Pending(k) - Share(packets[i], k)
  BY <1>3, PendingAdvance DEF IInv, Progresses
<1>7. outstanding \in [Keys -> Nat] BY DEF IInv, BalanceOK
<1> HIDE DEF x, n, g
<1>8. ASSUME NEW k \in HonestKeys PROVE outstanding'[k] >= vouchers'[k] + Pending(k)'
  <2>1. /\ k \in Keys /\ outstanding[k] \in Nat /\ vouchers[k] \in Nat /\ Pending(k) \in Nat
        /\ outstanding[k] >= vouchers[k] + Pending(k)
    BY Amounted, CoveredIs DEF HonestKeys
  <2>2. CASE k = x BY <1>1, <1>2, <1>4, <1>6, <1>7, <2>1, <2>2
  <2>3. CASE k # x BY <1>1, <1>2, <1>5, <1>6, <1>7, <2>1, <2>3
  <2> QED BY <2>2, <2>3
<1> QED BY <1>8, CoveredIs

LEMMA CoveredReceive ==
  ASSUME IInv, Covered, NEW i \in Ids, NEW paid \in BOOLEAN, ibc_packet_receive(i, paid)
  PROVE  Covered'
<1> DEFINE x == Key(packets[i])
           n == packets[i].amount
<1>1. x \in Keys /\ n \in Nat BY PacketFields DEF IInv
<1>2. Ready /\ vouchers' = vouchers BY ReceiveEffect
<1>3. outstanding \in [Keys -> Nat] BY DEF IInv, BalanceOK
<1>4. CASE paid
  <2>1. outstanding' = [outstanding EXCEPT ![x] = @ - n] BY <1>4, ReceiveEffect DEF Reduced
  <2>2. Share(packets[i], x) = n BY <1>4, ReceiveEffect DEF Share, Owes
  <2>3. \A k \in Keys : k # x => Share(packets[i], k) = 0 BY PacketFields, ShareType DEF IInv
  <2>4. \A k \in Keys : Pending(k)' = Pending(k) - Share(packets[i], k)
    BY <1>4, ReceiveEffect, PendingAdvance DEF IInv, Progresses
  <2> HIDE DEF x, n
  <2>5. ASSUME NEW k \in HonestKeys PROVE outstanding'[k] >= vouchers'[k] + Pending(k)'
    <3>1. /\ k \in Keys /\ outstanding[k] \in Nat /\ vouchers[k] \in Nat /\ Pending(k) \in Nat
          /\ outstanding[k] >= vouchers[k] + Pending(k)
      BY <1>2, Amounted, CoveredIs DEF HonestKeys
    <3>2. CASE k = x BY <1>1, <1>2, <1>3, <2>1, <2>2, <2>4, <3>1, <3>2
    <3>3. CASE k # x BY <1>1, <1>2, <1>3, <2>1, <2>3, <2>4, <3>1, <3>3
    <3> QED BY <3>2, <3>3
  <2> QED BY <2>5, CoveredIs
<1>5. CASE ~ paid
  <2>1. \A k \in Keys : Pending(k)' = Pending(k)
    BY <1>5, ReceiveEffect, PendingAdvance DEF IInv, Progresses
  <2>2. outstanding' = outstanding BY <1>5, ReceiveEffect
  <2> QED BY <1>2, <2>1, <2>2, CoveredIs DEF HonestKeys
<1> QED BY <1>4, <1>5

LEMMA CoveredRemoteReceive ==
  ASSUME IInv, Covered, NEW i \in Ids, NEW accepted \in BOOLEAN, RemoteReceive(i, accepted)
  PROVE  Covered'
<1> DEFINE x == Key(packets[i])
           n == packets[i].amount
<1>1. x \in Keys /\ n \in Nat /\ packets[i] \in PacketRecord BY PacketFields DEF IInv
<1>2. Ready /\ UNCHANGED outstanding /\ packets[i].dir = "out" /\ packets[i].progress = "sent"
  BY DEF RemoteReceive, balance
<1>3. CASE accepted
  <2>1. vouchers' = Issued(packets[i], n) BY <1>3 DEF RemoteReceive
  <2>2. Share(packets[i], x) = n BY <1>2 DEF Share, Owes
  <2>3. \A k \in Keys : k # x => Share(packets[i], k) = 0 BY <1>1, ShareType
  <2>4. Advances(i, "delivered") BY <1>3, RemoteReceiveKeeps
  <2>5. \A k \in Keys : Pending(k)' = Pending(k) - Share(packets[i], k)
    BY <2>4, PendingAdvance DEF IInv, Progresses
  <2>6. ASSUME NEW k \in HonestKeys PROVE outstanding'[k] >= vouchers'[k] + Pending(k)'
    <3>1. /\ k \in Keys /\ outstanding[k] \in Nat /\ vouchers[k] \in Nat /\ Pending(k) \in Nat
          /\ outstanding[k] >= vouchers[k] + Pending(k)
      BY <1>2, Amounted, CoveredIs DEF HonestKeys
    <3>2. vouchers'[k] = IF k = x THEN vouchers[k] + n ELSE vouchers[k]
      BY <1>1, <2>1, IssuedAt DEF IInv
    <3> HIDE DEF x, n
    <3>3. CASE k = x BY <1>1, <1>2, <2>2, <2>5, <3>1, <3>2, <3>3
    <3>4. CASE k # x BY <1>1, <1>2, <2>3, <2>5, <3>1, <3>2, <3>4
    <3> QED BY <3>3, <3>4
  <2> QED BY <2>6, CoveredIs
<1>4. CASE ~ accepted
  <2>1. Advances(i, "refused") /\ vouchers' = vouchers
    BY <1>4, RemoteReceiveKeeps DEF RemoteReceive
  <2>2. \A k \in Keys : Pending(k)' = Pending(k) BY <2>1, PendingAdvance DEF IInv, Progresses
  <2> QED BY <1>2, <2>1, <2>2, CoveredIs DEF HonestKeys
<1> QED BY <1>3, <1>4

LEMMA CoveredRemoteReturn ==
  ASSUME IInv, Covered, NEW i \in Ids, RemoteReturn(i)
  PROVE  Covered'
<1> DEFINE x == Key(packets[i])
           n == packets[i].amount
           own == packets[i].path = packets[i].channel
<1>1. x \in Keys /\ n \in Nat /\ packets[i] \in PacketRecord BY PacketFields DEF IInv
<1>2. /\ Ready /\ UNCHANGED outstanding
      /\ packets[i].dir = "in" /\ packets[i].progress \in {"sent", "refused"}
      /\ vouchers' = IF own THEN Issued(packets[i], n) ELSE vouchers
  BY DEF RemoteReturn, balance
<1>3. \A k \in Keys : Share(packets[i], k) = IF own /\ k = x THEN n ELSE 0
  BY <1>2 DEF Share, Owes
<1>4. Advances(i, "returned") BY RemoteReturnKeeps
<1>5. \A k \in Keys : Pending(k)' = Pending(k) - Share(packets[i], k)
  BY <1>4, PendingAdvance DEF IInv, Progresses
<1>6. ASSUME NEW k \in HonestKeys PROVE outstanding'[k] >= vouchers'[k] + Pending(k)'
  <2>1. /\ k \in Keys /\ outstanding[k] \in Nat /\ vouchers[k] \in Nat /\ Pending(k) \in Nat
        /\ outstanding[k] >= vouchers[k] + Pending(k)
    BY <1>2, Amounted, CoveredIs DEF HonestKeys
  <2>2. Issued(packets[i], n)[k] = IF k = x THEN vouchers[k] + n ELSE vouchers[k]
    BY <1>1, IssuedAt DEF IInv
  <2> HIDE DEF x, n, own
  <2>3. CASE own /\ k = x BY <1>1, <1>2, <1>3, <1>5, <2>1, <2>2, <2>3
  <2>4. CASE ~ (own /\ k = x) BY <1>1, <1>2, <1>3, <1>5, <2>1, <2>2, <2>4
  <2> QED BY <2>3, <2>4
<1> QED BY <1>6, CoveredIs

LEMMA CoveredRemoteSend ==
  ASSUME IInv, Covered, NEW c \in Channels, NEW path \in Channels \cup {None}, NEW d \in Denoms,
         NEW n \in Amounts, RemoteSend(c, path, d, n)
  PROVE  Covered'
<1> DEFINE p == Packet("in", c, path, d, n)
           x == <<c, d>>
<1>1. p \in PacketRecord /\ Key(p) = x /\ x \in Keys /\ n \in Nat
  BY NewPacket, Ics20Numbers DEF Keys
<1>2. /\ Ready /\ UNCHANGED outstanding /\ packets' = Append(packets, p)
      /\ vouchers' = IF path = c THEN Issued(p, -n) ELSE vouchers
  BY DEF RemoteSend, balance
<1>3. \A k \in Keys : Share(p, k) = IF path = c /\ k = x THEN n ELSE 0
  <2>1. /\ p.dir = "in" /\ p.path = path /\ p.channel = c /\ p.progress = "sent"
        /\ p.amount = n
    BY DEF Packet
  <2> QED BY <1>1, <2>1 DEF Share, Owes
<1> HIDE DEF p, x
<1>4. \A k \in Keys : Pending(k)' = Pending(k) + Share(p, k) BY <1>1, <1>2, PendingAppend DEF IInv
<1>5. ASSUME NEW k \in HonestKeys PROVE outstanding'[k] >= vouchers'[k] + Pending(k)'
  <2>1. /\ k \in Keys /\ outstanding[k] \in Nat /\ vouchers[k] \in Nat /\ Pending(k) \in Nat
        /\ outstanding[k] >= vouchers[k] + Pending(k)
    BY <1>2, Amounted, CoveredIs DEF HonestKeys
  <2>2. -n \in Int BY <1>1
  <2>3. Issued(p, -n)[k] = IF k = x THEN vouchers[k] + (-n) ELSE vouchers[k]
    BY <1>1, <2>2, IssuedAt DEF IInv
  <2>4. CASE path = c /\ k = x BY <1>1, <1>2, <1>3, <1>4, <2>1, <2>3, <2>4
  <2>5. CASE ~ (path = c /\ k = x) BY <1>1, <1>2, <1>3, <1>4, <2>1, <2>3, <2>5
  <2> QED BY <2>4, <2>5
<1> QED BY <1>5, CoveredIs

LEMMA CoveredTransfer ==
  ASSUME IInv, Covered, NEW c \in Channels, NEW d \in Denoms, NEW n \in Amounts,
         execute_transfer(c, d, n)
  PROVE  Covered'
<1> DEFINE p == Packet("out", c, None, d, n)
           x == <<c, d>>
<1>1. p \in PacketRecord /\ Key(p) = x /\ x \in Keys /\ n \in Nat
  BY NewPacket, Ics20Numbers DEF Keys
<1>2. /\ Ready /\ UNCHANGED vouchers /\ packets' = Append(packets, p)
      /\ outstanding' = [outstanding EXCEPT ![x] = @ + n]
  BY DEF execute_transfer, increase_channel_balance
<1>3. \A k \in Keys : Share(p, k) = IF k = x THEN n ELSE 0
  <2>1. p.dir = "out" /\ p.progress = "sent" /\ p.amount = n BY DEF Packet
  <2> QED BY <1>1, <2>1 DEF Share, Owes
<1> HIDE DEF p, x
<1>4. \A k \in Keys : Pending(k)' = Pending(k) + Share(p, k) BY <1>1, <1>2, PendingAppend DEF IInv
<1>5. outstanding \in [Keys -> Nat] BY DEF IInv, BalanceOK
<1>6. ASSUME NEW k \in HonestKeys PROVE outstanding'[k] >= vouchers'[k] + Pending(k)'
  <2>1. /\ k \in Keys /\ outstanding[k] \in Nat /\ vouchers[k] \in Nat /\ Pending(k) \in Nat
        /\ outstanding[k] >= vouchers[k] + Pending(k)
    BY <1>2, Amounted, CoveredIs DEF HonestKeys
  <2>2. CASE k = x BY <1>1, <1>2, <1>3, <1>4, <1>5, <2>1, <2>2
  <2>3. CASE k # x BY <1>1, <1>2, <1>3, <1>4, <1>5, <2>1, <2>3
  <2> QED BY <2>2, <2>3
<1> QED BY <1>6, CoveredIs

(* The migration counts what is in flight, if there is an entry for it.    *)
LEMMA OldPending ==
  ASSUME NEW c \in Channels, NEW d \in Denoms, NEW n \in Amounts, NEW given \in {0, 1},
         old_storage(c, d, n, given), PacketsOK, ~ Unrecorded, NEW k \in Keys
  PROVE  /\ Pending(k) <= surplus[k[2]] /\ (Pending(k) = 0 \/ k \in recorded)
         /\ vouchers[k] <= outstanding[k]
<1> DEFINE f == [i \in Ids |-> Share(packets[i], k)]
<1>1. f \in [Ids -> Nat] /\ Pending(k) = Total(f) BY PendingType DEF Pending
<1>2. surplus[k[2]] \in Nat /\ outstanding[k] \in Nat BY OldBalances, KeyParts
<1>3. vouchers[k] <= outstanding[k]
  <2>1. vouchers[k] = IF c \in Honest THEN outstanding[k] ELSE 0 BY DEF old_storage
  <2> QED BY <1>2, <2>1
<1>4. CASE packets = <<>>
  <2>1. Ids = {} BY <1>4 DEF Ids
  <2>2. Total(f) = 0
    <3> HIDE DEF f
    <3> QED BY <1>1, <2>1, TotalZero
  <2> QED BY <1>1, <1>2, <1>3, <2>2
<1>5. CASE packets = <<Packet("out", c, None, d, n)>>
  <2> DEFINE p == Packet("out", c, None, d, n)
  <2>1. Ids = {1} /\ packets[1] = p BY <1>5 DEF Ids
  <2>2. Total(f) = Share(p, k)
    <3>1. f[1] = Share(p, k) BY <2>1
    <3> HIDE DEF f, p
    <3>2. IsFiniteSet(Ids) BY IdsFinite
    <3>3. Total(f) = f[1] BY <1>1, <2>1, <3>2, TotalSingle
    <3> QED BY <3>1, <3>3
  <2>3. Share(p, k) = IF k = <<c, d>> THEN n ELSE 0
    <3>1. p.dir = "out" /\ p.progress = "sent" /\ p.amount = n /\ Key(p) = <<c, d>>
      BY DEF Packet, Key
    <3> QED BY <3>1 DEF Share, Owes
  <2>4. surplus[d] = given + 1 * n /\ <<c, d>> \in recorded
    <3>1. surplus = [e \in Denoms |-> IF e = d THEN given + Len(packets) * n ELSE 0]
      BY DEF old_storage
    <3>2. Len(packets) = 1 BY <1>5
    <3>3. packets # <<>> BY <1>5
    <3> QED BY <3>1, <3>2, <3>3 DEF old_storage
  <2>5. n \in Nat BY Ics20Numbers
  <2> HIDE DEF f, p
  <2>6. CASE k = <<c, d>> BY <1>1, <1>3, <2>2, <2>3, <2>4, <2>5, <2>6
  <2>7. CASE k # <<c, d>> BY <1>1, <1>2, <1>3, <2>2, <2>3, <2>7
  <2> QED BY <2>6, <2>7
<1> QED BY <1>4, <1>5 DEF old_storage

LEMMA CoveredMigrate ==
  ASSUME IInv, Covered, ~ Unrecorded, NEW gas \in GasLimit, migrate(gas)
  PROVE  Covered'
<1>1. UNCHANGED <<packets, vouchers>> BY DEF migrate
<1>2. \A k \in Keys : Pending(k)' = Pending(k) BY <1>1 DEF Pending, Share, Owes, Key, Ids
<1>3. CASE Ready
  <2>1. outstanding' = [k \in Keys |-> outstanding[k] + Diff(k)] BY DEF migrate
  <2>2. \A k \in Keys : Diff(k) = 0 BY <1>3 DEF Diff
  <2>3. \A k \in Keys : outstanding'[k] = outstanding[k] BY <2>1, <2>2, Amounted
  <2> QED BY <1>1, <1>2, <1>3, <2>3, CoveredIs DEF HonestKeys
<1>4. CASE ~ Ready
  <2>1. PICK c \in Channels, d \in Denoms, n \in Amounts, given \in {0, 1} : old_storage(c, d, n, given)
    BY <1>4 DEF IInv, OldStorage
  <2>2. ASSUME NEW k \in HonestKeys PROVE outstanding'[k] >= vouchers'[k] + Pending(k)'
    <3>1. k \in Keys /\ k[2] \in Denoms BY KeyParts DEF HonestKeys
    <3>2. outstanding'[k] = IF k \in recorded THEN outstanding[k] + surplus[k[2]] ELSE 0
      BY <1>4, <2>1, <3>1, MigratedBalances
    <3>3. /\ Pending(k) <= surplus[k[2]] /\ (Pending(k) = 0 \/ k \in recorded)
          /\ vouchers[k] <= outstanding[k]
      BY <2>1, <3>1, OldPending DEF IInv
    <3>4. /\ outstanding[k] \in Nat /\ vouchers[k] \in Nat /\ Pending(k) \in Nat
          /\ surplus[k[2]] \in Nat /\ (k \notin recorded => outstanding[k] = 0)
      BY <3>1, Amounted DEF IInv, BalanceOK
    <3> QED BY <1>1, <1>2, <3>1, <3>2, <3>3, <3>4
  <2> QED BY <2>2, CoveredIs
<1> QED BY <1>3, <1>4

LEMMA InitCovered == Init => Covered
<1> SUFFICES ASSUME Init, Ready, NEW k \in HonestKeys PROVE outstanding[k] >= vouchers[k] + Pending(k)
  BY CoveredIs
<1>1. instantiate BY DEF Init, old_storage, Ready
<1>2. /\ packets = <<>> /\ outstanding = [j \in Keys |-> 0] /\ vouchers = outstanding
  BY <1>1 DEF instantiate
<1>3. Ids = {} BY <1>2 DEF Ids
<1>4. Pending(k) = 0
  <2> DEFINE f == [i \in Ids |-> Share(packets[i], k)]
  <2>1. f \in [{} -> Nat] /\ Pending(k) = Total(f) BY <1>3 DEF Pending
  <2> HIDE DEF f
  <2> QED BY <2>1, TotalZero
<1> QED BY <1>2, <1>4 DEF HonestKeys

LEMMA NextCovered ==
  ASSUME ~ Unrecorded
  PROVE  IInv /\ Covered /\ [Next]_vars => Covered'
<1> SUFFICES ASSUME IInv, Covered, [Next]_vars PROVE Covered' OBVIOUS
<1>1. ASSUME UNCHANGED <<version, outstanding, vouchers, packets>> PROVE Covered'
  BY <1>1 DEF Covered, Ready, Owed, Owes, Key, Ids
<1>2. ASSUME NEW gas \in GasLimit, migrate(gas) PROVE Covered'
  BY <1>2, CoveredMigrate
<1>3. ASSUME NEW c \in Channels, ibc_channel_connect(c) PROVE Covered'
  BY <1>1, <1>3 DEF ibc_channel_connect, balance
<1>4. ASSUME NEW sender \in Admins, NEW token \in Tokens, NEW gas \in GasLimit,
             execute_allow(sender, token, gas)
      PROVE  Covered'
  BY <1>1, <1>4 DEF execute_allow, balance
<1>5. ASSUME NEW sender \in Admins, NEW new_admin \in Admins, execute_update_admin(sender, new_admin)
      PROVE  Covered'
  BY <1>1, <1>5 DEF execute_update_admin, balance
<1>6. ASSUME NEW c \in Channels, NEW d \in Denoms, NEW n \in Amounts, execute_transfer(c, d, n)
      PROVE  Covered'
  BY <1>6, CoveredTransfer
<1>7. ASSUME NEW i \in Ids, NEW paid \in BOOLEAN, ibc_packet_receive(i, paid) PROVE Covered'
  BY <1>7, CoveredReceive
<1>8. ASSUME NEW i \in Ids, NEW paid \in BOOLEAN, ibc_packet_ack(i, paid) PROVE Covered'
  BY <1>8, CoveredFailure DEF ibc_packet_ack
<1>9. ASSUME NEW i \in Ids, NEW paid \in BOOLEAN, ibc_packet_timeout(i, paid) PROVE Covered'
  BY <1>9, CoveredFailure DEF ibc_packet_timeout
<1>10. ASSUME NEW i \in Ids, NEW accepted \in BOOLEAN, RemoteReceive(i, accepted) PROVE Covered'
  BY <1>10, CoveredRemoteReceive
<1>11. ASSUME NEW c \in Channels, NEW path \in Channels \cup {None}, NEW d \in Denoms,
              NEW n \in Amounts, RemoteSend(c, path, d, n)
       PROVE  Covered'
  BY <1>11, CoveredRemoteSend
<1>12. ASSUME NEW i \in Ids, RemoteReturn(i) PROVE Covered'
  BY <1>12, CoveredRemoteReturn
<1>13. CASE UNCHANGED vars BY <1>1, <1>13 DEF vars
<1> QED BY <1>2, <1>3, <1>4, <1>5, <1>6, <1>7, <1>8, <1>9, <1>10, <1>11, <1>12, <1>13 DEF Next

(* If no old storage has the first transfer of a denomination in flight    *)
(* (see Unrecorded), every voucher on an honest chain and every refund is  *)
(* backed by the outstanding balance of its channel.                       *)
THEOREM CoveredTheorem == ~ Unrecorded => (Spec => []Covered)
<1> SUFFICES ASSUME ~ Unrecorded PROVE Spec => []Covered OBVIOUS
<1>1. IInv /\ Covered /\ [Next]_vars => Covered' BY NextCovered
<1> QED BY <1>1, InitCovered, Invariance, PTL DEF Spec

(* What is outstanding of a denomination on any channel, or on all of      *)
(* them, is escrowed.                                                      *)
LEMMA EscrowSuffices ==
  ASSUME IInv, NEW d \in Denoms
  PROVE  LET due == [c \in Channels |-> outstanding[<<c, d>>]]
         IN  /\ due \in [Channels -> Nat] /\ escrow[d] \in Nat
             /\ escrow[d] >= Total(due)
             /\ \A c \in Channels : escrow[d] >= due[c]
<1> DEFINE due == [c \in Channels |-> outstanding[<<c, d>>]]
<1>1. \A c \in Channels : <<c, d>> \in Keys BY DEF Keys
<1>2. due \in [Channels -> Nat] BY <1>1 DEF IInv, BalanceOK
<1>3. escrow[d] = Total(due) + surplus[d] /\ escrow[d] \in Nat /\ surplus[d] \in Nat
  BY DEF IInv, BalanceOK, EscrowAccounted
<1> HIDE DEF due
<1>4. Total(due) \in Nat BY <1>2, Ics20Sets, TotalType
<1>5. ASSUME NEW c \in Channels PROVE escrow[d] >= due[c]
  <2>1. due[c] <= Total(due) /\ due[c] \in Nat BY <1>2, Ics20Sets, PartOfTotal
  <2> QED BY <1>3, <1>4, <2>1
<1>6. escrow[d] >= Total(due) BY <1>3, <1>4
<1> QED BY <1>2, <1>3, <1>5, <1>6 DEF due

LEMMA WaitingIsPaid ==
  ASSUME IInv, Covered, Ready, NEW i \in Ids, packets[i].channel \in Honest, Awaits(packets[i])
  PROVE  LET p == packets[i]
         IN  CanReduce(Key(p), p.amount) /\ MaySend(p.denom) /\ CanPay(p.denom, p.amount)
<1> DEFINE p == packets[i]
           k == Key(p)
           f == [j \in Ids |-> Share(packets[j], k)]
<1>1. /\ p \in PacketRecord /\ k \in Keys /\ k[1] = p.channel /\ k[2] = p.denom
      /\ p.denom \in Denoms /\ p.amount \in Nat \ {0} /\ p.channel \in Channels
      /\ k = <<p.channel, p.denom>>
  BY PacketFields DEF IInv, Key, PacketRecord
<1>2. k \in HonestKeys BY <1>1 DEF HonestKeys
<1>3. outstanding[k] >= vouchers[k] + Pending(k) BY <1>2, CoveredIs
<1>4. Owes(p, k) BY <1>1 DEF Owes, Awaits
<1>5. f[i] = p.amount BY <1>4 DEF Share
<1> HIDE DEF p, k
<1>6. f \in [Ids -> Nat] /\ Pending(k) = Total(f) BY <1>1, PendingType DEF IInv, Pending
<1> HIDE DEF f
<1>7. p.amount <= Pending(k) BY <1>5, <1>6, IdsFinite, PartOfTotal DEF IInv
<1>8. outstanding[k] >= p.amount
  BY <1>1, <1>3, <1>7, Amounted
<1>9. k \in recorded BY <1>1, <1>8 DEF IInv, BalanceOK
<1>10. MaySend(p.denom) BY <1>1, <1>9 DEF IInv, ConfigOK, CountedMayBeSent
<1>11. escrow[p.denom] >= outstanding[k] BY <1>1, EscrowSuffices
<1>12. escrow[p.denom] >= p.amount
  <2>1. escrow[p.denom] \in Nat /\ outstanding[k] \in Nat BY <1>1, EscrowSuffices, Amounted
  <2> QED BY <1>1, <1>8, <1>11, <2>1
<1> QED BY <1>8, <1>9, <1>10, <1>12 DEF CanReduce, CanPay, p, k

LEMMA AllArePaid ==
  ASSUME IInv, Covered, Ready, NEW d \in Denoms
  PROVE  escrow[d] >= Total([c \in Honest |-> Owed(<<c, d>>)])
<1> DEFINE owed == [c \in Honest |-> Owed(<<c, d>>)]
           due == [c \in Channels |-> outstanding[<<c, d>>]]
<1>1. ASSUME NEW c \in Honest
      PROVE  owed[c] \in Nat /\ owed[c] <= due[c]
  <2>1. <<c, d>> \in HonestKeys /\ <<c, d>> \in Keys /\ c \in Channels
    BY DEF HonestKeys, Keys, Honest
  <2>2. outstanding[<<c, d>>] >= vouchers[<<c, d>>] + Pending(<<c, d>>) BY <2>1, CoveredIs
  <2>3. owed[c] = vouchers[<<c, d>>] + Pending(<<c, d>>) BY OwedPending
  <2> QED BY <2>1, <2>2, <2>3, Amounted
<1>2. owed \in [Honest -> Nat] BY <1>1
<1>3. due \in [Channels -> Nat] /\ escrow[d] \in Nat /\ escrow[d] >= Total(due)
  BY EscrowSuffices
<1>4. Honest \in SUBSET Channels BY DEF Honest
<1>5. \A c \in Honest : owed[c] <= due[c] BY <1>1
<1> HIDE DEF owed, due
<1>6. Total(owed) <= Total(due) BY <1>2, <1>3, <1>4, <1>5, Ics20Sets, TotalMonotone
<1>7. Total(owed) \in Nat /\ Total(due) \in Nat
  <2>1. IsFiniteSet(Honest) BY <1>4, Ics20Sets, FS_Subset
  <2> QED BY <1>2, <1>3, <2>1, Ics20Sets, TotalType
<1> QED BY <1>3, <1>6, <1>7 DEF owed

(* On such storage no refund and no returning voucher of an honest chain   *)
(* is refused or finds the funds spent.                                    *)
THEOREM PaidTheorem == ~ Unrecorded => (Spec => []NoneRefused)
<1> SUFFICES ASSUME ~ Unrecorded PROVE Spec => []NoneRefused OBVIOUS
<1>1. IInv /\ Covered => NoneRefused
  BY WaitingIsPaid, AllArePaid DEF NoneRefused
<1>2. Spec => []Covered BY CoveredTheorem
<1> QED BY <1>1, <1>2, Invariance, PTL
=============================================================================
