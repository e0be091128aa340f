----------------------------- MODULE Cw20Ics20 -----------------------------
(***************************************************************************)
(* contracts/cw20-ics20: native coins and cw20 tokens leave the chain over *)
(* IBC channels, and come back as vouchers.  What is on the other side of  *)
(* a channel is held in escrow by the contract, whose CHANNEL_STATE counts *)
(* it by channel and denomination.                                         *)
(*                                                                         *)
(* Packets, acknowledgements and timeouts are relayed in any order and any *)
(* delay, each once: a packet is kept with its progress.  The chain at the *)
(* other end of a channel outside Faulty only sends back vouchers it has   *)
(* issued; one in Faulty sends anything.  A message sent by a handler and  *)
(* the reply to it belong to the handler's transaction, so they are parts  *)
(* of its action; the singleton REPLY_ARGS that connects them is what the  *)
(* action passes from one to the other.                                    *)
(***************************************************************************)
EXTENDS Integers, Sequences, Sums

CONSTANTS Channels,    \* ids of channels
          Faulty,      \* channels to a chain that makes vouchers up
          Natives,     \* denominations of the bank
          Tokens,      \* cw20 contracts
          Amounts,     \* amounts that are sent
          Supply,      \* how much there is of every denomination
          GasLimits,   \* gas limits that may be set
          Admins,      \* accounts that may be the admin
          None,        \* no gas limit; no channel
          NotListed,   \* not in ALLOW_LIST
          Unrecorded,  \* may old storage have its first transfer of a denomination in flight?
          MaxU64, MaxU128,
          MaxPackets   \* bound on the number of packets

(* Amount writes a token as "cw20:" and its address and reads it back.     *)
(* Natives and Tokens are disjoint, so no native denomination is taken for *)
(* a token, as the code would take one that begins with "cw20:".           *)
Denoms == Natives \cup Tokens
Keys == Channels \X Denoms
Honest == Channels \ Faulty
GasLimit == GasLimits \cup {None}

ASSUME Ics20Sets == IsFiniteSet(Channels) /\ Natives \cap Tokens = {}
ASSUME Ics20Numbers ==
  /\ Supply \in Nat /\ MaxU64 \in Nat /\ MaxU128 \in Nat
  /\ \A n \in Amounts : n \in Nat \ {0}
  /\ \A g \in GasLimits : g \in Nat
ASSUME Ics20Values ==
  /\ None \notin GasLimits /\ NotListed \notin GasLimit
  /\ None \notin Channels /\ Unrecorded \in BOOLEAN

VARIABLES version,                 \* "v1", "v2" or, from 0.13.1 on, "v3"
          admin,                   \* ADMIN
          default_gas_limit,       \* CONFIG
          allow_list,              \* ALLOW_LIST
          channels,                \* the keys of CHANNEL_INFO
          recorded,                \* the keys of CHANNEL_STATE
          outstanding, total_sent, \* its values
          escrow,                  \* what the contract owns, by denomination
          packets,                 \* every packet and how far it is
          vouchers,                \* what honest chains issued, by channel and denomination
          surplus                  \* what the contract owns and counts nowhere (history)

config == <<version, admin, default_gas_limit, allow_list, channels>>
balance == <<recorded, outstanding, total_sent>>
vars == <<version, admin, default_gas_limit, allow_list, channels, recorded,
          outstanding, total_sent, escrow, packets, vouchers, surplus>>

(* A packet goes out or comes in over a channel.  path is the channel that *)
(* the denomination in it names as its origin, None if it names none.      *)
Packet(dir, c, path, d, n) ==
  [dir |-> dir, channel |-> c, path |-> path, denom |-> d, amount |-> n,
   progress |-> "sent", receiver |-> 0, sender |-> 0]

Key(p) == <<p.channel, p.denom>>

(* What becomes of packet i, and who is credited for it. *)
One(b) == IF b THEN 1 ELSE 0
Advanced(i, progress, to_receiver, to_sender) ==
  LET p == packets[i]
  IN  [packets EXCEPT ![i] =
         [p EXCEPT !.progress = progress, !.receiver = p.receiver + One(to_receiver),
                   !.sender = p.sender + One(to_sender)]]

(* What execute_transfer takes in: cw20 tokens without a listing only if    *)
(* there is a default.                                                     *)
MayTransfer(d) == d \in Tokens /\ default_gas_limit = None => allow_list[d] # NotListed

(* Mutant of MaySend: the default is not looked up. *)
only_listed(d) == d \in Tokens => allow_list[d] # NotListed

(* check_gas_limit: may d be sent, with which limit ever?                  *)
MaySend(d) == d \in Tokens => allow_list[d] # NotListed \/ default_gas_limit # None

(* A contract just instantiated. *)
instantiate ==
  /\ version = "v3"
  /\ default_gas_limit \in GasLimit
  /\ allow_list \in [Tokens -> GasLimit \cup {NotListed}]
  /\ channels = {} /\ recorded = {} /\ packets = <<>>
  /\ outstanding = [k \in Keys |-> 0]
  /\ total_sent = outstanding /\ vouchers = outstanding
  /\ escrow = [d \in Denoms |-> 0] /\ surplus = escrow

(* Storage of an older version with one channel: what was acknowledged is  *)
(* counted, a packet in flight is not, and somebody may have sent tokens   *)
(* to the contract for no reason.  v1 had no default gas limit.            *)
old_storage(c, d, n, given) ==
  /\ version \in {"v1", "v2"}
  /\ default_gas_limit \in IF version = "v1" THEN {None} ELSE GasLimit
  /\ allow_list \in [Tokens -> GasLimit \cup {NotListed}]
  /\ channels = {c}
  /\ recorded \in SUBSET ({c} \X Denoms)
  /\ packets \in {<<>>, <<Packet("out", c, None, d, n)>>}
  /\ Unrecorded \/ packets = <<>> \/ <<c, d>> \in recorded
  /\ \A k \in recorded \cup {Key(packets[i]) : i \in 1..Len(packets)} : MayTransfer(k[2])
  /\ outstanding = [k \in Keys |-> IF k \in recorded THEN n ELSE 0]
  /\ total_sent = outstanding
  /\ vouchers = [k \in Keys |-> IF c \in Honest THEN outstanding[k] ELSE 0]
  /\ surplus = [e \in Denoms |->
       IF e = d THEN given + Len(packets) * n ELSE 0]
  /\ escrow = [e \in Denoms |-> outstanding[<<c, e>>] + surplus[e]]
  /\ \A e \in Denoms : escrow[e] <= Supply

Init ==
  /\ admin \in Admins
  /\ \/ instantiate
     \/ \E c \in Channels, d \in Denoms, n \in Amounts, given \in {0, 1} :
          n <= MaxU64 /\ old_storage(c, d, n, given)

-----------------------------------------------------------------------------
(* The chain runs migrate in the transaction that installs the new code.   *)
Ready == version = "v3"

(* Mutant of SetDefaultGas: the default can be unset. *)
unset_default(gas) == gas

SetDefaultGas(gas) == IF gas = None THEN default_gas_limit ELSE gas

(* What v2::update_balances adds to an entry of the only channel: all that *)
(* the contract owns of the denomination beyond it.                        *)
Diff(k) == IF k \in recorded /\ ~ Ready THEN escrow[k[2]] - outstanding[k] ELSE 0

migrate(gas) ==
  /\ ~ Ready => \A c, e \in channels : c = e
  /\ \A k \in Keys : Diff(k) >= 0
  /\ version' = "v3"
  /\ default_gas_limit' = SetDefaultGas(gas)
  /\ outstanding' = [k \in Keys |-> outstanding[k] + Diff(k)]
  /\ total_sent' = [k \in Keys |-> total_sent[k] + Diff(k)]
  /\ surplus' = [d \in Denoms |->
       IF ~ Ready /\ \E c \in Channels : <<c, d>> \in recorded THEN 0 ELSE surplus[d]]
  /\ UNCHANGED <<admin, allow_list, channels, recorded, escrow, packets, vouchers>>

(* ibc_channel_open has checked order and version; nothing closes.         *)
ibc_channel_connect(c) ==
  /\ Ready /\ c \notin channels
  /\ channels' = channels \cup {c}
  /\ UNCHANGED <<version, admin, default_gas_limit, allow_list, escrow, packets, vouchers, surplus>>
  /\ UNCHANGED balance

LowersGas(old, new) == IF old = None THEN new # None ELSE new # None /\ new < old

execute_allow(sender, token, gas) ==
  /\ Ready /\ sender = admin
  /\ allow_list[token] # NotListed => ~ LowersGas(allow_list[token], gas)
  /\ allow_list' = [allow_list EXCEPT ![token] = gas]
  /\ UNCHANGED <<version, admin, default_gas_limit, channels, escrow, packets, vouchers, surplus>>
  /\ UNCHANGED balance

execute_update_admin(sender, new_admin) ==
  /\ Ready /\ sender = admin
  /\ admin' = new_admin
  /\ UNCHANGED <<version, default_gas_limit, allow_list, channels, escrow, packets, vouchers, surplus>>
  /\ UNCHANGED balance

-----------------------------------------------------------------------------
(* send_amount fails without the funds; otherwise it may fail, for lack of *)
(* gas within the limit or for reasons of the bank, token or recipient.    *)
CanPay(d, n) == escrow[d] >= n

increase_channel_balance(k, n) ==
  /\ outstanding[k] + n <= MaxU128 /\ total_sent[k] + n <= MaxU128
  /\ recorded' = recorded \cup {k}
  /\ outstanding' = [outstanding EXCEPT ![k] = @ + n]
  /\ total_sent' = [total_sent EXCEPT ![k] = @ + n]

(* Mutant of CanReduce: only that there is an entry is looked at. *)
any_entry(k, n) == k \in recorded

CanReduce(k, n) == k \in recorded /\ outstanding[k] >= n

Reduced(k, n) == [outstanding EXCEPT ![k] = @ - n]

(* execute_transfer takes native coins from a message and cw20 tokens from *)
(* their contract's Receive message, which has moved them already.         *)
execute_transfer(c, d, n) ==
  /\ Ready
  /\ c \in channels
  /\ MayTransfer(d)
  /\ n <= MaxU64
  /\ Len(packets) < MaxPackets /\ escrow[d] + n <= Supply
  /\ increase_channel_balance(<<c, d>>, n)
  /\ escrow' = [escrow EXCEPT ![d] = @ + n]
  /\ packets' = Append(packets, Packet("out", c, None, d, n))
  /\ UNCHANGED <<vouchers, surplus>> /\ UNCHANGED config

(* Mutant of parse_voucher_denom: the channel of the voucher is ignored. *)
any_voucher(p) == p.path # None

parse_voucher_denom(p) == p.path = p.channel

(* Mutant of reply: what failed is not undone. *)
reply_keeps(p, paid) == Reduced(Key(p), p.amount)

(* A failed send is undone: the balance is what it was.                    *)
reply(p, paid) ==
  IF paid THEN Reduced(Key(p), p.amount)
  ELSE [Reduced(Key(p), p.amount) EXCEPT ![Key(p)] = @ + p.amount]

(* Mutant of Acknowledged: the reply leaves the success in place. *)
always_success(accepted, paid) == IF accepted THEN "delivered" ELSE "refused"

Acknowledged(accepted, paid) == IF accepted /\ paid THEN "delivered" ELSE "refused"

(* An error becomes an acknowledgement of it, not a failure of the call,   *)
(* so what was stored before the error stays.                              *)
ibc_packet_receive(i, paid) ==
  LET p == packets[i]
      funded == parse_voucher_denom(p) /\ CanReduce(Key(p), p.amount)
      accepted == funded /\ MaySend(p.denom)
  IN  /\ Ready
      /\ p.dir = "in" /\ p.progress = "sent"
      /\ paid => accepted /\ CanPay(p.denom, p.amount)
      /\ outstanding' =
           IF accepted THEN reply(p, paid)
           ELSE IF funded THEN Reduced(Key(p), p.amount) ELSE outstanding
      /\ escrow' = IF paid THEN [escrow EXCEPT ![p.denom] = @ - p.amount] ELSE escrow
      /\ packets' = Advanced(i, Acknowledged(accepted, paid), paid, FALSE)
      /\ UNCHANGED <<recorded, total_sent, vouchers, surplus>> /\ UNCHANGED config

(* The tokens go back to the sender.  If the balance does not suffice or   *)
(* there is no gas limit, the call fails and may be relayed again; if the  *)
(* sending fails, the reply leaves everything as it is.                    *)
on_packet_failure(i, paid) ==
  LET p == packets[i]
  IN  /\ CanReduce(Key(p), p.amount)
      /\ MaySend(p.denom)
      /\ paid => CanPay(p.denom, p.amount)
      /\ outstanding' = Reduced(Key(p), p.amount)
      /\ escrow' = IF paid THEN [escrow EXCEPT ![p.denom] = @ - p.amount] ELSE escrow
      /\ surplus' = IF paid THEN surplus ELSE [surplus EXCEPT ![p.denom] = @ + p.amount]
      /\ packets' = Advanced(i, IF paid THEN "returned" ELSE "stranded", FALSE, paid)
      /\ UNCHANGED <<recorded, total_sent, vouchers>> /\ UNCHANGED config

(* on_packet_success changes nothing: a success acknowledgement has no     *)
(* action, and it makes no difference whether it is relayed.               *)
ibc_packet_ack(i, paid) ==
  /\ Ready
  /\ packets[i].dir = "out" /\ packets[i].progress = "refused"
  /\ on_packet_failure(i, paid)

ibc_packet_timeout(i, paid) ==
  /\ Ready
  /\ packets[i].dir = "out" /\ packets[i].progress = "sent"
  /\ on_packet_failure(i, paid)

-----------------------------------------------------------------------------
(* The other chains. *)

Issued(p, n) == IF p.channel \in Honest THEN [vouchers EXCEPT ![Key(p)] = @ + n] ELSE vouchers

(* An outgoing packet is received: vouchers are issued, or it is refused.  *)
RemoteReceive(i, accepted) ==
  /\ Ready
  /\ packets[i].dir = "out" /\ packets[i].progress = "sent"
  /\ packets' = Advanced(i, IF accepted THEN "delivered" ELSE "refused", accepted, FALSE)
  /\ vouchers' = IF accepted THEN Issued(packets[i], packets[i].amount) ELSE vouchers
  /\ UNCHANGED <<escrow, surplus>> /\ UNCHANGED balance /\ UNCHANGED config

(* A chain sends vouchers of the channel back, or tokens of its own, or    *)
(* vouchers it received over another channel.                              *)
RemoteSend(c, path, d, n) ==
  LET p == Packet("in", c, path, d, n)
  IN  /\ Ready
      /\ Len(packets) < MaxPackets
      /\ c \in channels
      /\ c \in Honest /\ path = c => vouchers[Key(p)] >= n
      /\ vouchers' = IF path = c THEN Issued(p, -n) ELSE vouchers
      /\ packets' = Append(packets, p)
      /\ UNCHANGED <<escrow, surplus>> /\ UNCHANGED balance /\ UNCHANGED config

(* An incoming packet was refused, or timed out before it was received:    *)
(* its sender gets the vouchers back.                                      *)
RemoteReturn(i) ==
  LET p == packets[i]
  IN  /\ Ready
      /\ p.dir = "in" /\ p.progress \in {"sent", "refused"}
      /\ vouchers' = IF p.path = p.channel THEN Issued(p, p.amount) ELSE vouchers
      /\ packets' = Advanced(i, "returned", FALSE, TRUE)
      /\ UNCHANGED <<escrow, surplus>> /\ UNCHANGED balance /\ UNCHANGED config

-----------------------------------------------------------------------------
Ids == 1..Len(packets)

Next ==
  \/ \E gas \in GasLimit : migrate(gas)
  \/ \E c \in Channels : ibc_channel_connect(c)
  \/ \E sender \in Admins, token \in Tokens, gas \in GasLimit : execute_allow(sender, token, gas)
  \/ \E sender, new_admin \in Admins : execute_update_admin(sender, new_admin)
  \/ \E c \in Channels, d \in Denoms, n \in Amounts : execute_transfer(c, d, n)
  \/ \E i \in Ids, paid \in BOOLEAN : ibc_packet_receive(i, paid)
  \/ \E i \in Ids, paid \in BOOLEAN : ibc_packet_ack(i, paid)
  \/ \E i \in Ids, paid \in BOOLEAN : ibc_packet_timeout(i, paid)
  \/ \E i \in Ids, accepted \in BOOLEAN : RemoteReceive(i, accepted)
  \/ \E c \in Channels, path \in Channels \cup {None}, d \in Denoms, n \in Amounts :
       RemoteSend(c, path, d, n)
  \/ \E i \in Ids : RemoteReturn(i)

Spec == Init /\ [][Next]_vars

(* What relayers do for a packet: bring it, its timeout or its refusal.    *)
Relay(i) ==
  \/ \E b \in BOOLEAN :
       \/ RemoteReceive(i, b)
       \/ ibc_packet_timeout(i, b)
       \/ ibc_packet_ack(i, b)
       \/ ibc_packet_receive(i, b)
  \/ RemoteReturn(i)

(* They do so sooner or later for every packet.                            *)
Fairness == \A i \in 1..MaxPackets : WF_vars(i \in Ids /\ Relay(i))

(* New code starts with migrate, which the chain runs at once. *)
FairSpec == Spec /\ Fairness /\ WF_vars(~ Ready /\ \E gas \in GasLimit : migrate(gas))

-----------------------------------------------------------------------------
PacketRecord ==
  [dir: {"out", "in"}, channel: Channels, path: Channels \cup {None}, denom: Denoms,
   amount: Nat \ {0}, progress: {"sent", "delivered", "refused", "returned", "stranded"},
   receiver: Nat, sender: Nat]

(* Type invariant: no balance is ever negative, and nothing is outstanding *)
(* that was not sent or without an entry.                                  *)
TypeOK ==
  /\ version \in {"v1", "v2", "v3"} /\ admin \in Admins
  /\ default_gas_limit \in GasLimit
  /\ allow_list \in [Tokens -> GasLimit \cup {NotListed}]
  /\ channels \subseteq Channels /\ recorded \subseteq Keys
  /\ outstanding \in [Keys -> Nat] /\ total_sent \in [Keys -> Nat]
  /\ \A k \in Keys : /\ outstanding[k] <= total_sent[k]
                     /\ k \notin recorded => outstanding[k] = 0
  /\ escrow \in [Denoms -> Nat] /\ surplus \in [Denoms -> Nat]
  /\ packets \in Seq(PacketRecord) /\ vouchers \in [Keys -> Nat]

(* Through failed sends, refunds that fail and the migration, the contract *)
(* owns what it counts as outstanding over all channels, and besides it    *)
(* only what was never counted or could not be refunded.                   *)
EscrowAccounted ==
  \A d \in Denoms :
    escrow[d] = Total([c \in Channels |-> outstanding[<<c, d>>]]) + surplus[d]

(* A denomination that is counted can be sent: no change of the allow list *)
(* or of the default makes the contract refuse to pay out what it has let  *)
(* in, or drop it after the balance has been reduced.                      *)
CountedMayBeSent == \A k \in recorded : MaySend(k[2])

(* What a channel owes to an honest chain: its vouchers, and the packets   *)
(* that may still be refunded here or become vouchers again there.         *)
Owes(p, k) ==
  /\ Key(p) = k
  /\ p.progress \in {"sent", "refused"}
  /\ p.dir = "out" \/ p.path = p.channel

Owed(k) ==
  vouchers[k] + Total([i \in Ids |-> IF Owes(packets[i], k) THEN packets[i].amount ELSE 0])

(* Whatever other channels do, and however packets, acknowledgements and   *)
(* timeouts overtake each other, a channel to an honest chain counts at    *)
(* least what it owes: every voucher and every refund can be paid.         *)
Covered == Ready => \A k \in Keys : k[1] \in Honest => outstanding[k] >= Owed(k)

(* What waits to be paid out by the contract: refunds that may be claimed, *)
(* and vouchers of the channel on their way back.                          *)
Awaits(p) ==
  \/ p.dir = "out" /\ p.progress \in {"sent", "refused"}
  \/ p.dir = "in" /\ p.progress = "sent" /\ p.path = p.channel

(* Over a channel to an honest chain none of it is refused, whichever of   *)
(* the others is paid before and whatever faulty chains take; and if all   *)
(* honest chains came at once, the funds would do for all they are owed.   *)
NoneRefused ==
  Ready =>
    /\ \A i \in Ids : packets[i].channel \in Honest /\ Awaits(packets[i]) =>
         LET p == packets[i]
         IN  CanReduce(Key(p), p.amount) /\ MaySend(p.denom) /\ CanPay(p.denom, p.amount)
    /\ \A d \in Denoms : escrow[d] >= Total([c \in Honest |-> Owed(<<c, d>>)])

(* Every transfer over a channel to an honest chain comes to an end: it is *)
(* delivered, given back, or its refund has failed.                        *)
Settles ==
  \A i \in 1..MaxPackets :
    (i \in Ids /\ packets[i].channel \in Honest)
      ~> (i \in Ids /\ packets[i].progress \in {"delivered", "returned", "stranded"})

(* No transfer is paid out twice, on one side or on both, and none that is *)
(* acknowledged as delivered was not.                                      *)
Progress == [i \in Ids |-> [progress |-> packets[i].progress,
                            receiver |-> packets[i].receiver, sender |-> packets[i].sender]]
T == INSTANCE Transfers WITH transfers <- Progress
ImplementsTransfers == T!Spec
=============================================================================
