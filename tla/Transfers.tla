----------------------------- MODULE Transfers -----------------------------
(***************************************************************************)
(* What a token bridge promises of each transfer, whichever way it goes:   *)
(* the receiver is credited once, or the sender is given back the amount   *)
(* once, or, if giving it back fails, nobody is; never two of these.       *)
(***************************************************************************)
EXTENDS Naturals, Sequences

VARIABLE transfers   \* per transfer, how far it is and who was credited

Transfer(progress, receiver, sender) ==
  [progress |-> progress, receiver |-> receiver, sender |-> sender]

Sent == Transfer("sent", 0, 0)

Ids == 1..Len(transfers)

Send == transfers' = Append(transfers, Sent)

(* Only a transfer for which nobody has been credited changes. *)
Becomes(i, t) ==
  /\ transfers[i] = Transfer(transfers[i].progress, 0, 0)
  /\ transfers' = [transfers EXCEPT ![i] = t]

(* The receiving chain credits the receiver or refuses. *)
Deliver(i) ==
  /\ transfers[i].progress = "sent"
  /\ Becomes(i, Transfer("delivered", 1, 0))

Refuse(i) ==
  /\ transfers[i].progress = "sent"
  /\ Becomes(i, Transfer("refused", 0, 0))

(* Refused, or not received in time, it goes back to the sender. *)
Return(i) ==
  /\ transfers[i].progress \in {"sent", "refused"}
  /\ Becomes(i, Transfer("returned", 0, 1))

Strand(i) ==
  /\ transfers[i].progress \in {"sent", "refused"}
  /\ Becomes(i, Transfer("stranded", 0, 0))

Init == \A i \in Ids : transfers[i] = Sent

Next ==
  \/ Send
  \/ \E i \in Ids : Deliver(i) \/ Refuse(i) \/ Return(i) \/ Strand(i)

Spec == Init /\ [][Next]_transfers
============================================================================
