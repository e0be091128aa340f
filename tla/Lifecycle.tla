----------------------------- MODULE Lifecycle -----------------------------
(***************************************************************************)
(* What a cw3 multisig promises about its proposals, seen through the      *)
(* status its queries report: a proposal gets one verdict, the verdict is  *)
(* never revised, and the messages of a passed proposal are sent once.     *)
(***************************************************************************)
EXTENDS Naturals, Sequences

VARIABLES phase,    \* phase[id]: the reported status of proposal id
          sent      \* sent[id]: how often its messages were dispatched

Init == phase = <<>> /\ sent = <<>>

(* A proposal may be born decided: the proposer's own weight can pass it,  *)
(* and its expiration may already be over.                                 *)
Submit ==
  /\ \E s \in {"open", "passed", "rejected"} : phase' = Append(phase, s)
  /\ sent' = Append(sent, 0)

(* A vote decides one proposal; a new block may decide several at once.    *)
Decide ==
  /\ Len(phase') = Len(phase)
  /\ \A id \in 1..Len(phase) :
       phase'[id] # phase[id] =>
         phase[id] = "open" /\ phase'[id] \in {"passed", "rejected"}
  /\ UNCHANGED sent

Send(id) ==
  /\ phase[id] = "passed"
  /\ phase' = [phase EXCEPT ![id] = "executed"]
  /\ sent' = [sent EXCEPT ![id] = @ + 1]

Next == Submit \/ Decide \/ \E id \in 1..Len(phase) : Send(id)

Spec == Init /\ [][Next]_<<phase, sent>>
=============================================================================
