----------------------------- MODULE Electorate -----------------------------
(***************************************************************************)
(* What a cw4 group promises to the contracts that read it: a membership   *)
(* that may change at any time, and for every block that has begun the     *)
(* membership as it was when the block began, whatever happens later.      *)
(***************************************************************************)
EXTENDS Naturals, Sequences

CONSTANTS Addr,     \* the accounts
          Weights,  \* the weights a member may have
          None      \* not a member

VARIABLES current,  \* the weight of each account now
          past      \* past[b]: their weights at the start of block b, from the
                    \* one of the instantiation, block 1, to the present one

Memberships == [Addr -> Weights \cup {None}]
Nobody == [a \in Addr |-> None]

(* The contract did not exist when the block of its instantiation began.   *)
Init == current \in Memberships /\ past = <<Nobody>>

Edit == current' \in Memberships /\ UNCHANGED past

NextBlock == past' = Append(past, current) /\ UNCHANGED current

Next == Edit \/ NextBlock

Spec == Init /\ [][Next]_<<current, past>>
=============================================================================
