------------------------------ MODULE Ballots ------------------------------
(***************************************************************************)
(* The ballots of one proposal, as both multisig contracts keep them in    *)
(* BALLOTS, keyed by proposal and voter.  A ballot of weight 0 counts as   *)
(* cast: a proposer without weight has one.                                *)
(***************************************************************************)
EXTENDS Proposal, Sums

CONSTANT Addr    \* the accounts

ASSUME AddrAssumption == IsFiniteSet(Addr)

Ballot == [weight: Nat, vote: Vote]
NoBallot == [weight |-> 0, vote |-> "none"]
NoBallots == [a \in Addr |-> NoBallot]

(* BALLOTS.save for one voter of a proposal with ballots bs. *)
SaveBallot(bs, sender, weight, vote) ==
  [bs EXCEPT ![sender] = [weight |-> weight, vote |-> vote]]

(* The weight each account has cast for an option, and for any. *)
CastFor(bs, vote) == [a \in Addr |-> IF bs[a].vote = vote THEN bs[a].weight ELSE 0]
CastWeights(bs) == [a \in Addr |-> bs[a].weight]
=============================================================================
