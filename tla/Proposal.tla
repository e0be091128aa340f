------------------------------ MODULE Proposal ------------------------------
(***************************************************************************)
(* The voting algebra of packages/cw3/src/proposal.rs: thresholds, tallies *)
(* and the verdict on a proposal.  It has no state of its own; both        *)
(* multisig contracts apply it to the proposals they store.                *)
(*                                                                         *)
(* A Decimal is its number of atomics, so 100% is DecimalOne.  Heights     *)
(* stand for block heights or block times: the code compares expirations   *)
(* of one kind only.  u64 subtraction panics below zero (overflow-checks   *)
(* are on in the release profile); Panics says when the verdict does.      *)
(***************************************************************************)
EXTENDS Integers

CONSTANTS DecimalOne,        \* Decimal::one(): 10^18 in the code
          PrecisionFactor    \* PRECISION_FACTOR: 10^9 in the code

ASSUME DecimalAssumption == DecimalOne \in Nat \ {0}
ASSUME PrecisionAssumption == PrecisionFactor \in Nat \ {0, 1}

Percentage == 0..DecimalOne

Vote == {"yes", "no", "abstain", "veto"}
Votes == [Vote -> Nat]
Status == {"open", "passed", "rejected", "executed"}

Threshold ==
  [kind: {"absolute_count"}, weight: Nat]
    \cup [kind: {"absolute_percentage"}, percentage: Percentage]
    \cup [kind: {"threshold_quorum"}, threshold: Percentage, quorum: Percentage]

(* Uint128::mul_floor(Decimal). *)
mul_floor(n, p) == (n * p) \div DecimalOne

(* Mutant of votes_needed: one too many when the product is whole. *)
votes_needed_plus_one(weight, percentage) ==
  mul_floor(PrecisionFactor * weight, percentage) \div PrecisionFactor + 1

(* ceil(mul_floor(PRECISION_FACTOR * weight, percentage) / PRECISION_FACTOR) *)
votes_needed(weight, percentage) ==
  (mul_floor(PrecisionFactor * weight, percentage) + PrecisionFactor - 1)
    \div PrecisionFactor

(* Threshold::validate of cw-utils, which both contracts call with the     *)
(* total weight they know at instantiation.                                *)
validate(t, total_weight) ==
  CASE t.kind = "absolute_count" -> t.weight \in 1..total_weight
    [] t.kind = "absolute_percentage" -> 2 * t.percentage >= DecimalOne
    [] t.kind = "threshold_quorum" ->
         2 * t.threshold >= DecimalOne /\ t.quorum > 0

votes_total(votes) == votes["yes"] + votes["no"] + votes["abstain"] + votes["veto"]

votes_yes(init_weight) == [v \in Vote |-> IF v = "yes" THEN init_weight ELSE 0]

add_vote(votes, vote, weight) == [votes EXCEPT ![vote] = @ + weight]

is_expired(p, height) == height >= p.expires

(* Mutant of opinions: votes still to come are forgotten. *)
opinions_so_far(p, height) == votes_total(p.votes) - p.votes["abstain"]

(* The weight a percentage threshold is taken of: before expiration every  *)
(* vote not yet cast may still be an opinion.                              *)
opinions(p, height) ==
  IF p.threshold.kind = "threshold_quorum" /\ is_expired(p, height)
    THEN votes_total(p.votes) - p.votes["abstain"]
    ELSE p.total_weight - p.votes["abstain"]

is_passed(p, height) ==
  LET t == p.threshold IN
  CASE t.kind = "absolute_count" -> p.votes["yes"] >= t.weight
    [] t.kind = "absolute_percentage" ->
         p.votes["yes"] >= votes_needed(opinions(p, height), t.percentage)
    [] t.kind = "threshold_quorum" ->
         /\ votes_total(p.votes) >= votes_needed(p.total_weight, t.quorum)
         /\ p.votes["yes"] >= votes_needed(opinions(p, height), t.threshold)

is_rejected(p, height) ==
  LET t == p.threshold IN
  CASE t.kind = "absolute_count" -> p.votes["no"] > p.total_weight - t.weight
    [] t.kind = "absolute_percentage" ->
         p.votes["no"] > votes_needed(opinions(p, height), DecimalOne - t.percentage)
    [] t.kind = "threshold_quorum" ->
         p.votes["no"] > votes_needed(opinions(p, height), DecimalOne - t.threshold)

(* current_status of an open proposal underflows: the weight needed        *)
(* exceeds the total weight, or the abstentions do.                        *)
Panics(p, height) ==
  /\ p.status = "open"
  /\ CASE p.threshold.kind = "absolute_count" ->
            p.votes["yes"] < p.threshold.weight /\ p.total_weight < p.threshold.weight
       [] p.threshold.kind = "absolute_percentage" -> opinions(p, height) < 0
       [] p.threshold.kind = "threshold_quorum" -> opinions(p, height) < 0

(* Mutants of current_status: an expired proposal fails before it may pass, *)
(* and a stored verdict is computed again.                                  *)
expired_first(p, height) ==
  IF p.status # "open" THEN p.status
  ELSE IF is_rejected(p, height) \/ is_expired(p, height) THEN "rejected"
  ELSE IF is_passed(p, height) THEN "passed"
  ELSE "open"
computed_again(p, height) ==
  IF is_passed(p, height) THEN "passed"
  ELSE IF is_rejected(p, height) \/ is_expired(p, height) THEN "rejected"
  ELSE p.status

current_status(p, height) ==
  IF p.status # "open" THEN p.status
  ELSE IF is_passed(p, height) THEN "passed"
  ELSE IF is_rejected(p, height) \/ is_expired(p, height) THEN "rejected"
  ELSE "open"

update_status(p, height) == [p EXCEPT !.status = current_status(p, height)]
=============================================================================
