----------------------------- MODULE MCCw3Fixed -----------------------------
(* Instances of Cw3Fixed for TLC. *)
EXTENDS Cw3Fixed

M(a, w) == [addr |-> a, weight |-> w]

(* Three voters, all with weight and one without, and a list in which a    *)
(* voter is repeated.                                                      *)
MCVoterLists == {<<M("a", 2), M("b", 1), M("c", 2)>>, <<M("a", 2), M("b", 1), M("c", 0)>>,
                 <<M("a", 1), M("b", 2), M("a", 2)>>}

(* DecimalOne is 10 here: 7 is 70%, and 10 is unanimity. *)
MCThresholds == {[kind |-> "absolute_count", weight |-> 4],
                 [kind |-> "absolute_percentage", percentage |-> 10],
                 [kind |-> "threshold_quorum", threshold |-> 7, quorum |-> 4]}
=============================================================================
