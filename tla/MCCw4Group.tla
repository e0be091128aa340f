----------------------------- MODULE MCCw4Group -----------------------------
(* Instances of Cw4Group for TLC: three accounts, weights that reach the   *)
(* largest u64, and lists that add, update, remove and repeat accounts.    *)
EXTENDS Cw4Group

M(a, w) == [addr |-> a, weight |-> w]
MCLists == {<<>>, <<M(2, 2), M(1, 1)>>, <<M(1, 3)>>, <<M(3, 0), M(2, 1)>>,
            <<M(1, 1), M(2, 1), M(1, 2)>>}
MCRemoves == {<<>>, <<1, 1>>, <<2, 3>>}
=============================================================================
