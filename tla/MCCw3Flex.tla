------------------------------ MODULE MCCw3Flex ------------------------------
(* Instances of Cw3Flex for TLC. *)
EXTENDS Cw3Flex

M(a, w) == [addr |-> a, weight |-> w]
MCLists == {<<M(1, 1), M(2, 2)>>, <<M(2, 1), M(3, 2)>>}
MCUnequal == {<<M(1, 0), M(2, 2), M(3, 1)>>, <<M(2, 1), M(3, 2)>>}
MCThird == {<<>>, <<3>>}
MCRemoves == {<<>>, <<1>>}
MCAll == {<<>>, <<1>>, <<1, 2>>}
MCOneList == {<<M(1, 1), M(2, 2)>>}
MCNobody == {<<>>}

(* DecimalOne is 10 here: 5 is 50%, 7 is 70%. *)
Count(w) == [kind |-> "absolute_count", weight |-> w]
Percent(p) == [kind |-> "absolute_percentage", percentage |-> p]
Quorum(t, q) == [kind |-> "threshold_quorum", threshold |-> t, quorum |-> q]
MCThresholds == {Count(3), Percent(6), Quorum(6, 5)}
MCQuorum == {Quorum(5, 4)}

Exec(k, a) == [kind |-> k, addr |-> a]
MCAnyone == {Exec("anyone", None)}
MCExecutors == {Exec("anyone", None), Exec("member", None), Exec("only", 3)}

Dep(n, r) == [amount |-> n, refund_failed_proposals |-> r]
MCNoDeposit == {Dep(0, FALSE)}
MCDeposits == {Dep(1, TRUE), Dep(1, FALSE)}
MCRefunded == {Dep(1, TRUE)}
=============================================================================
