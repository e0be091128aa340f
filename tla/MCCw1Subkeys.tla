---------------------------- MODULE MCCw1Subkeys ----------------------------
(* Instances of Cw1Subkeys for TLC. *)
EXTENDS Cw1Subkeys, TLC

MCPayments == {<<>>, ("x" :> 1), ("x" :> 1 @@ "y" :> 1)}
MCGrants == {[denom |-> "x", amount |-> 2], [denom |-> "y", amount |-> 1], [denom |-> "y", amount |-> 0]}
MCPermissions == {{}, {"delegate", "withdraw"}}
=============================================================================
