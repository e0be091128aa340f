----------------------------- MODULE MCCw20Base -----------------------------
(* Instances of Cw20Base for TLC. *)
EXTENDS Cw20Base

MCSupplies == {[a \in Addr |-> IF a = 1 THEN 1 ELSE 0]}

(* With a supply of 1 and a u128 limit of 2, one minter runs into its cap  *)
(* and the other, without a cap, into the limit.                           *)
MCMinters == {[minter |-> 2, cap |-> 1], [minter |-> 2, cap |-> NoCap]}
=============================================================================
