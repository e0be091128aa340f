----------------------------- MODULE MCCw4Stake -----------------------------
(* Instances of Cw4Stake for TLC. *)
EXTENDS Cw4Stake

(* With a u64 limit of 2 the first account can have a weight of 1, of 2,   *)
(* and one that the cast truncates; the second makes the total exceed it.  *)
MCPurse == [a \in Addr |-> IF a = 1 THEN 3 ELSE 1]
=============================================================================
