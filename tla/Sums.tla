------------------------------- MODULE Sums -------------------------------
(***************************************************************************)
(* Sums of naturals over a finite index set.  A weight f[x] is counted as  *)
(* f[x] distinct units owned by x, so the sum of f is the number of units. *)
(* Unlike a fold this needs no recursion, and the cardinality theorems of  *)
(* the library apply to it.                                                *)
(***************************************************************************)
EXTENDS Naturals, FiniteSets

Units(f) == UNION {{x} \X (1..f[x]) : x \in DOMAIN f}

Total(f) == Cardinality(Units(f))
===========================================================================
