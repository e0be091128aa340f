------------------------------ MODULE Listing ------------------------------
(***************************************************************************)
(* How the contracts list the entries of a map: in the order of the keys,  *)
(* those after the last key a client has seen, up to a limit.  Keys are    *)
(* numbers from 1 on, and 0 stands for a client that has seen none.  The   *)
(* limit is the one asked for or 10, and at most 30: here, any number.     *)
(***************************************************************************)
EXTENDS Integers, FiniteSets

(* Mutants of Page: the bound is inclusive, and it is not applied. *)
inclusive_page(keys, start_after, limit) ==
  {k \in keys : Cardinality({j \in keys : start_after <= j /\ j <= k}) \in 1..limit}
first_page(keys, start_after, limit) ==
  {k \in keys : Cardinality({j \in keys : j <= k}) <= limit}

(* A range from an exclusive bound in ascending order, and what is taken   *)
(* of it.                                                                  *)
Page(keys, start_after, limit) ==
  {k \in keys : Cardinality({j \in keys : start_after < j /\ j <= k}) \in 1..limit}

LastOf(page) == CHOOSE k \in page : \A j \in page : j <= k

(* What a client sees that asks for pages of some limit, each after the    *)
(* last key it has seen, until a page is not full, and at most n of them.  *)
Followed(page(_), limit, n) ==
  LET from[i \in Nat] ==
        [cursor \in Nat |->
           IF i = 0 THEN {}
           ELSE page(cursor) \cup IF Cardinality(page(cursor)) < limit THEN {}
                                  ELSE from[i - 1][LastOf(page(cursor))]]
  IN  from[n][0]

(* Followed to the end, the pages show exactly the entries, once each.     *)
Lists(page(_), limit, entries) == Followed(page, limit, Cardinality(entries) + 1) = entries
============================================================================
