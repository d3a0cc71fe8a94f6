------------------------------- MODULE Sorting -------------------------------
(* What is sorted, wherever the program sorts: artifacts, rows and places.   *)
EXTENDS Integers, FiniteSets

(* sorted() of things no two of which are equal.                             *)
Sorted(S, Less(_, _)) ==
  [k \in 1..Cardinality(S) |->
     CHOOSE x \in S : Cardinality({y \in S : Less(y, x)}) = k - 1]
=============================================================================
