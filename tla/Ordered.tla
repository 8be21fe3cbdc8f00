------------------------------ MODULE Ordered ------------------------------
(* The elements of a finite set of integers as a sequence. *)
EXTENDS Integers, Sequences, FiniteSets

(* How many elements of S are less than x. *)
Rank(S, x) == Cardinality({y \in S : y < x})

(* The elements in ascending order. *)
InOrder(S) == [n \in 1 .. Cardinality(S) |-> CHOOSE x \in S : Rank(S, x) = n - 1]
=============================================================================
