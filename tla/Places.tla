------------------------------- MODULE Places -------------------------------
(* The members of a sequence at some of its places.  The SelectSeq of the  *)
(* library does the same by recursion, which no proof can go through.      *)
EXTENDS Integers, Sequences, FiniteSets

(* The n-th of the places P, and the members of s at P in their order. *)
Nth(P, n)    == CHOOSE i \in P : Cardinality({j \in P : j < i}) = n - 1
Chosen(s, P) == [n \in 1..Cardinality(P) |-> s[Nth(P, n)]]
=============================================================================
