------------------------------- MODULE Lists -------------------------------
(***************************************************************************)
(* What a loop leaves of a list when it appends the elements it keeps to a *)
(* new one.                                                                *)
(***************************************************************************)
EXTENDS Naturals, FiniteSets

\* The k-th of a set of places.
Place(K, k) == CHOOSE i \in K : Cardinality({j \in K : j <= i}) = k

\* The elements of s at the places K, in their order.
Kept(s, K) == [k \in 1..Cardinality(K) |-> s[Place(K, k)]]
=============================================================================
