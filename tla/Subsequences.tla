---------------------------- MODULE Subsequences ----------------------------
(***************************************************************************)
(* What is left of a sequence when a loop keeps some of its elements and   *)
(* drops the others, as operators on the places that are kept.             *)
(***************************************************************************)
EXTENDS Naturals, Sequences, FiniteSets

\* The k-th of some places.
Nth(places, k) == CHOOSE i \in places: Cardinality({j \in places: j <= i}) = k

\* The elements at some places, in order.
At(s, places) == [k \in 1..Cardinality(places) |-> s[Nth(places, k)]]
=============================================================================
