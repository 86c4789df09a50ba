------------------------------ MODULE Ordering ------------------------------
(***************************************************************************)
(* sorted, and the selection from a list, over positions and numbers: the  *)
(* k-th number of a set is the one that has k of the set up to itself.     *)
(***************************************************************************)
EXTENDS Naturals, FiniteSets

Place(S, x) == Cardinality({y \in S : y <= x})
InOrder(S) == [k \in 1 .. Cardinality(S) |-> CHOOSE x \in S : Place(S, x) = k]

\* What a sequence has at the places given.
Selected(s, places) == [k \in DOMAIN InOrder(places) |-> s[InOrder(places)[k]]]
=============================================================================
