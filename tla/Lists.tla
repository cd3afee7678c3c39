---------------------------------- MODULE Lists ----------------------------------
(***************************************************************************)
(* What an iterator's `filter` and `collect` make of a list, by the places  *)
(* of the items they let through, without recursion.                        *)
(***************************************************************************)
EXTENDS Integers, Sequences, FiniteSets

\* The k-th smallest of a set of numbers.
Nth(places, k) == CHOOSE i \in places : Cardinality({j \in places : j <= i}) = k

\* The items of a list at some places, in their order.
ItemsAt(list, places) == [k \in 1..Cardinality(places) |-> list[Nth(places, k)]]
=============================================================================
