---------------------------- MODULE MCInstances ----------------------------
(* Values for the constants of Instances.                                  *)
EXTENDS Instances, TLC

\* Saves without If-Match.
Unconditional == {None}

\* Calls in progress are interchangeable.
Symmetry == Permutations(Requests)
=============================================================================
