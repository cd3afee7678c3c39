----------------------------- MODULE MCFaults -----------------------------
(* Values for the constants of InstancesFaults.                            *)
EXTENDS InstancesFaults, TLC

\* Saves without If-Match only, and with any version a client may hold.
Unconditional == {None}
AnyVersion == {None} \cup Text
Symmetry == Permutations(Requests)
=============================================================================
