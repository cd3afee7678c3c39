------------------------------ MODULE NameLock ------------------------------
(***************************************************************************)
(* What the panel's operations rely on when they lock a name: a key has at *)
(* most one holder, and passes from one to the next only by being free.    *)
(***************************************************************************)
CONSTANTS Keys, Calls, Nobody

VARIABLE holder

NameLockTypeOK == holder \in [Keys -> Calls \cup {Nobody}]

Init == holder = [k \in Keys |-> Nobody]

Take(c, k) ==
    /\ holder[k] = Nobody
    /\ holder' = [holder EXCEPT ![k] = c]

\* A call that returns drops its guards, one or two.
GiveBack(K) == holder' = [k \in Keys |-> IF k \in K THEN Nobody ELSE holder[k]]

Next ==
    \/ \E c \in Calls, k \in Keys : Take(c, k)
    \/ \E K \in SUBSET Keys : GiveBack(K)

Spec == Init /\ [][Next]_holder
=============================================================================
