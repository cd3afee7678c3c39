CONSTANTS
    Keys = {k1, k2, k3, k4}
    Calls = {c1, c2, c3}
    Mutexes = {m1, m2, m3, m4}
    None = None
SPECIFICATION FairSpec
INVARIANTS MutualExclusion MapBounded
PROPERTIES EveryWaiterIsServed ImplementsNameLock
