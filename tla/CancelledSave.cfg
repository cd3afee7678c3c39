CONSTANTS
    N = 1
    Requests = {r1}
    Live = {l1}
    Fixed = {f1, f2}
    Socketed = {f1, f2}
    Opts = {o1}
    DefaultOpts = o1
    Ops = {"save"}
    IfMatches <- Unconditional
    Adopted = {1}
    CanFail = {}
    Events = {"cancel"}
    None = None
SPECIFICATION SpecFaults
INVARIANTS PendingSound
