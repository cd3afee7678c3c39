CONSTANTS
    N = 2
    Requests = {r1}
    Live = {l1}
    Fixed = {f1, f2}
    Socketed = {f1}
    Opts = {o1}
    DefaultOpts = o1
    Ops = {"save", "restart", "live"}
    IfMatches <- Unconditional
    Adopted = {1, 2}
    CanFail = {"mark", "clear", "restart"}
    None = None
    Events = {"cancel", "crash", "reboot", "outside"}
SPECIFICATION SpecFaults
INVARIANTS DamageContained
