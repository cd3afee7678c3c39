CONSTANTS
    N = 1
    Requests = {r1, r2}
    Live = {l1}
    Fixed = {f1, f2}
    Socketed = {f1}
    Opts = {o1}
    DefaultOpts = o1
    Ops = {"save", "saveRestart", "live", "create", "delete"}
    IfMatches <- AnyVersion
    Adopted = {1}
    CanFail = {"write", "mark", "install", "start", "restart", "clear", "applied", "opts", "teardown", "conf", "record", "record2"}
    None = None
    Events = {"cancel", "crash", "reboot", "outside"}
SPECIFICATION SpecFaults
SYMMETRY Symmetry
INVARIANTS DamageContained
PROPERTIES NoLostUpdate
