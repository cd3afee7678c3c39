CONSTANTS
    N = 2
    Requests = {r1, r2}
    Live = {l1}
    Fixed = {f1}
    Socketed = {f1}
    Opts = {o1}
    DefaultOpts = o1
    Ops = {"rename", "delete", "create", "restartAll", "save"}
    IfMatches <- Unconditional
    Adopted = {1}
    CanFail = {"start"}
    None = None
SPECIFICATION FairSpec
PROPERTIES EveryCallReturns
