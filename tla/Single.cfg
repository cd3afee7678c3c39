CONSTANTS
    N = 1
    Requests = {r1, r2}
    Live = {l1, l2}
    Fixed = {f1, f2}
    Socketed = {f1, f2}
    Opts = {o1}
    DefaultOpts = o1
    Ops = {"save", "saveRestart", "live", "options", "restart", "restartAll", "create", "delete"}
    IfMatches <- Unconditional
    Adopted = {}
    CanFail = {"base", "base2", "write", "mark", "reload", "install", "start", "stop", "restart", "teardown", "conf"}
    None = None
SPECIFICATION Spec
SYMMETRY Symmetry
INVARIANTS PendingSound BaselineSound
