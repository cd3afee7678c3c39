CONSTANTS
    N = 2
    Requests = {r1, r2}
    Live = {l1}
    Fixed = {f1}
    Socketed = {f1}
    Opts = {o1, o2}
    DefaultOpts = o1
    Ops = {"options", "create", "rename", "delete"}
    IfMatches <- Unconditional
    Adopted = {}
    CanFail = {"stop", "start", "write", "restart", "record"}
    None = None
SPECIFICATION Spec
SYMMETRY Symmetry
INVARIANTS TypeOK NothingLeftBehind UnitRendersOptions NeverBothRunning
PROPERTIES ConfNeverLost
