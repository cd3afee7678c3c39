CONSTANTS
    N = 1
    Requests = {r1}
    Live = {l1, l2}
    Fixed = {f1, f2}
    Socketed = {f1, f2}
    Opts = {o1}
    DefaultOpts = o1
    Ops = {"live", "create"}
    IfMatches <- Unconditional
    Adopted = {}
    CanFail = {}
    None = None
SPECIFICATION Spec
INVARIANTS NoChangeIsTrue
