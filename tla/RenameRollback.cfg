CONSTANTS
    N = 2
    Requests = {r1}
    Live = {l1}
    Fixed = {f1, f2}
    Socketed = {f1, f2}
    Opts = {o1}
    DefaultOpts = o1
    Ops = {"save", "create", "rename"}
    IfMatches <- Unconditional
    Adopted = {}
    CanFail = {"start"}
    None = None
SPECIFICATION Spec
INVARIANTS BaselineSound
