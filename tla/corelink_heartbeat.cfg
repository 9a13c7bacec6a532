CONSTANTS
    p1 = p1
    p2 = p2
    p3 = p3
    user = user
    page = page
    None = None
    Cores <- MCCores
    Threads <- MCThreads
    MayCall <- MCEnsureOnly
    MayFail = {}
SPECIFICATION Spec
SYMMETRY MCSymmetry
CHECK_DEADLOCK FALSE
INVARIANT HeartbeatKept
