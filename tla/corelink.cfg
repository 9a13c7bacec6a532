CONSTANTS
    p1 = p1
    p2 = p2
    p3 = p3
    user = user
    page = page
    None = None
    Cores <- MCCores
    Threads <- MCThreads
    MayCall <- MCMayCall
    MayFail = {"spawn", "slow", "crash"}
SPECIFICATION Spec
SYMMETRY MCSymmetry
CHECK_DEADLOCK FALSE
INVARIANTS NoRival OneServing StopLeavesNoCore
PROPERTIES DeliberateStopSilent NoSpawnBehindTeardown
