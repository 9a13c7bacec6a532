SPECIFICATION Spec
CONSTANTS
    c1 = c1
    c2 = c2
    k1 = k1
    k2 = k2
    Conns = {c1, c2}
    Callers = {k1}
    UserProxies = {off}
    Cleared = off
    Ours = ours
    None = none
    Ops = {"connect", "disconnect"}
    MayFail = {"set", "crash"}
INVARIANT
    CrashAfterFailedSet
