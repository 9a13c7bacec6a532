SPECIFICATION FairSpec
CONSTANTS
    c1 = c1
    c2 = c2
    k1 = k1
    k2 = k2
    Conns = {c1}
    Callers = {k1, k2}
    UserProxies = {off}
    Cleared = off
    Ours = ours
    None = none
    Ops = {"connect", "disconnect", "shutdown"}
    MayFail = {}
PROPERTIES
    DisconnectingEnds
    CallersReturn
