CONSTANTS
    s1 = s1
    s2 = s2
    n1 = n1
    r1 = r1
    r2 = r2
    r3 = r3
    p1 = p1
    p2 = p2
    h443 = h443
    None = None
    Callers = {s1, s2, n1}
    Sess = {s1, s2}
    Ids = {r1, r2, r3}
    Endpoints = {p1, p2, h443}
    Ports = {p1, p2}
    Trouble = 2
    Durable = "no"
    Sources = {"hub", "node"}
    SourceOf <- MCSourceOf
    Exempt = {}
    Limit = 1
    LedgerMax = 2
    Others = {r2, r3}
    Node = n1
    Id = r1
    Home <- MCHome
    ListenPort = 443
    AutomaticPortCandidates <- MCCandidates
    DetectAttempts = 2
    Configs <- MCConfigs
SPECIFICATION Spec
CHECK_DEADLOCK FALSE
INVARIANTS PortsAccounted RegistryLive ChargedOnce StoppedHoldsNothing FoundationNeverHub
PROPERTIES RowConverges
