CONSTANTS
    h1 = h1
    h2 = h2
    None = None
    Hosts = {h1, h2}
    MaxEvents = 3
    MaxSessions = 2
    MaxActive = 1
    Kinds <- MCKinds
    Cap = 2
    Compact = 2
    BatchSize = 2
    Trouble = 1
    PendingLimit = 2
    RecordSize = 2
    MemoryLimit = 2
    FileLimit = 4
SPECIFICATION Spec
CHECK_DEADLOCK FALSE
INVARIANTS FileHoldsCache Accounted OneIdentity
PROPERTIES Drains
