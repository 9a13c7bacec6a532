SPECIFICATION FairSpec
CONSTANTS
    Relays = {r1}
    Hosts = {h1}
    None = none
    MaxRapid = 2
    Threshold = 2
    MaxEpoch = 2
INVARIANTS
    NoLostEpoch
    CircuitHonoured
PROPERTIES
    EpochRetiresWSS
    EpochIsProbed
    CancelEnds
CHECK_DEADLOCK FALSE
