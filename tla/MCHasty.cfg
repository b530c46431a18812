CONSTANTS
    ReplayWindowSize = 2
    WireNonces = 8
    Ordered = TRUE
    Node = {1, 2}
    Faults = {}
    MaxEphemerals = 3
    MaxDms = 2
    MaxTroubles = 0
SPECIFICATION FairSpec
CHECK_DEADLOCK FALSE
PROPERTY
    EventuallyShown
