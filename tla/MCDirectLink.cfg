CONSTANTS
    ReplayWindowSize = 2
    WireNonces = 8
    Ordered = TRUE
    Node = {1, 2}
    Faults = {"leave", "retry", "sync"}
    MaxEphemerals = 3
    MaxDms = 2
    MaxTroubles = 1
SPECIFICATION DirectSpec
CHECK_DEADLOCK FALSE
INVARIANTS
    ShownInOrder
    EstablishedQueueEmpty
PROPERTIES
    CalmIsShown
    CalmIsDelivered
