CONSTANTS
    ReplayWindowSize = 2
    WireNonces = 8
    Ordered = FALSE
    Node = {1, 2}
    Faults = {"send", "bloom", "expiry", "retry", "leave", "sync"}
    MaxEphemerals = 2
    MaxDms = 1
    MaxTroubles = 1
SPECIFICATION Spec
CHECK_DEADLOCK FALSE
INVARIANTS
    TypeOK
    KeyAgreement
    NonceNeverReused
    ShownIsAuthentic
    QueuedWasNotSent
    DeliveredWasShown
