CONSTANTS
    ReplayWindowSize = 3
    WireNonces = 5
    Key = key
    StaleKey = stale
    MaxSends = 6
SPECIFICATION Spec
INVARIANTS
    TypeOK
    WindowExact
    FreshAccepted
    NothingAfterWrap
PROPERTY
    ImplementsChannel
