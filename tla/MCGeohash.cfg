SPECIFICATION FairSpec
CONSTANTS
    Geohashes = {g}
    Relays = {r1, r2}
    None = None
    MaxJoins = 2
    MaxFailures = 1
    MaxLines = 1
INVARIANTS TypeOK JoinedIsServed ShownOnce
PROPERTIES StopsAfterLeave PostedIsShown
CHECK_DEADLOCK FALSE
