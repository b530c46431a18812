CONSTANTS
    message = message
    file = file
    Packet = {message, file}
    Type <- MCType
    Chunks <- MCChunks
    Links = 2
    MaxFragments = 4
    FilterErrs = {file}
SPECIFICATION FairSpec
CHECK_DEADLOCK FALSE
INVARIANTS
    TypeOK
    ReassembledIsIntact
    NothingCompleteIsHeld
    ShownOnce
    OutcomeIsTrue
PROPERTY
    SentIsShown
