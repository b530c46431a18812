SPECIFICATION Spec
CONSTANTS
    Bitchat = {a, b}
    Other = {o}
    MaxLinks = 1
    None = None
    MaxFlaps = 1
    MaxRetries = 0
    MaxInbox = 1
SYMMETRY Symmetry
INVARIANTS TypeOK PrimaryOnlyWithoutLinks LinkBudget
CHECK_DEADLOCK FALSE
