SPECIFICATION FairSpec
CONSTANTS
    Bitchat = {a, b}
    Other = {}
    MaxLinks = 2
    None = None
    MaxFlaps = 1
    MaxRetries = 1
    MaxInbox = 0
PROPERTIES TalkingIsLinked
CHECK_DEADLOCK FALSE
