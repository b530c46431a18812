SPECIFICATION Spec
CONSTANTS
    a = a
    b = b
    Packets <- MCPackets
    Texts = {x}
    Blocked = {b}
    Confused <- MCConfused
    AckPeers = 2
    MaxArrivals = 4
    MaxRestarts = 1
INVARIANTS TypeOK EachOnce KeysFollowChannel
