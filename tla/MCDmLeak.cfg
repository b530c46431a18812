SPECIFICATION Spec
CONSTANTS
    Peers = {p}
    Names = {1, 2}
    MeshChannels = {m}
    GeoChannels = {g}
    GeoPeople = {1, 2}
    None = None
    MaxLines = 1
INVARIANTS DmIsPrivate
