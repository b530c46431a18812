SPECIFICATION Spec
CONSTANTS
    Keys = {k1, k2}
    Names = {bob, eve}
    Messages = {m1}
    PublicRelays = {}
    DmRelays = {r2}
    None = None
    MaxLookups = 1
    MaxListed = 2
INVARIANTS TypeOK StatusIsBestNews NamesLeadToKeys
SYMMETRY Symmetry
