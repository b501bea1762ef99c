SPECIFICATION ShortSpec
CONSTANTS
    NoKey = NoKey
    k1 = k1
    k2 = k2
    k3 = k3
    Keys = {k1, k2, k3}
    Resets = {r1}
    Acts = {a1}
    ActOps = {"add", "remove"}
    MaxEntries = 0
    MaxFaults = 1
    ListWrites = FALSE
PROPERTIES
    RolledForward
