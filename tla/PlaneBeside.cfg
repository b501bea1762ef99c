SPECIFICATION ShortSpec
CONSTANTS
    NoKey = NoKey
    k1 = k1
    k2 = k2
    k3 = k3
    Keys = {k1, k2, k3}
    Resets = {r1}
    Acts = {a1}
    ActOps = {"remove"}
    MaxEntries = 1
    MaxFaults = 0
    ListWrites = TRUE
SYMMETRY Symmetry
INVARIANTS
    RegistryInStep
PROPERTIES
    CancelStands
