SPECIFICATION ShortSpec
CONSTANTS
    NoKey = NoKey
    k1 = k1
    k2 = k2
    k3 = k3
    Keys = {k1, k2, k3}
    Resets = {r1, r2}
    Acts = {}
    ActOps = {}
    MaxEntries = 0
    MaxFaults = 1
    ListWrites = TRUE
SYMMETRY Symmetry
INVARIANTS
    TypeOK
    OneResetMoves
    RegistryInStep
PROPERTIES
    SeatsInItsTime
