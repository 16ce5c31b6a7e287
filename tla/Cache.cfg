SPECIFICATION InMemoryCacheSpec
CONSTANTS
    k1 = k1
    k2 = k2
    k3 = k3
    v1 = v1
    v2 = v2
    Keys = {k1, k2, k3}
    Values = {v1, v2}
    Sizes = {0, 1, 2}
    TTL = 1
    Nothing = Nothing
    MaxTime = 3
    MaxAccess = 3
SYMMETRY KeySymmetry
PROPERTIES
    EvictsLeastUsed
    ImplementsSpec
