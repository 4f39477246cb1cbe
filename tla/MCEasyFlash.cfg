CONSTANTS
    k1 = k1
    k2 = k2
    Sectors = {1, 2}
    Keys = {k1, k2}
    EnvLen <- Lengths
    Spaces = {6, 12}
    EF_SEC_REMAIN_THRESHOLD = 2
    EF_GC_EMPTY_SEC_THRESHOLD = 1
    MaxLosses = 2
    None = None
SPECIFICATION Spec
INVARIANTS
    OneCopy
    Durable
    KeepsReserve
PROPERTY LoadEnds
