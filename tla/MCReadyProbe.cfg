SPECIFICATION Spec
CONSTANTS
    Slots = {s1, s2}
    MaxFields = 1
    MaxTurns = 2
    Capacity = 1
    PoolTimeout = 2
    ReadyTimeout = 1
    DbMayFail = FALSE
PROPERTIES
    ReadyDespiteFullPool
