SPECIFICATION Spec
CONSTANTS
    Slots = {s1, s2}
    MaxFields = 2
    MaxTurns = 3
    Capacity = 2
    PoolTimeout = 2
    ReadyTimeout = 1
    DbMayFail = TRUE
INVARIANTS
    TypeOK
    GaugeExact
    PoolAccounted
    NoCircularWait
PROPERTIES
    RecordMatchesReply
    AllAnswered
