\* A client pages through a keyed table while two writes happen.
SPECIFICATION Spec
CONSTANTS
    MaxKey = 4
    MaxSize = 2
    DefaultSize = 2
    SingleKey = TRUE
    Heaps <- MCHeaps
    Questions <- MCQuestions
    MaxWrites = 2
    NoParam = NoParam
    Junk = Junk
    Empty = Empty
    NoQuery = NoQuery
    NoReply = NoReply
INVARIANTS TypeOK CursorPagesJoin OffsetCoversCalmTable InfoTrueIfQuiet
PROPERTIES ImplementsKeyScan TraversalEnds
