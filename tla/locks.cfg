SPECIFICATION FairSpec
CONSTANTS
    Node = {a, b}
    MaxPut = 1
    MaxChange = 2
    MaxStop = 2
    MaxFail = 1
INVARIANTS
    TypeOK
    RemovedIsGone
PROPERTIES
    CircleStays
    OnlyCirclesLast
    CallsEnd
CHECK_DEADLOCK FALSE
