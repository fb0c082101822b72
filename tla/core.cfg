SPECIFICATION Spec
CONSTANTS
    a = a
    b = b
    Node = {a, b}
    Topic = {t}
    Key = {k, m}
    Caller = {c}
    Writable <- OneWriter
    Enables = {TRUE}
    Limit = 2
    Orphans = TRUE
    MaxSeq <- Seq31
    MaxFail = 1
    MaxRestart = 1
    MaxUnfriend = 1
    MaxFault = 1
INVARIANTS
    TypeOK
    TableIsLatest
    CursorsBehind
    NoLostWakeup
    NothingSkipped
PROPERTIES
    ImplementsFeed
CHECK_DEADLOCK FALSE
