SPECIFICATION FairSpec
CONSTANTS
    a = a
    b = b
    Node = {a, b}
    Topic = {t}
    Key = {k}
    Caller = {c}
    Writable <- OneWriter
    Enables = {TRUE, FALSE}
    Limit = 1
    Orphans = FALSE
    MaxSeq <- Seq23
    MaxFail = 0
    MaxRestart = 0
    MaxUnfriend = 0
    MaxFault = 0
PROPERTIES
    EventuallyDelivered
CHECK_DEADLOCK FALSE
