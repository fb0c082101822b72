SPECIFICATION FairSpec
CONSTANTS
    a = a
    b = b
    Node = {a, b}
    Topic = {t}
    Key = {k, m}
    Caller = {c}
    Writable <- OneWriter
    Enables = {TRUE}
    Limit = 1
    Orphans = FALSE
    MaxSeq <- Seq31
    MaxFail = 1
    MaxRestart = 0
    MaxUnfriend = 0
    MaxFault = 1
PROPERTIES
    ExactlyOnceInOrder
    SubscriptionsAgree
    EventuallyDelivered
    FallsSilent
CHECK_DEADLOCK FALSE
