SPECIFICATION FairSpec
CONSTANTS
    f = f
    x = x
    y = y
    p = p
    q = q
    Friend = {f}
    Addr = {x, y}
    CanUse <- Anywhere
    Caller = {p, q}
    MaxMove = 2
    MaxFail = 1
    MaxRemove = 1
    MaxUpdate = 1
    MaxRestart = 1
    MaxAll = 3
INVARIANTS
    TypeOK
    MapIsTable
    FailureIsSeen
PROPERTIES
    EventuallyReached
CHECK_DEADLOCK FALSE
