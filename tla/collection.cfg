SPECIFICATION FairSpec
CONSTANTS
    a = a
    b = b
    c = c
    v = v
    w = w
    k = k
    Node = {a, b, c}
    Owner = a
    Friends <- Line
    Key = {k}
    Value = {v}
    Rank <- VFirst
    MaxPut = 2
    MaxAdmin = 2
    MaxRestart = 1
INVARIANTS
    TypeOK
    WritersKnown
PROPERTIES
    ImplementsRegister
    EventuallySame
CHECK_DEADLOCK FALSE
