SPECIFICATION FairSpec
CONSTANTS
    a = a
    b = b
    c = c
    v = v
    w = w
    k = k
    Node = {a, b}
    Owner = a
    Friends <- Pair
    Key = {k}
    Value = {v}
    Rank <- VFirst
    MaxPut = 1
    MaxAdmin = 2
    MaxRestart = 0
PROPERTIES
    RemovalArrives
CHECK_DEADLOCK FALSE
