SPECIFICATION FairSpec
CONSTANTS
    a = a
    b = b
    c = c
    v = v
    w = w
    t = t
    u = u
    k = k
    m = m
    g = g
    h = h
    Node = {a, b}
    Friends <- Pair
    Blob = {v, w}
    Rank <- VFirst
    Topic = {t}
    Key = {k, m}
    Place <- TwoKeys
    Putter = {g}
    Writer = {a}
    MaxPut = 2
    MaxRead = 0
    MaxFail = 1
    MaxDisk = 1
    MaxRestart = 1
    MaxAll = 4
PROPERTIES
    EventuallyLocal
    LoopsRest
CHECK_DEADLOCK FALSE
