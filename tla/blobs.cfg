SPECIFICATION Spec
CONSTANTS
    a = a
    b = b
    c = c
    v = v
    w = w
    t = t
    u = u
    k = k
    m = m
    g = g
    h = h
    Node = {a, b, c}
    Friends <- Line
    Blob = {v, w}
    Rank <- VFirst
    Topic = {t, u}
    Key = {k, m}
    Place <- ThreePlaces
    Putter = {g}
    Writer = {a}
    MaxPut = 2
    MaxRead = 1
    MaxFail = 1
    MaxDisk = 1
    MaxRestart = 0
    MaxAll = 2
INVARIANTS
    TypeOK
    HoldsCounted
    TrackingCounts
    AdvertsTrue
    ReadyIfAdvertised
    HeldIsOnDisk
    FilesWhole
    NoLostDownload
    DownloadingIsTrue
PROPERTIES
    DeletedWhenUnused
CHECK_DEADLOCK FALSE
