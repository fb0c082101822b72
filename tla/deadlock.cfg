SPECIFICATION FairSpec
CONSTANTS
    Node = {a, b}
    MaxPut = 0
    MaxChange = 1
    MaxStop = 0
    MaxFail = 0
PROPERTIES
    RemovalsEnd
CHECK_DEADLOCK FALSE
