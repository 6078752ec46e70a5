CONSTANTS
    SectorLen = 2
    MaxChunk = 4
    Garbage = Garbage
    Null = Null
    fa = fa
    w1 = w1
    w2 = w2
    w3 = w3
    r1 = r1
    Old = Old
    NThreads = 2
    Tasks <- MCRowTasks
    Order <- MCRowOrder
    Acc <- MCRowAcc
    BufAl <- MCBufAl
    InitFile <- MCRowInitFile
SPECIFICATION Spec
INVARIANT
    Serializable
CHECK_DEADLOCK FALSE
