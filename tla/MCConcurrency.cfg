CONSTANTS
    SectorLen = 2
    MaxChunk = 4
    Garbage = Garbage
    Null = Null
    fa = fa
    w1 = w1
    w2 = w2
    w3 = w3
    r1 = r1
    Old = Old
    NThreads = 2
    Tasks <- IoTasks
    Order <- IoOrder
    Acc <- IoAcc
    BufAl <- IoBufAl
    InitFile <- IoFile
    NReq = 2
    NRetries = 5
    StartSize = 2
    NTasks = 4
    TaskParents <- CrParents
    MaxNnzs = 2
    MinBlk = 2
    RBlkRm = 3
    CBlkRm = 2
    RBlkCm = 3
    CBlkCm = 2
SPECIFICATION Spec
INVARIANTS
    TypeOK
    NoConcurrentConflict
    Serializable
    ParentsFirst
    GemvNoTransPlaced
    GemvTransResult
PROPERTIES
    
    AllTasksComplete
    GemvTransLive
CHECK_DEADLOCK FALSE
