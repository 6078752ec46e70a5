CONSTANTS
    a = a  b = b  c = c  d = d
    t1 = t1  t2 = t2  t3 = t3  t4 = t4  t5 = t5
    w1 = w1
    NoTask = NoTask
    InitVal = InitVal
    Garbage = Garbage
    Keys <- MCKeys
    BufSize <- MCBufSize
    MaxSize = 3
    SingleUseDiscard = FALSE
    Tasks <- GemmTasks
    Reads <- GemmReads
    Writes <- GemmWrites
    Parents <- GemmParents
    NextTask <- MCNextTask
    Threads <- MCThreads
    MaxInMem <- MCMaxInMem
SPECIFICATION FairSpec
INVARIANTS
    TypeOK
    RefsExact
    CommitAccounting
    RealAccounting
    NoLostUpdate
    FlushDurable
    CodeDisjoint
PROPERTIES
    AllTasksComplete
    FlushCompletes
    DagRefined
