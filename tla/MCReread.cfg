CONSTANTS
    a = a  b = b  c = c  d = d
    t1 = t1  t2 = t2  t3 = t3  t4 = t4  t5 = t5
    w1 = w1
    NoTask = NoTask
    InitVal = InitVal
    Garbage = Garbage
    Keys <- MCKeys
    BufSize <- MCBufSize
    MaxSize = 3
    SingleUseDiscard = FALSE
    Tasks <- RereadTasks
    Reads <- RereadReads
    Writes <- RereadWrites
    Parents <- RereadParents
    NextTask <- MCNextTask
    Threads <- MCThreads
    MaxInMem <- MCMaxInMem
SPECIFICATION FairSpec
INVARIANTS
    NoLostUpdate
    CodeDisjoint
PROPERTIES
    AllTasksComplete
    DagRefined
