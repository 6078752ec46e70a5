CONSTANTS
    a = a  b = b  c = c  d = d
    t1 = t1  t2 = t2  t3 = t3  t4 = t4  t5 = t5
    w1 = w1
    NoTask = NoTask
    InitVal = InitVal
    Garbage = Garbage
    Keys <- MCKeys
    BufSize <- MCBufSize
    MaxSize = 2
    SingleUseDiscard = FALSE
    Tasks <- PairTasks
    Reads <- PairReads
    Writes <- PairWrites
    Parents <- PairParents
    NextTask <- MCNextTask
    Threads <- MCThreads
    MaxInMem <- MCMaxInMem
SPECIFICATION FairSpec
PROPERTIES
    AllTasksComplete
