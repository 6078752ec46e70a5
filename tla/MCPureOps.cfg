CONSTANTS
    SectorLen = 2
    MaxChunk = 4
    Garbage = Garbage
    f1 = f1
    f2 = f2
    MaxNnzs = 2
    MinBlk = 2
    RBlkRm = 3
    CBlkRm = 2
    RBlkCm = 3
    CBlkCm = 2
    SqrtDiv = 1
    LogBase = 2
    GemmBlk = 3
    SecElems = 2
    CscMinBlk = 2
    CscRBlk = 3
    CscCBlk = 2
    Weighted = FALSE
SPECIFICATION Spec
INVARIANTS
    Symmetric
    ContiguousSound
    ReadCorrect
    SReadCorrect
    
    CsrmmResult
    SortCorrectWhenSegmented
    GemmCovers
    GemmValue
    CscCorrect
    CscRoundTrip
    KMeansDescent
