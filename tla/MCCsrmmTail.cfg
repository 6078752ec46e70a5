CONSTANTS
    MaxNnzs = 2
    MinBlk = 2
    RBlkRm = 3
    CBlkRm = 2
    RBlkCm = 3
    CBlkCm = 2
    Paths = {"rm2", "cm2"}
SPECIFICATION Spec
INVARIANT
    CsrmmResult
