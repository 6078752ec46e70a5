CONSTANTS
    SqrtDiv = 1
    LogBase = 2
SPECIFICATION Spec
INVARIANT
    SortCorrect
