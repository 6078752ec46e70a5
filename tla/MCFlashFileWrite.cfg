CONSTANTS
    SectorLen = 2
    MaxChunk = 4
    Garbage = Garbage
SPECIFICATION Spec
INVARIANT
    WriteCorrect
