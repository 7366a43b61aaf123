CONSTANTS
    MaxOps = 3
    Ptrs   = {p1}
    NULL   = NULL
    Sizes <- MCSizes
    MaxOffset = 7
SPECIFICATION FSpec
INVARIANTS
    TypeOK
    RingInv
    BufLenIsTotal
    FindsTheCharacter
    WalkStaysInside
    AgreesWithConcatenation
PROPERTIES
    EvictsTheOldest
    ImplementsLog
    SearchEnds
