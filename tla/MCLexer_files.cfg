SPECIFICATION FairSpec
CONSTANTS
    Files <- AllFiles
    Reserved <- TwoReserved
    MaxInput = 6
    MaxEofs = 2
    MaxWarnings = 2
INVARIANTS
    TypeOK
    LongestMatch
    NothingIsLost
    EofIsSticky
    LexemesAreRight
    LinesAreRight
PROPERTY EveryCallReturns
CHECK_DEADLOCK FALSE
