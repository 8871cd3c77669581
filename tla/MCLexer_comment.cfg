SPECIFICATION FairSpec
CONSTANTS
    Files <- ShortFiles
    Reserved <- TwoReserved
    MaxInput = 3
    MaxEofs = 1
    MaxWarnings = 1
PROPERTIES
    CommentsEnd
CHECK_DEADLOCK FALSE
