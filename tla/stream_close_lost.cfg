SPECIFICATION FairSpec
CONSTANTS
    Kinds <- Files
    Ring = 4
    Chunk = 3
    Block = 2
    FileLen = 5
    Plays = 1
    PosMax = 9
PROPERTY ClosedIsReaped
CHECK_DEADLOCK FALSE
