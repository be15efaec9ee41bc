SPECIFICATION FairSpec
CONSTANTS
    Kinds <- FilesAndPush
    Ring = 4
    Chunk = 3
    Block = 2
    FileLen = 5
    Plays = 1
    PosMax = 9
INVARIANT TypeOK
PROPERTIES ImplementsChannel EndsAtTheEnd FedToTheEnd ClosingIsReaped DestroyReturns
CHECK_DEADLOCK FALSE
