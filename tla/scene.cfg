SPECIFICATION FairSpec
CONSTANTS
    GenMax = 2
    AddMax = 2
    MoverCap = 1
    Reader = {reflect}
    Calls <- AllCalls
    Fails = {"mover"}
INVARIANTS AppliedIsCommitted TracedIsWhole MovedIsShown
PROPERTIES FlushCommits FlushReturns StagedIsApplied RemovedLeaves
