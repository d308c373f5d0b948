SPECIFICATION SysSpec
CONSTANTS
    Zeroed = Zeroed
    Modulus = 4
    SqEntries = 2
    CqEntries = 1
    MaxPushed = 3
    MaxPosts = 3
    MaxFaults = 1
    Sqe <- MCSqe
    Batches <- MCBatches
    Cqe <- MCCqe
    EnterCounts <- MCEnterCounts
    Wants <- MCWants
    FillSizes <- MCFillSizes
    DispatchOp <- MCDispatchOp
INVARIANTS
    SysTypeOK
    CompletesOnce
    NothingLost
    RunningIsPending
PROPERTY
    FlushIsComplete
