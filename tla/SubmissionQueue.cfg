SPECIFICATION SqFairSpec
CONSTANTS
    e1 = e1
    e2 = e2
    Zeroed = Zeroed
    Modulus = 4
    SqEntries = 2
    MaxPushed = 6
    Sqe <- MCSqe
    Batches <- MCBatches
    EnterCounts <- MCEnterCounts
INVARIANTS
    SqTypeOK
    SqNoRace
    SqFifo
    SqInv
PROPERTIES
    SqDrains
    SqIsChannel
