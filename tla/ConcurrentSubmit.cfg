SPECIFICATION ConcurrentSpec
CONSTANTS
    e1 = e1
    t1 = t1
    t2 = t2
    Zeroed = Zeroed
    Modulus = 4
    SqEntries = 2
    MaxPushed = 2
    Sqe <- MCSqe
    Batches = {}
    EnterCounts = {}
    Submitters <- MCSubmitters
INVARIANT
    ConsumedOnce
