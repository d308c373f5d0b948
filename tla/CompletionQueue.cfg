SPECIFICATION CqFairSpec
CONSTANTS
    c1 = c1
    c2 = c2
    Zeroed = Zeroed
    Modulus = 4
    CqEntries = 2
    MaxPosts = 6
    Cqe <- MCCqe
    FillSizes <- MCFillSizes
INVARIANTS
    CqTypeOK
    CqNoRace
    CqFifo
    CqOverflowReported
    CqInv
PROPERTIES
    CqReaps
    CqIsChannel
