SPECIFICATION CqSpec
CONSTANTS
    c1 = c1
    c2 = c2
    Zeroed = Zeroed
    Modulus = 4
    CqEntries = 2
    MaxPosts = 6
    Cqe <- MCCqeOne
    FillSizes <- MCFillSizes
INVARIANT
    NodropKept
