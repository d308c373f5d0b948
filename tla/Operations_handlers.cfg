SPECIFICATION OpSpec
CONSTANTS
    I32Half = 64
    UsizeModulus = 64
    Scalars <- MCScalars
    Counts <- MCCounts
    BufLens <- MCBufLens
    Parses <- MCParses
INVARIANTS
    Confined
    WalksPointers
    FailsCleanly
    ResultIsBytes
    ProbeAccurate
    SlotEncoding
    ParseInBounds
CHECK_DEADLOCK FALSE
