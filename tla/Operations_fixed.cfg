SPECIFICATION OpSpec
CONSTANTS
    I32Half = 64
    UsizeModulus = 64
    Scalars <- MCScalars
    Counts <- MCCounts
    BufLens <- MCBufLens
    Parses <- MCParses
INVARIANT
    FixedFileFlag
CHECK_DEADLOCK FALSE
