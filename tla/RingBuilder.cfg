SPECIFICATION BuilderSpec
CONSTANTS
    Zeroed = Zeroed
    Modulus = 64
    SqMax = 8
    CqDefaultMax = 16
    MaxSetup = 2
    EntryArgs <- MCEntryArgs
    CqArgs <- MCCqArgs
    Numbers <- MCNumbers
    WqFds <- MCWqFds
INVARIANTS
    BuilderInv
    BuiltSizes
    MaskSelectsSlot
    Granted
    SetupKept
CHECK_DEADLOCK FALSE
