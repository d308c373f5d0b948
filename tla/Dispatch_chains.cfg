SPECIFICATION DispatchSpec
CONSTANTS
    BatchLen = 4
    MaxThreads = 1
    BatchInputs <- MCBatchInputs
    DispatchOp <- MCDispatchOp
INVARIANTS
    ChainSemantics
    CancelledUntouched
CHECK_DEADLOCK FALSE
