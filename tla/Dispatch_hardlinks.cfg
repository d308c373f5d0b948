SPECIFICATION DispatchSpec
CONSTANTS
    BatchLen = 3
    MaxThreads = 1
    BatchInputs <- MCBatchInputs
    DispatchOp <- MCDispatchOp
INVARIANT
    HardlinkedDispatch
CHECK_DEADLOCK FALSE
