CONSTANTS
    Threads <- TwoThreads
    MaxFrame = 2
    MaxTx = 0
    MaxCalls = 4
    None = None
SPECIFICATION Spec
INVARIANT ShortCircuitHolds
CHECK_DEADLOCK FALSE
