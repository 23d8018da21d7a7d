CONSTANTS
    Threads <- OneThread
    MaxFrame = 2
    MaxTx = 1
    MaxCalls = 3
    None = None
SPECIFICATION Spec
INVARIANT ProveIdempotent
CHECK_DEADLOCK FALSE
