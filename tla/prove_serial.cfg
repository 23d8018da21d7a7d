CONSTANTS
    Threads <- OneThread
    MaxFrame = 2
    MaxTx = 2
    MaxCalls = 4
    None = None
SPECIFICATION Spec
INVARIANT TxConservation
INVARIANT ShortCircuitHolds
PROPERTY LastProvenMonotone
CHECK_DEADLOCK FALSE
