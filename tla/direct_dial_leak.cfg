\* One dialer run whose stream open may fail after it connected.
SPECIFICATION Spec
CONSTANTS
    Callers <- OneCaller
    StreamFails = TRUE
    MaxEvents = 0
INVARIANTS
    ConnectionReleased
CHECK_DEADLOCK FALSE
