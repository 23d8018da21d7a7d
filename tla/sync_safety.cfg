CONSTANTS
    Peers = {p1, p2}
    MaxFrame = 3
    MaxEvents = 2
    Faults <- EveryFault
    CanStop = TRUE
    SelfIsProver = FALSE
    Absent = Absent
    Nil = Nil
SPECIFICATION Spec
INVARIANT TypeOK
INVARIANT ReelConsecutive
INVARIANT NoDemotionWithoutViolation
PROPERTY ImplementsRegistry
CHECK_DEADLOCK FALSE
