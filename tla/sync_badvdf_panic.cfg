CONSTANTS
    Peers = {p1, p2}
    MaxFrame = 2
    MaxEvents = 0
    Faults <- EveryFault
    CanStop = FALSE
    SelfIsProver = FALSE
    Absent = Absent
    Nil = Nil
SPECIFICATION Spec
INVARIANT NoNilDereference
CHECK_DEADLOCK FALSE
