CONSTANTS
    Peers = {p1, p2}
    MaxFrame = 2
    MaxEvents = 2
    Faults <- AllButNil
    CanStop = FALSE
    SelfIsProver = FALSE
    Absent = Absent
    Nil = Nil
SPECIFICATION Spec
PROPERTY CollectTerminates
CHECK_DEADLOCK FALSE
