\* Peers may answer with any fault, among them frames from a producer
\* outside the prover trie.
CONSTANTS
    Peers = {p1, p2}
    MaxFrame = 2
    MaxEvents = 0
    Faults <- EveryFault
    CanStop = FALSE
    SelfIsProver = FALSE
    Absent = Absent
    Nil = Nil
SPECIFICATION Spec
INVARIANT ReelOnlyProverFrames
CHECK_DEADLOCK FALSE
