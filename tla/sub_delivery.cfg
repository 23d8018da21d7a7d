\* Two Subscribe calls on bitmasks that share a bit, with failing joins and
\* bit subscriptions, and messages published while the calls subscribe.
SPECIFICATION FairSpec
CONSTANTS
    Calls <- TwoCalls
    Masks <- TwoMasks
    Bits <- ThreeBits
    BitsOf <- JoinOrder
    MaskOf <- CallMask
    JoinFails = TRUE
    SubFails = TRUE
    MaxPublish = 3
INVARIANTS
    ReadersOnEveryBit
PROPERTIES
    DeliveredToHandler
\* Reader goroutines block in sub.Next forever once every message is read.
CHECK_DEADLOCK FALSE
