SPECIFICATION Spec
CONSTANTS
    NumRange = 10
    HoleLimit = 3
    ResendLen = 3
    MaxAge = 5
    MaxMessages = 12
    StartNumbers <- MCStartNumbers
INVARIANTS
    WindowInv
    AtMostOnce
    FreshIsAccepted
    QueueBounded
PROPERTIES
    ImplementsReliableChannel
CHECK_DEADLOCK FALSE
