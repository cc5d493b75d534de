SPECIFICATION Spec
CONSTANTS
    NumRange = 10
    SeqWeight = 4
    MaxSpan = 3
    MaxCopies = 2
    MaxMessages = 5
    StartIndices <- MCStartIndices
INVARIANTS
    TypeOK
    ArriveInOrderSent
    OrderedWithoutGap
    NothingStranded
PROPERTIES
    OrderedEventuallyDelivered
CHECK_DEADLOCK FALSE
