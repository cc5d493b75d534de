SPECIFICATION Spec
CONSTANTS
    NumRange = 10
    SeqWeight = 4
    MaxSpan = 3
    MaxCopies = 2
    MaxMessages = 5
    StartIndices <- MCStartIndices
PROPERTIES
    OnlyOlderDropped
CHECK_DEADLOCK FALSE
