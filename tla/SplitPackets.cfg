SPECIFICATION Spec
CONSTANTS
    IdRange = 2
    splitMessageProgressInterval = 2
    Priorities <- MCPriorities
    Reliabilities <- MCReliabilities
    MaxParts = 3
    MaxMessages = 3
    MaxSent = 6
INVARIANTS
    TypeOK
    QueueIsHeap
    RebuiltIntact
    NoPartStranded
    AtMostOneReceipt
    ReceiptIsTrue
    SettledAtRest
CHECK_DEADLOCK FALSE
