SPECIFICATION Spec
CONSTANTS
    IdRange = 2
    splitMessageProgressInterval = 2
    Priorities <- MCPriorities
    Reliabilities <- MCReliable
    MaxParts = 3
    MaxMessages = 2
    MaxSent = 5
INVARIANTS
    ReceiptAfterDelivery
CHECK_DEADLOCK FALSE
