SPECIFICATION Spec
CONSTANTS
    NumRange = 8
    HoleLimit = 3
    ResendLen = 2
    HistoryLen = 1
    SkipCap = 1
    SkipReject = 2
    MaxAge = 4
    MaxMessages = 3
    MaxInFlight = 2
    StartNumbers <- MCStartNumbers
    StartDatagrams <- MCStartDatagrams
    EarlyTimeouts = TRUE
INVARIANTS
    ConformingPeerNotFlagged
CHECK_DEADLOCK FALSE
