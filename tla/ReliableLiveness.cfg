SPECIFICATION FairSpec
CONSTANTS
    NumRange = 8
    HoleLimit = 3
    ResendLen = 2
    HistoryLen = 0
    SkipCap = 1
    SkipReject = 3
    MaxAge = 4
    MaxMessages = 2
    MaxInFlight = 2
    StartNumbers <- MCStartNumbers
    StartDatagrams <- MCStartDatagrams
    EarlyTimeouts = FALSE
PROPERTIES
    EventuallyDelivered
CHECK_DEADLOCK FALSE
