SPECIFICATION Spec
CONSTANTS
    NumRange = 10
    BitLimits <- MCBitLimits
INVARIANTS
    TypeOK
    RepresentsPending
    AscendingRanges
PROPERTIES
    FitsDatagram
