SPECIFICATION Spec
CONSTANTS
    A = A
    B = B
    C = C
    System <- MCSystem
    MaxUndo = 1
    MaxInFlight = 1
SYMMETRY Symmetry
INVARIANTS
    TypeOK
    KnowledgeSettles
    CompletedMeansAllReady
    CompleteAtRest
PROPERTIES
    CompletionIsFinal
CHECK_DEADLOCK FALSE
