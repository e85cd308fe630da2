SPECIFICATION Spec
CONSTANTS
    w1 = w1
    w2 = w2
    w3 = w3
    i1 = i1
    i2 = i2
    None = None
    Wrappers <- MCWrappers
    Ids <- MCIds
    MaxConns = 3
SYMMETRY Symmetry
CHECK_DEADLOCK FALSE
INVARIANTS
    AbandonedByOwner
    DroppedIsTold
    ClosedIsForgotten
PROPERTIES
    ListedIsResumed
