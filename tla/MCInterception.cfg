SPECIFICATION InterceptionSpec
CONSTANTS
    l1 = l1
    l2 = l2
    pay = pay
    web = web
    Listeners = {l1, l2}
    MaxConns = 3
    Words = {pay, web}
    First = 6
    Last = 9
    Block = 4
    Suffix = TRUE
    MaxConsumes = 4
CHECK_DEADLOCK FALSE
INVARIANTS
    OneOwner
    AllocatorConsistent
    ConsumedResolves
    ConnectedAsAsked
PROPERTIES
    LoopsEnd
    ErrorSurfaces
