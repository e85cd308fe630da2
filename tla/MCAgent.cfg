SPECIFICATION AgentSpec
CONSTANTS
    a1 = a1
    a2 = a2
    a3 = a3
    None = None
    Addrs = {a1, a2, a3}
    Interfaces <- Addresses
    Advertise = TRUE
    Budget = 5
    PerPair = 2
CHECK_DEADLOCK FALSE
INVARIANTS
    NothingLeaks
    ExitsOnlyIfAllFail
    AnswerFindsWaiter
    CheckIsThorough
PROPERTIES
    StartsOrExits
    AttemptSettles
