SPECIFICATION FairLoopsSpec
CONSTANTS
    a = a
    b = b
    c = c
    NoStream = 0
    Agents <- MCAgents
    Streams = {1, 2, 3}
    Ends <- MCEnds
    Window = 3
    MaxDelay = 2
CHECK_DEADLOCK FALSE
PROPERTIES
    DropsBehindAnother
    ReconnectReturns
