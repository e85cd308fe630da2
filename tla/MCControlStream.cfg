SPECIFICATION FairSpec
CONSTANTS
    r1 = r1
    r2 = r2
    w1 = w1
    Free = Free
    Readers = {r1, r2}
    Writers = {w1}
    MaxConns = 2
    MaxNotices = 1
CHECK_DEADLOCK FALSE
INVARIANTS
    OneReaderUnlessOverlap
    NoFrameAcrossSwap
PROPERTIES
    FramesAreRead
    AckComesUnlessOverlap
