CONSTANTS
  Readers = {r}
  Writers = {w}
  Swappers = {s1}
  Closers = {c}
  Window = 1
  MaxSwaps = 1
  MaxLen = 2
  NoChan = NoChan
SPECIFICATION FairSpec
INVARIANTS ChannelsClosedOnce NoLostWakeup
PROPERTIES ParkEnds SwapReachesReaders
