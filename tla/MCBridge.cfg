CONSTANTS
  MaxBytes <- Exchange
  Window = 1
  MaxFaults = 1
SPECIFICATION FairSpec
INVARIANTS RoundTripFirst
PROPERTIES EndToEndPipe HangUpReachesPeer BridgesReturn
CHECK_DEADLOCK FALSE
