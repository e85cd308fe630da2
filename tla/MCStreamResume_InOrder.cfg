CONSTANTS
  Cap = 1
  MaxBytes <- OneWay
  MaxCrashes = 1
SPECIFICATION Spec
INVARIANTS InOrder
CHECK_DEADLOCK FALSE
