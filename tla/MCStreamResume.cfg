CONSTANTS
  Cap = 1
  MaxBytes <- OneWay
  MaxCrashes = 2
SPECIFICATION FairSpec
CONSTRAINT Intact
INVARIANTS RingKeepsUnread
PROPERTIES ImplementsPipe AcceptedIsDelivered
CHECK_DEADLOCK FALSE
