CONSTANTS
  Cap = 1
  MaxBytes <- Exchange
  MaxDeaths = 1
SPECIFICATION FairSpec
CONSTRAINT Intact
PROPERTIES MigrationKeepsPipe MigratedIsDelivered
CHECK_DEADLOCK FALSE
