SPECIFICATION Spec
CONSTANTS
  BatchSize = 2
  CapFactor = 1
  CapFloor = 1
  InitialDelay = 1
  MaxDelay = 2
  MaxResults = 3
  MaxFailures = 3
  Poisoned <- OnePoison
CONSTRAINT TwoSnmpResults
INVARIANTS
  TypeOK
  NothingLost
  BackoffSchedule
  FinalAttempt
PROPERTIES
  EvictedOnlyInOutage
  LineSpec
CHECK_DEADLOCK FALSE
