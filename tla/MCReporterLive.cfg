SPECIFICATION RecoverSpec
CONSTANTS
  BatchSize = 2
  CapFactor = 1
  CapFloor = 1
  InitialDelay = 1
  MaxDelay = 1
  MaxResults = 2
  MaxFailures = 1
  Poisoned <- NoPoison
PROPERTIES
  SnmpNotWedged
  RunReturns
CHECK_DEADLOCK FALSE
