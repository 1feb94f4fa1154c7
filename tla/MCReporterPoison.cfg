SPECIFICATION Spec
CONSTANTS
  BatchSize = 2
  CapFactor = 1
  CapFloor = 1
  InitialDelay = 1
  MaxDelay = 2
  MaxResults = 2
  MaxFailures = 1
  Poisoned <- OnePoison
INVARIANTS
  LeavesByServer
CHECK_DEADLOCK FALSE
