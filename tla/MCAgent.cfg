SPECIFICATION AgentFairSpec
CONSTANTS
  BatchSize = 1
  CapFactor = 1
  CapFloor = 1
  InitialDelay = 1
  MaxDelay = 1
  MaxResults = 1
  MaxFailures = 1
  Poisoned <- NoPoison
  Probes <- MCProbes
  KindOf <- MCKindOf
  Grace = 2
INVARIANTS
  DrainedAtExit
PROPERTIES
  ShutdownEnds
CHECK_DEADLOCK FALSE
