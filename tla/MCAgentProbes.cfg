SPECIFICATION AgentSpec
CONSTANTS
  BatchSize = 1
  CapFactor = 1
  CapFloor = 1
  InitialDelay = 1
  MaxDelay = 1
  MaxResults = 2
  MaxFailures = 1
  Poisoned <- NoPoison
  Probes <- MCProbes
  KindOf <- MCKindOf
  Grace = 2
INVARIANTS
  ProbesFinish
CHECK_DEADLOCK FALSE
