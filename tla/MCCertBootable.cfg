SPECIFICATION Spec
CONSTANTS
  MaxIssued = 3
  MaxFaults = 1
INVARIANTS
  AlwaysBootable
CHECK_DEADLOCK FALSE
