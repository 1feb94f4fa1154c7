SPECIFICATION Spec
CONSTANTS
  Values <- MCValues
  Hosts <- MCHosts
  LiteralIPs <- MCLiteralIPs
  NoSNMP = NoSNMP
  TaskIDs = {1, 2}
  Responses <- MixedResponses
  Goroutines = {g1, g2, g3}
  Slots = 2
  NoRunner = NoRunner
  NoTask = NoTask
  NoSource <- None
  NoUpdate = "none"
  NoResponse = NoResponse
SYMMETRY Symmetry
INVARIANTS
  NoLeakedRunner
  MatchesServer
  NoStaleSource
  SlotsMatchProbes
PROPERTIES
  RoundComplete
  UnchangedUndisturbed
CHECK_DEADLOCK FALSE
