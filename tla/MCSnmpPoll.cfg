SPECIFICATION PollSpec
CONSTANTS
  Values <- MCValues
  Hosts <- MCHosts
  LiteralIPs <- MCLiteralIPs
  NoSNMP = NoSNMP
  TaskIDs = {1, 2}
  Responses <- ContendResponses
  Goroutines = {g1, g2}
  Slots = 1
  NoRunner = NoRunner
  NoTask = NoTask
  NoSource <- None
  NoUpdate = "none"
  NoResponse = NoResponse
  MaxInterfaces = 2
  PollParams <- MCPollParams
  Devices <- MCDevices
  Walks <- MCWalks
  Failed = Failed
INVARIANTS
  InventoryCadence
  VerdictSound
  ReadingsSound
PROPERTIES
  CancelledRunnersEnd
  RoundsEnd
  SchedulerReturns
CHECK_DEADLOCK FALSE
