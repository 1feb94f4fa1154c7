SPECIFICATION FairSpec
CONSTANTS
  Runs = {r1, r2}
  MaxRuns = 2
  MaxAgain = 1
  Alone <- MCAlone
  Jobs <- MCJobs
  Addrs <- MCAddrs
  LiteralIPs = {"lit"}
  FamilyOf <- MCFamilyOf
  Nameservers = {"name4", "lit6"}
  NoSource = NoSource
  NoAddr = NoAddr
  MaxHops = 2
  HopWait = 2
  IDSpace = 8
  Dist <- MCDist
  Router = "router"
  Quotes <- MCQuotes
  Foreign <- MCForeign
INVARIANTS
  BoundBySource
  NeverMisbound
  NoFalseOutage
  OwnAnswer
  QuoteHolds
  OneSendAfterCancel
PROPERTIES
  ProbesEnd
CHECK_DEADLOCK FALSE
