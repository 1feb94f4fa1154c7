SPECIFICATION IPSpec
CONSTANTS
  MaxIssued = 4
  MaxFaults = 3
  Network = {"tcp4", "tcp6"}
  Addresses <- MCAddresses
  Cuts <- MCCuts
  ParseIP <- MCParseIP
INVARIANTS
  MismatchOnlyInWindow
  TempsCleaned
  IdentityComplete
PROPERTIES
  ComesUp
  Renews
  Reconnects
  AddressesFollow
CHECK_DEADLOCK FALSE
