SPECIFICATION FairSpec
CONSTANTS
  Original <- MCOriginal
  Published <- MCPublished
  Bodies <- MCBodies
  SizeHints <- FittingHints
  Hole = "hole"
  MaxFaults = 2
INVARIANTS
  InstalledIsVerified
  NoTempLeft
PROPERTIES
  Upgrades
