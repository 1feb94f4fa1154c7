SPECIFICATION Spec
CONSTANTS
  Original <- MCOriginal
  Published <- MCPublished
  Bodies <- MCBodies
  SizeHints <- LargeHints
  Hole = "hole"
  MaxFaults = 2
INVARIANTS
  InstalledIsVerified
