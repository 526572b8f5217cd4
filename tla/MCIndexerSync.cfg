CONSTANTS
  alice = alice
  bob = bob
  Owners <- MCOwners
  OwnerOf <- MCOwnerOf
  Typed <- MCTyped
  MaxCells = 3
  PageLimit = 1
  MaxPages = 2
  Syncs = {s1, s2}
  None = None
SPECIFICATION Spec
INVARIANTS
  SoloSyncIsFresh
  OverlapLosesNoCell
PROPERTIES
  EverySyncEnds
CHECK_DEADLOCK FALSE
