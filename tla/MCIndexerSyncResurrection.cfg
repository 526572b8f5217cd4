CONSTANTS
  alice = alice
  bob = bob
  Owners <- MCOwners
  OwnerOf <- MCOwnerOf
  Typed <- MCTyped
  MaxCells = 2
  PageLimit = 2
  MaxPages = 2
  Syncs = {s1, s2}
  None = None
SPECIFICATION Spec
INVARIANTS
  ConsumedStaysGone
CHECK_DEADLOCK FALSE
