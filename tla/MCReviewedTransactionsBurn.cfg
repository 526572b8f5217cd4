SPECIFICATION Spec
CONSTANTS
  Signers = {s1, s2}
  Addresses = {a1}
  Forms = {f1}
  Ops = {o1, o2, o3}
  MaxGeneration = 1
  Pages = {"token"}
  None = None
INVARIANTS
  BurnsAreConfirmed
SYMMETRY Symmetry
CHECK_DEADLOCK FALSE
