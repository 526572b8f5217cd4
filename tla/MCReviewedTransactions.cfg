SPECIFICATION Spec
CONSTANTS
  Signers = {s1, s2}
  Addresses = {a1, a2}
  Forms = {f1, f2}
  Ops = {o1, o2, o3}
  MaxGeneration = 3
  Pages = {"token", "spore", "transfer"}
  None = None
INVARIANTS
  SentByItsWallet
  SentOnce
  ReviewIsCurrent
  MeltsAreConfirmed
  NeverLocked
SYMMETRY Symmetry
CHECK_DEADLOCK FALSE
