CONSTANTS
  Requests = {r1, r2, r3}
  LegacyOrders = {old}
  Wallets = {alice, bob}
  Keys = {k1}
  Hashes = {h1}
  None = None
SPECIFICATION Spec
INVARIANTS
  SameKeySameOrder
  FulfilledWasPaid
  AuditGapsAreLostHandlers
PROPERTIES
  ImplementsLifecycle
CHECK_DEADLOCK FALSE
SYMMETRY Symmetry
