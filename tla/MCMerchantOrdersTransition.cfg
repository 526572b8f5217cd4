CONSTANTS
  Requests = {r1, r2, r3}
  LegacyOrders = {old}
  Wallets = {alice}
  Keys = {k1}
  Hashes = {h1}
  None = None
SPECIFICATION Spec
PROPERTIES
  EachChangeIsAValidTransition
CHECK_DEADLOCK FALSE
