CONSTANTS
  Nonces = {n1, n2}
  Verifies = {v1, v2}
  Wallets = {alice, bob}
  ChallengeTTL = 2
  Retention = 1
  MaxTime = 4
  None = None
SPECIFICATION Spec
INVARIANTS
  OneTokenPerChallenge
  TokensAreSigned
CHECK_DEADLOCK FALSE
SYMMETRY Symmetry
