CONSTANTS
  Txs = {tx1}
  Wallets = {alice, bob}
  Requests = {r1, r2}
  MaxPolls = 2
  None = None
SPECIFICATION Spec
INVARIANTS
  FinalRowsAreEarned
  DashboardRepairs
PROPERTIES
  OnlyLateAnswersReopen
  RequestsEnd
CHECK_DEADLOCK FALSE
