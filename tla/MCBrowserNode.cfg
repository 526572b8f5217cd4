SPECIFICATION MCSpec
CONSTANTS
  NodeOps = {1, 2, 3}
  Instances = {1, 2}
  Keys = {1, 2, 3}
  Tabs = {t1, t2}
  Profiles = {"default", "lab"}
  Default = "default"
  Deps = {1, 2}
  LockDeps = 1
  MaxAttempts = 2
  MaxChannels = 2
  Ops = {1, 2}
  MaxInvoices = 2
  MaxShared = 3
  HopLists <- MCHopLists
  Payee = "b"
  None = None
INVARIANTS
  OneNode
  OnlyFrozenFundingIsSubmitted
  NoOrphanWithoutCause
  OrdersFollowTheirInvoice
  AnswersAreOfTheInvoice
CHECK_DEADLOCK FALSE
