CONSTANTS
  Queries = {o1, o2}
  SsriForms <- MCSsriForms
  RgbppForms <- MCRgbppForms
  TxHeight <- MCTxHeight
  MaxHeight = 4
  PageSize = 2
  Threshold = 2
  IckbFields <- MCIckbFields
  Rates = {19, 20, 25}
  AR0 = 20
  OCCUPIED = 1
  CAP = 10
  U64 = 100
  U128 = 200
  MinDeposit = 5
  MaxDeposit = 20
  FEE = 1
  FEEBASE = 10
  CodeCells = 2
  MaxReorgs = 2
  NoValue = NoValue
SPECIFICATION MCSpec
INVARIANTS
  ShownAnswersTheForm
PROPERTIES
  ThresholdIsEarned
  SnapshotIsOneChain
  BusyEnds
CHECK_DEADLOCK FALSE
