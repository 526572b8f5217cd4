CONSTANTS
  Signers = {joyid, okx}
  Accounts = {alice, bob}
  Clicks = {k1, k2}
  MaxGenerations = 3
  MaxTokens = 2
  MaxChecks = 1
  MaxReads = 2
  Ops = {o1, o2}
  Texts <- MCTexts
  MaxStored = 2
  Funders = {"joyid"}
  Capacity <- MCCapacity
  WithData = {2}
  Fee <- MCFee
  Occupied <- MCOccupied
  CellLimit = 2
  Holders = {"issuer", "bob"}
  Issuer = "issuer"
  Amounts = {0, 1, 2}
  U128_MAX = 2
  Genesis <- MCGenesis
  MaxCoins = 6
  MaxPool = 1
  Artists = {"alice", "bob"}
  User = "alice"
  Contents = {"art", "immortal"}
  MaxAssetCells = 4
  MaxIds = 3
  MaxSpores = 1
  Keys = {home, lab, ops}
  Calls = {"call"}
  SCOPE_LIMIT = 2
  LOG_LIMIT = 3
  MaxLogs = 4
  None = None
SPECIFICATION MCSpec
INVARIANTS
  ShownIsTheCurrentWallet
  SessionIsSigned
  ShownAnswersTheForm
  TokensAreKept
  EvidenceIsEarned
  LogsAreOfOneGeneration
PROPERTIES
  SpinnerStops
  SessionHeals
CHECK_DEADLOCK FALSE
