SPECIFICATION OpsSpec
CONSTANTS
  Channels = {c1, c2}
  Callers = {r1}
  Worker = worker
  Readings <- MCReadings
  MaxChanges = 1
  MaxFailures = 1
  Significands = 256
  Scales <- MCScales
  Requests = {1, 2}
  Beginnings <- MCBeginnings
  MaxMoves = 2
  None = None
INVARIANTS
  LoneScanSettles
  LoneRunSettles
  PortalIsKnown
PROPERTIES
  WorkerHeals
  MismatchesStayReported
CHECK_DEADLOCK FALSE
