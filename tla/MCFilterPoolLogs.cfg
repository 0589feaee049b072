SPECIFICATION Spec
CONSTANTS
  Clients = {c1}
  MAX_STORED = 1
  THRESHOLD = 3
  NoFilter = NoFilter
  NoNumber = NoNumber
  FilterTypes <- LogOnly
  MaxBest = 2
  MaxKey = 1
  MaxQueue = 2
INVARIANTS
  LogsOnce
