SPECIFICATION Spec
CONSTANTS
  Clients = {c1, c2}
  MAX_STORED = 1
  THRESHOLD = 2
  NoFilter = NoFilter
  NoNumber = NoNumber
  FilterTypes <- AllTypes
  MaxBest = 3
  MaxKey = 2
  MaxQueue = 2
INVARIANTS
  NoneMissed
  BlocksOnce
PROPERTIES
  NoEarlyExpiry
