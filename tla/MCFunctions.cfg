SPECIFICATION FairAll
CONSTANTS
  Null = Null
  U32 = 8
  U64 = 4096
  MAX_SIZE = 8
  Missing = Missing
  BYTES = 2
  BYTE = 2
  MaxItems = 4
  MaxTopics = 2
  MaxReceipts = 3
  LOWER = 3
  UPPER = 24
  Threshold = 10
  States <- MCStates
  Unlimited <- MCUnlimited
  Fails = Fails
  U256 = 32
  Divisor = 2
  Targets <- AllTargets
  NoTarget = NoTarget
INVARIANTS
  DigestSearchesAgree
  LogFilterExact
  ReceiptViewsAgree
  PrecompilesSafe
  OverrideAgrees
  TransactionCountExact
  MidInRange
  BestIsWitnessed
  NoUnderflow
  BoundFits
PROPERTIES
  MovesTowardsTarget
  SearchTerminates
  PriceConverges
CHECK_DEADLOCK FALSE
