SPECIFICATION FairSpec
CONSTANTS
  Blocks <- MCBlocks
  Genesis = "g0"
  Parent <- MCParent
  Commitment <- MCCommitment
  EthHashes <- MCEthHashes
  TxHashes <- MCTxHashes
  None = None
  Silent = {"c1", "x2"}
  PRUNING = 2
  Clients = {c1}
  Requests <- MCRequests
  SendTxs = {"t2"}
  THRESHOLD = 2
  MaxLag = 1
  Absent = Absent
  All = All
  Count = Count
  State = State
  Subs = {s1}
  Off = Off
  MaxPushed = 3
INVARIANTS
  LookupTruthful
  NoPanic
  FindableIsFound
  AcceptedTracked
  PushesFaithful
PROPERTIES
  PendingDropped
  MinedEventuallyFound
