SPECIFICATION FairSpec
CONSTANTS
  Blocks <- MCBlocks
  Genesis = "g0"
  Header <- MCHeader
  GenesisEth <- MCGenesisEth
  EthHashes <- MCEthHashes
  TxHashes <- MCTxHashes
  None = None
  LIMIT = 2
  MaxFaults = 1
  MaxTorn = 1
  MaxReverts = 1
INVARIANTS
  BlockMappingExact
  TransactionMappingExact
  GapsBounded
PROPERTIES
  CatchesUp
  ImplementsIndex
