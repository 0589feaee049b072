SPECIFICATION FairSpec
CONSTANTS
  Blocks <- MCBlocks
  Genesis = "g0"
  Header <- MCHeader
  GenesisEth <- MCGenesisEth
  EthHashes <- MCEthHashes
  TxHashes <- MCTxHashes
  None = None
  LIMIT = 2
  MaxFaults = 0
  MaxTorn = 1
  MaxReverts = 0
PROPERTIES
  EverySynced
