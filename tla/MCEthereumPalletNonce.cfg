SPECIFICATION Spec
CONSTANTS
  Addr <- MCAddr
  Contracts <- MCContracts
  Sends <- MCSends
  ED = 3
  MinGasPrice = 1
  U64 = 4
  U128 = 32
  U256 = 64
  NoSigner = "nobody"
  Txs <- MCTxs
  Calls <- MCCalls
  Withdrawals <- MCWithdrawals
  PreDigests <- MCPreDigests
  ChainId = 1
  Genesis <- MCGenesis
  MaxBlocks = 2
  MaxExtrinsics = 2

PROPERTIES SuccessIncrementsNonce
CHECK_DEADLOCK FALSE
