SPECIFICATION Spec
CONSTANTS
  Null = Null
  U32 = 8
  U64 = 4096
  MAX_SIZE = 8
  Missing = Missing
  BYTES = 2
  BYTE = 2
  MaxItems = 4
  MaxTopics = 2
  MaxReceipts = 3
INVARIANT StorageAtAgrees
CHECK_DEADLOCK FALSE
