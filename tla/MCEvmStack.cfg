SPECIFICATION Spec
CONSTANTS
  Addr = {"user", "dex", "new"}
  User = "user"
  Slots = {"s"}
  Logs = {"l1", "l2"}
  Values = {0, 2}
  ED = 2
  GenesisAccounts <- MCGenesis
  Absent = Absent
  MaxDepth = 3
  MaxOps = 4
  MaxRuns = 2
INVARIANTS
  StorageInStep
  EffectsAreLive
  AccountsSound
PROPERTY RevertUndoes
CHECK_DEADLOCK FALSE
