SPECIFICATION HostSpec
CONSTANTS
  FileSize = 2
  Keybox <- MCKeybox
  MaxAttkb = 4
  MaxTransfer = 4
  HostDepths = {8}
  SecDepth = 2
  FragWords = 3
  MinRead = 1
  HpetOnAtBoot = TRUE
  FaultKinds = {"clock", "map"}
  MaxFaults = 6
  MaxCalls = 2
INVARIANTS
  Accounting
  StoredPrefix
PROPERTIES
  CallReturns
  ImplementsUnchecked
CHECK_DEADLOCK FALSE
