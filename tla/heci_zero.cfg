SPECIFICATION Spec
CONSTANTS
  FileSize = 2
  Keybox <- MCKeybox
  MaxAttkb = 2
  MaxTransfer = 4
  HostDepths = {8}
  SecDepth = 2
  FragWords = 10
  MinRead = 1
  HpetOnAtBoot = TRUE
  FaultKinds = {"clock"}
  MaxFaults = 1
  MaxCalls = 1
INVARIANTS
  FailureReturnsZero
CHECK_DEADLOCK FALSE
