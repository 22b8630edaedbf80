SPECIFICATION HostSpec
CONSTANTS
  FileSize = 2
  Keybox <- MCKeybox
  MaxAttkb = 2
  MaxTransfer = 4
  HostDepths = {8}
  SecDepth = 2
  FragWords = 10
  MinRead = 1
  HpetOnAtBoot = FALSE
  FaultKinds = {"clock"}
  MaxFaults = 3
  MaxCalls = 1
PROPERTIES
  CallReturns
CHECK_DEADLOCK FALSE
