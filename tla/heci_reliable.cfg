SPECIFICATION LiveSpec
CONSTANTS
  FileSize = 6
  Keybox <- MCKeybox
  MaxAttkb = 6
  MaxTransfer = 4
  HostDepths = {3, 4}
  SecDepth = 2
  FragWords = 10
  MinRead = 1
  HpetOnAtBoot = TRUE
  FaultKinds = {}
  MaxFaults = 0
  MaxCalls = 2
INVARIANTS
  KeyboxIntact
  StoresInBounds
  AckIsForRequest
  FitsHostBuffer
PROPERTIES
  ImplementsService
CHECK_DEADLOCK FALSE
