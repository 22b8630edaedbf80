SPECIFICATION LiveSpec
CONSTANTS
  Cmds = {"HWKEY_EXCHANGE_CRYPTO_CTX", "HWKEY_GET_SSEK"}
  Errors = {"HWKEY_ERR_NOT_FOUND"}
  Depth = 1
  MaxSize = 1
  MaxCalls = 4
INVARIANTS
  OwnAnswer
  WholeAnswer
PROPERTIES
  CallReturns
CHECK_DEADLOCK FALSE
