SPECIFICATION Spec
CONSTANTS
  FileSize = 2
  Keybox <- MCKeybox
  MaxAttkb = 2
  Bytes = {17, 18}
  Sizes = {0, 1, 2}
  Apps = {"hwcrypto", "keymaster", "secure_storage", "fingerprint"}
  Blocks = {b1, b2, b3, b4}
  Nobody = Nobody
  Junk = 7
  Scrap = 8
  MaxCalls <- MCMaxCalls
SYMMETRY MCBlockSymmetry
INVARIANTS
  LeastPrivilege
  SecInfoWiped
  BlocksReturned
  OneHeciUser
  AttkbDelivered
CHECK_DEADLOCK FALSE
