SPECIFICATION CryptSpec
CONSTANTS
  TagSize = 2
  MaxText = 3
  MaxCrypts = 3
INVARIANTS
  NothingLeaks
  Verified
CHECK_DEADLOCK FALSE
