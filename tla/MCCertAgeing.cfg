CONSTANTS
  Certs <- MCCerts
  Gaps = {12, 24}
  MaxAge <- MCMaxAge
SPECIFICATION AgeingSpec
INVARIANTS
  ExpiredNeverPasses
  RefusalExplained
PROPERTIES
  Expiry
CHECK_DEADLOCK FALSE
