SPECIFICATION StoreSpec
CONSTANTS
  NoSession = NoSession
  Key = {k1, k2}
  Container = {x1, x2}
  Handle = {h1, h2}
  CacheSize = 1
  MAX_SESSION_REPAIR_COUNT = 1
  ConnectionsFail = TRUE
  MaxSchemaId = 2
  MaxVersion = 1
  MaxSessionId = 2
  MaxStatement = 1
SYMMETRY AllSymmetry
CHECK_DEADLOCK FALSE
INVARIANTS SessionUsedOnce StatementsNew CacheConsistent
PROPERTY ImplementsLedger
