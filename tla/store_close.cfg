SPECIFICATION StoreSpec
CONSTANTS
  NoSession = NoSession
  Key = {k1}
  Container = {x1}
  Handle = {h1, h2}
  CacheSize = 1
  MAX_SESSION_REPAIR_COUNT = 1
  ConnectionsFail = FALSE
  MaxSchemaId = 2
  MaxVersion = 1
  MaxSessionId = 2
  MaxStatement = 2
SYMMETRY AllSymmetry
CHECK_DEADLOCK FALSE
INVARIANT ClosedStoreHoldsNothing
