SPECIFICATION Spec
CONSTANTS
  NULL = NULL
  Update = {u1, u2}
  MaxSchemaVersion = 1
  MAX_SESSION_REPAIR_COUNT = 1
  MaxSessions = 3
  MaxCalls = 4
  MaxLosses = 1
SYMMETRY UpdateSymmetry
CHECK_DEADLOCK FALSE
INVARIANTS CommitCompletes RowSetOwnTransaction AppliedOnce
PROPERTIES AtomicCommit ImplementsTransaction
