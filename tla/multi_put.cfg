SPECIFICATION Spec
CONSTANTS
  c1 = c1
  c2 = c2
  c3 = c3
  Container = {c1, c2, c3}
  PartitionOf <- MCPartitionOf
  MAX_SESSION_REPAIR_COUNT = 2
  MaxSessions = 9
  MaxCalls = 1
  MaxLosses = 2
INVARIANTS AllPut PutOncePerLoss SessionsClosed
CHECK_DEADLOCK FALSE
