SPECIFICATION FairSpec
CONSTANTS
  Address = {a1, a2}
  Partition = {p1, p2}
  Connection = {c1, c2}
  NULL = NULL
  FailoverTimeout = 2
  MaxStatements = 3
  MaxHeartbeats = 1
CHECK_DEADLOCK FALSE
INVARIANTS ConnectionsOwned FetchOnQueryConnection
PROPERTY StatementEnds
