SPECIFICATION FairSpec
CONSTANTS
  NULL = NULL
  n1 = n1
  n2 = n2
  Node = {n1, n2}
  Partition = {p1}
  Context = {c1, c2}
  Member <- BothMembers
  PartitionCount <- TwoClusters
  Placement <- ThreePlacements
  TrialModulus = 4
  MaxCalls = 3
  MaxChanges = 1
CHECK_DEADLOCK FALSE
INVARIANTS FreshAfterReport ReadyToAnswer OnlyConfirmedCounts
PROPERTIES ImplementsDirectory EveryCallEnds
