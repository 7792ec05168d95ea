SPECIFICATION FairSpec
CONSTANTS
  a1 = a1
  a2 = a2
  c1 = c1
  c2 = c2
  c3 = c3
  NULL = NULL
  Thread = {t1, t2}
  Address = {a1, a2}
  Connection = {c1, c2, c3}
  RemoteAddress <- MCRemoteAddress
  DefaultMaxSize = 2
  MaxSizes = {0, 1}
INVARIANTS QueueMatchesMap SingleOwner SizeBounded EvictedHasCollector
PROPERTIES OrphanedOnlyBySwapBack ImplementsLifecycle EvictedIsClosed
