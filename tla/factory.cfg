SPECIFICATION Spec
CONSTANTS
  k1 = k1
  k2 = k2
  Thread = {t1, t2}
  NoThread = NoThread
  Key = {k1, k2}
  SocketTypesOf <- MCSocketTypesOf
  Timeout = {0, 1}
  Size = {0, 2}
  DEFAULT_MAX_SIZE = 1
  MaxAddresses = 1
INVARIANTS ConfigReflected PoolSizeFollows
SYMMETRY Symmetry
