SPECIFICATION FairSpec
CONSTANTS
  Conns = {1, 2}
  Objects = {1, 2, 3}
  PoolSize = 1
  MaxFile = 4
  Seconds = 2
  Loads <- MCLoads
CHECK_DEADLOCK FALSE
INVARIANTS
  HeardInOrder
  CaptureReadable
PROPERTIES
  AllHeard
