\* One worker, the poller, a lost connection or a restart.
CONSTANTS
  w1 = w1  w2 = w2
  Workers = {w1}
  Polling = TRUE
  MaxQueue = 1
  MaxChanges = 3
  MaxLosses = 1
  MaxAsks = 1
SPECIFICATION FairSpec
INVARIANTS
  TypeOK
  QuietCacheIsNoOlder
PROPERTIES
  HeardInOrder
  CacheIsRightInTheEnd
CHECK_DEADLOCK FALSE
