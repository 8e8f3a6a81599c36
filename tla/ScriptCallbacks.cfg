SPECIFICATION Spec
CONSTANTS
  gamemode = gamemode
  fs1 = fs1
  fs2 = fs2
  version = version
  queueId = queueId
  reason = reason
  Scripts <- MCScripts
  Events <- MCEvents
  Defines <- MCDefines
  HeapRoom <- MCHeapRoom
  MaxBatch = 2
INVARIANTS TypeOK CallsKeepTheMachine HeardOnce OfferedToAll
CHECK_DEADLOCK FALSE
