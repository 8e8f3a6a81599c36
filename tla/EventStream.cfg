SPECIFICATION FairSpec
CONSTANTS
  e1 = e1
  e2 = e2
  eos = eos
  HeaderSize = 2
  PendingLimit = 3
  BufLimit = 2
  RecvSize = 3
  MaxFeed = 2
  MaxWire = 3
  Endings <- MCEndings
  Events <- MCEvents
  PayloadSize <- MCPayloadSize
INVARIANTS TypeOK BuffersAreReclaimed
PROPERTIES ReadsTheFeed
CHECK_DEADLOCK FALSE
