\* Two calls, every framing, a server that owes nothing and may hold its client.
CONSTANTS
  Framings = {"none", "length", "chunked", "untilClose"}
  MaxPosts = 2
SPECIFICATION FairSpec
INVARIANTS
  TypeOK
  ResponseIsItsOwn
  FreshConnectionAppliesOnce
PROPERTIES
  PostEnds
  InterruptEndsTheWait
CHECK_DEADLOCK FALSE
