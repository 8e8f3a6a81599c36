\* Chunked responses and a server that does nothing wrong.
CONSTANTS
  Framings = {"chunked"}
  MaxPosts = 2
SPECIFICATION Spec
INVARIANT
  HealthyServerAppliesOnce
CHECK_DEADLOCK FALSE
