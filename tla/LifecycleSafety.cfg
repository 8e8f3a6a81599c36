\* One worker, two stations of one slug, two audio servers.
CONSTANTS
  a = a  b = b  w1 = w1  w2 = w2  home = home  away = away
  Slugs = {a}
  Workers = {w1}
  Servers = {home, away}
  TokenScopes <- FullScope
  Unknown = Unknown
  MaxStations = 2
  MaxFields = 1
  MaxJobs = 2
  MaxLate = 0
SPECIFICATION Spec
INVARIANTS
  TypeOK
  NoThreadOutlivesItsStream
  OneStreamPerSlug
  NothingTalksToAnOldServer
  NoJoinWaitsOutABackoff
