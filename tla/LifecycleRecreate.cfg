\* Destroy, then create the same slug.
CONSTANTS
  a = a  b = b  w1 = w1  w2 = w2  home = home  away = away
  Unknown = Unknown
  MaxJobs = 2
  MaxLate = 1
  Slugs = {a}
  Workers = {w1}
  Servers = {home}
  TokenScopes <- FullScope
  MaxStations = 2
  MaxFields = 0
SPECIFICATION Spec
PROPERTY
  UnregisterSparesLiveStations
