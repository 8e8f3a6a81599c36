\* One station, two workers, a token that may be narrowed.
CONSTANTS
  a = a  b = b  w1 = w1  w2 = w2  home = home  away = away
  Slugs = {a}
  Workers = {w1, w2}
  Servers = {home}
  TokenScopes <- AnyScope
  Unknown = Unknown
  MaxStations = 1
  MaxFields = 1
  MaxJobs = 2
  MaxLate = 1
SPECIFICATION FairSpec
INVARIANT
  OnlyStraysComeBack
PROPERTIES
  NativesReturn
  RegistersOrFails
  ReregistersAfterLoss
