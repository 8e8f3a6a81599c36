\* Two workers; symmetric, as nothing tells them apart.
CONSTANTS
  w1 = w1  w2 = w2
  Workers = {w1, w2}
  MaxStations = 1
  MaxJobs = 4
  MaxTracks = 0
  MaxLate = 1
SPECIFICATION Spec
INVARIANTS
  TypeOK
  NoCommandOutlivesItsPool
  OvertakingIsBounded
PROPERTY
  KeepsThePromise
CHECK_DEADLOCK FALSE
SYMMETRY Symmetry
