\* Fair threads.  No call is given up with its request still under way: such
\* requests change nothing a worker or the script sees.
CONSTANTS
  w1 = w1  w2 = w2
  Workers = {w1}
  MaxStations = 1
  MaxJobs = 4
  MaxTracks = 1
  MaxLate = 0
SPECIFICATION FairSpec
PROPERTY
  CommandsConclude
CHECK_DEADLOCK FALSE
