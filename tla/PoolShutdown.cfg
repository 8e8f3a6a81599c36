SPECIFICATION FairSpec
CONSTANTS
  w1 = w1
  Workers <- MCWorkers
  MaxJobs = 2
  MaxInbox = 1
INVARIANTS TypeOK NoSleepThroughTheStop SleepersAreNotNeeded OnlyTheMissedWait
PROPERTIES ShutdownReturns
CHECK_DEADLOCK FALSE
