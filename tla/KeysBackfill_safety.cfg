SPECIFICATION FairSpec
CONSTANTS
  LastDay = 3
  Lookback = 2
  MaxAttempts = 2
  MaxJobs = 2
  MaxMoves = 1
INVARIANTS
  LookbackIsFull
  DoneIsBuilt
  AttemptsDoNotOverlap
PROPERTIES
  JobReleasesLock
\* The job ends and nobody posts another one.
CHECK_DEADLOCK FALSE
