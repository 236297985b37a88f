CONSTANTS
  Objects = {}
  LocalDays = 2
  RemoteDays = 2
  FullEvery = 1
  PartialDays = 1
  MaxTime = 5
  MaxRuns = 3
  MaxPushes = 2
  MaxMishaps = 1
  MaxRestores = 2
  Instants = {2}
  Requests <- Nightly
SPECIFICATION MCSpec
INVARIANT AllReach
CHECK_DEADLOCK FALSE
