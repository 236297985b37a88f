CONSTANTS
  Objects = {}
  LocalDays = 1
  RemoteDays = 2
  FullEvery = 0
  PartialDays = 1
  MaxTime = 4
  MaxRuns = 3
  MaxPushes = 0
  MaxMishaps = 0
  MaxRestores = 0
  Instants = {}
  Requests <- Nightly
SPECIFICATION Spec
INVARIANT KeptVerifies
CHECK_DEADLOCK FALSE
