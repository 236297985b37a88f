CONSTANTS
  Objects = {a}
  LocalDays = 1
  RemoteDays = 1
  FullEvery = 1
  PartialDays = 1
  MaxTime = 4
  MaxRuns = 3
  MaxPushes = 2
  MaxMishaps = 1
  MaxRestores = 2
  Instants = {2, 3}
  Requests <- Nightly
SPECIFICATION MCSpec
INVARIANTS SetsCovered StoppedReaches RowsServed
PROPERTIES WaysKept
CHECK_DEADLOCK FALSE
