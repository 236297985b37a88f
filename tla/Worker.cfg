CONSTANTS
  Stack = "production"
  Gen = {g1}
  NoGen = NoGen
  Slot = {1, 2}
  Hold = 1
  Limits = {FALSE, TRUE}
  MaxCommands = 2
  MaxStops = 1
  MaxFails = 1
  MaxCrashes = 1
  MaxStalls = 1
  MaxBackups = 0
  MaxRestores = 0
  MaxMishaps = 2
  Opinions = 3
  Text <- Texts
  Poison = {2}
  Histories <- Past
  Workers = {1, 2}
  MaxAttempts = 2
  MaxFaults = 2
SPECIFICATION WorkerSpec
INVARIANTS IngestedWhole
PROPERTIES BuildsSettle LiveStands CourtFills
CHECK_DEADLOCK FALSE
