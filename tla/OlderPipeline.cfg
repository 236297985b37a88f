CONSTANTS
  Stack = "production"
  Gen = {g1}
  NoGen = NoGen
  Slot = {1}
  Hold = 1
  Limits = {FALSE, TRUE}
  MaxCommands = 1
  MaxStops = 0
  MaxFails = 0
  MaxCrashes = 0
  MaxStalls = 0
  MaxBackups = 0
  MaxRestores = 0
  MaxMishaps = 2
  Opinions = 3
  Text <- Texts
  Poison = {}
  Histories <- Crossed
  Workers = {1}
  MaxAttempts = 2
  MaxFaults = 0
SPECIFICATION WorkerSpec
INVARIANTS IngestedWhole
CHECK_DEADLOCK FALSE
