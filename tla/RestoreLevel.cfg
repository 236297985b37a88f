CONSTANTS
  Stack = "production"
  Gen = {g1, g2}
  NoGen = NoGen
  Slot = {1}
  Hold = 1
  Limits = {FALSE}
  MaxCommands = 3
  MaxStops = 0
  MaxFails = 1
  MaxCrashes = 0
  MaxStalls = 0
  MaxBackups = 1
  MaxRestores = 1
SPECIFICATION SpecServing
SYMMETRY Symmetry
INVARIANT LevelledRecord
