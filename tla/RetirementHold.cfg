CONSTANTS
  Stack = "production"
  Gen = {g1, g2}
  NoGen = NoGen
  Slot = {1}
  Hold = 1
  Limits = {FALSE}
  MaxCommands = 4
  MaxStops = 0
  MaxFails = 0
  MaxCrashes = 0
  MaxStalls = 0
  MaxBackups = 1
  MaxRestores = 1
SPECIFICATION SpecServed
SYMMETRY Symmetry
PROPERTY HoldKept
