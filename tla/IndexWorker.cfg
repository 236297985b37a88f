CONSTANTS
  Stack = "production"
  Gen = {g1, g2}
  NoGen = NoGen
  Slot = {1,2}
  Hold = 2
  Limits = {FALSE,TRUE}
  MaxCommands = 3
  MaxStops = 1
  MaxFails = 1
  MaxCrashes = 1
  MaxStalls = 1
  MaxBackups = 0
  MaxRestores = 0
SPECIFICATION SpecServing
SYMMETRY Symmetry
INVARIANTS RecordSound BuiltWhole TurnServed
PROPERTIES PromoteOrdered RetiredStays
