CONSTANTS
  Expects <- OneCase
  Options <- EveryDriver
  MaxFrames = 2
SPECIFICATION HarnessSpec
INVARIANTS RunSound
PROPERTIES RunEnds
CHECK_DEADLOCK FALSE
