CONSTANTS
  Days = {1, 2, 3}
  Dates = {1, 2}
  Courts = {"scotus", "ca6"}
  FirstCourts = {"scotus"}
  Scotus = "scotus"
  Releases0 = {1, 2}
  Selections = {{}}
  CorpusBoxes <- BothBoxes
  MaxMoves = 2
  MaxSlips = 1
SPECIFICATION CorpusSpec
CHECK_DEADLOCK FALSE
PROPERTIES RetiredRecovers
