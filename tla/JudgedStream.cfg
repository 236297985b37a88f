CONSTANTS
  MaxMatch = 2
  LookAhead = 2
  ExclReach = 1
  ExemptReach = 2
  Lag = 4
  MaxLen = 8
  MaxEvents = 4
SPECIFICATION MCSpec
INVARIANTS ReaderNoLeak TripSound AnswerSound
PROPERTIES WindowSound EveryRequestEnds
CHECK_DEADLOCK FALSE
