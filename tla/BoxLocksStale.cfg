CONSTANTS
  Proc = {p1, p2}
  NoProc = NoProc
  MaxHolds = 2
SPECIFICATION Spec
INVARIANT Exclusion
CHECK_DEADLOCK FALSE
