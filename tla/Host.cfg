CONSTANTS
  Proc = {p1, p2, p3}
  NoProc = NoProc
  MaxHolds = 2
  Boxes <- AllBoxes
  Positives <- OnePositive
  Documents <- EngineAnswers
  MaxEngineFaults = 1
  Places <- SomePlaces
  Rated = {"r1", "r2", "r3", "r4", "r5"}
  PageSize = 2
  FEEDBACK_PAGE_LIMIT = 4
  POOLED_NIGHTS = 2
  CLUSTER_FLOOR = 20
  NightKinds <- Kinds
  MaxNights = 4
  MaxChanges = 2
  MaxUpsets = 1
  SecretRegistry <- SixSecrets
  Rotators = {1, 2}
  MaxDraws = 4
  MaxSnags = 1
  People = {"ann", "bob", "cid"}
  Machine = "break-glass"
  NoUpn = {"cid"}
  Stray <- SomeGroups
  MaxRuns = 2
  MaxShifts = 1
  MaxUpsets0 = 1
  ChatSet = {"a1", "a2", "a3", "b1"}
  Holder <- SomeHolders
  Uploads = {"f1", "f2", "g1"}
  Shapes0 <- SomeShapes
  MaxEdits = 1
  MaxMisses = 1
SPECIFICATION HostSpec
INVARIANTS VerifySound ReportSound SeededAgrees ReconcileSound SweepSound
PROPERTIES LocksSound RotationSound
CHECK_DEADLOCK FALSE
