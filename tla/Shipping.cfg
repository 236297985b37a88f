CONSTANTS
  Releases = {1, 2, 3}
  IdentityFrom = 2
  Artifacts <- ThreeArtifacts
  Content <- ThreeContents
  Reupgrade = FALSE
  MaxCommands = 4
  MaxMishaps = 2
  MaxRows = 1
  Lists <- TwoLists
  Controls = {2}
  Ceiling = 1
  Sets <- EverySet
  Requests <- EveryRun
  Open <- Windows
  Mornings <- OneMorning
  MaxClock = 1
  MaxEvalRows = 2
  MaxSlips = 1
SPECIFICATION ShippingSpec
INVARIANTS BoxSound RowsTrusted
PROPERTIES RollbackRestores RollbackEnds CommandsSound
CHECK_DEADLOCK FALSE
