CONSTANTS
  Releases = {1, 2, 3}
  IdentityFrom = 2
  Artifacts <- ThreeArtifacts
  Content <- ThreeContents
  Reupgrade = TRUE
  MaxCommands = 4
  MaxMishaps = 2
  MaxRows = 1
  Lists <- TwoLists
  Controls = {2}
  Ceiling = 1
  Sets <- RunSets
  Requests = {}
  Open <- Windows
  Mornings = {}
  MaxClock = 0
  MaxEvalRows = 0
  MaxSlips = 0
SPECIFICATION ShippingSpec
PROPERTIES RollbackRestores
CHECK_DEADLOCK FALSE
