CONSTANTS
  Pullers = {p}
  StoreSnapshots = {"a1", "a2", "b1"}
  Repo <- TheRepo
  Blobs <- TheBlobs
  Profiles <- TheProfiles
  CandidateLocks <- TheLocks
  MaxPulls = 4
  MaxFaults = 1
  Execs = {1, 2}
  Inodes = {1, 2, 3}
  Size = 3
  Every = 2
  MaxFailures = 2
  Offers <- EveryOffer
  Forms = {"kept", "fresh"}
  Versions = 2
  MaxJobs = 2
  MaxTroubles = 2
  Days = {1, 2, 3}
  Dates = {1, 2}
  Courts = {"scotus", "ca6"}
  FirstCourts = {"scotus"}
  Scotus = "scotus"
  Releases0 = {1, 2}
  Selections = {{}}
  CorpusBoxes <- BothBoxes
  MaxMoves = 2
  MaxSlips = 1
  JobCourts = {"a", "b"}
  ListCourt = "a"
  Worlds <- SomeWorlds
  JobExecs = {1, 2}
  MaxPlanned = 3
  MaxStalls = 2
SPECIFICATION DataSpec
INVARIANTS StoreSound FetchSound LabelsSound JobsSound
CHECK_DEADLOCK FALSE
