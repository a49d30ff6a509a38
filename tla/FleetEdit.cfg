SPECIFICATION FleetSpec
CONSTANTS
  Specs = {s1, s2, s3}
  Anns = {}
  IDs = {e1}
  Tasks = {t1, t2}
  NoSpec = NoSpec
  NoID = NoID
  NoTask = NoTask
  Timeout = 1
  StaleDDA = FALSE
  StaleRevs = FALSE
  StaleDaemon = FALSE
  Unreliable = {}
  ReuseIDs = FALSE
  SentMethods = {"start", "stop", "promote"}
  Redeliver = FALSE
  MaxTime = 1
  MaxOps = 1
  MaxFaults = 0
  MaxQueue = 1
SYMMETRY Symmetry
INVARIANT FleetTypeOK
INVARIANT BaselineKept
INVARIANT TrialIsWatched
PROPERTY RollbackRestoresBaseline
PROPERTY AbortMeansEdit
