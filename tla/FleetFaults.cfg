SPECIFICATION FleetSpec
CONSTANTS
  Specs = {s1, s2}
  Anns = {}
  IDs = {e1}
  Tasks = {t1, t2, t3}
  NoSpec = NoSpec
  NoID = NoID
  NoTask = NoTask
  Timeout = 1
  StaleDDA = FALSE
  StaleRevs = FALSE
  StaleDaemon = FALSE
  Unreliable = {"restore", "apply", "status", "patch", "pending"}
  ReuseIDs = FALSE
  SentMethods = {"start", "stop", "promote"}
  Redeliver = FALSE
  MaxTime = 1
  MaxOps = 0
  MaxFaults = 1
  MaxQueue = 1
SYMMETRY Symmetry
INVARIANT InstallerStateTrue
 
 
 
PROPERTY PromotedKeepsExperiment
PROPERTY LifecycleKept
