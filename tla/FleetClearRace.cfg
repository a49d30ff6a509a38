SPECIFICATION FleetSpec
CONSTANTS
  Specs = {s1, s2}
  Anns = {}
  IDs = {e1}
  Tasks = {t1, t2}
  NoSpec = NoSpec
  NoID = NoID
  NoTask = NoTask
  Timeout = 1
  StaleDDA = FALSE
  StaleRevs = FALSE
  StaleDaemon = FALSE
  Unreliable = {}
  ReuseIDs = FALSE
  SentMethods = {"start", "stop", "promote"}
  Redeliver = FALSE
  MaxTime = 0
  MaxOps = 0
  MaxFaults = 0
  MaxQueue = 1
SYMMETRY Symmetry
PROPERTY ClearsWhatItSaw
