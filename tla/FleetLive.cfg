SPECIFICATION FairFleetSpec
CONSTANTS
  Specs = {s1, s2}
  Anns = {}
  IDs = {e1}
  Tasks = {t1, t2}
  NoSpec = NoSpec
  NoID = NoID
  NoTask = NoTask
  Timeout = 1
  StaleDDA = FALSE
  StaleRevs = FALSE
  StaleDaemon = FALSE
  Unreliable = {}
  ReuseIDs = FALSE
  SentMethods = {"start", "promote"}
  Redeliver = FALSE
  MaxTime = 1
  MaxOps = 0
  MaxFaults = 1
  MaxQueue = 1
PROPERTY TasksSettle
PROPERTY ExperimentsEnd
