SPECIFICATION Spec
CONSTANTS
  Specs = {s1, s2}
  Anns = {a}
  IDs = {e1, e2}
  Tasks = {t}
  NoSpec = NoSpec
  NoID = NoID
  NoTask = NoTask
  Timeout = 1
  StaleDDA = TRUE
  StaleRevs = FALSE
  Unreliable = {"restore", "mark", "clear", "revision", "recreate", "gc", "status"}
  MaxTime = 1
  MaxOps = 2
  MaxFaults = 1
SYMMETRY Symmetry
INVARIANT TypeOK
INVARIANT RolledOutHasRevision
INVARIANT RevisionsOrdered
PROPERTY StartsFromRest
PROPERTY EndsWhatRuns
