SPECIFICATION FairSpec
CONSTANTS
  Kinds = {"monitor", "slo", "dashboard", "generic"}
  Bodies = {a, b}
  Rejected = {b}
  NoSpec = NoSpec
  Absent = Absent
  Drifted = Drifted
  Stale = FALSE
  MaxRemote = 4
  MaxEdits = 2
  MaxFaults = 1
INVARIANTS TypeOK OrphansAccounted DeletedWithIt
PROPERTIES EventuallyMirrored DeletionCompletes
CHECK_DEADLOCK FALSE
