SPECIFICATION Spec
CONSTANTS
  Kinds = {"slo"}
  Bodies = {a, b}
  Rejected = {b}
  NoSpec = NoSpec
  Absent = Absent
  Drifted = Drifted
  Stale = FALSE
  MaxRemote = 4
  MaxEdits = 2
  MaxFaults = 0
INVARIANT DeletedFromAccount
CHECK_DEADLOCK FALSE
