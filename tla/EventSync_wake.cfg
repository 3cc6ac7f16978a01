SPECIFICATION LiveSpec
CONSTANTS
  Job = {1, 2}
  Runner = {r1}
  Idle = Idle
  Kinds = {"operation"}
  MaxAttempts = 2
  Writes = {"edit"}
  MaxEdits = 1
  MaxPauses = 0
  MaxLosses = 2
INVARIANTS WokenWhenSettled
CHECK_DEADLOCK FALSE
