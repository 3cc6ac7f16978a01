SPECIFICATION MCSpec
CONSTANTS
  Job = {1, 2, 3, 4, 5}
  Runner = {r1, r2}
  Idle = Idle
  Kinds = {"direct", "operation"}
  MaxAttempts = 2
  Writes = {"edit", "hide", "publish"}
  MaxEdits = 2
  MaxPauses = 1
  MaxLosses = 2
INVARIANTS TypeOK InSync OneHandler
PROPERTIES JobsSettle
CHECK_DEADLOCK FALSE
