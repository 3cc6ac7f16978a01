SPECIFICATION Spec
CONSTANTS
  Job = {1, 2, 3}
  Runner = {r1}
  Idle = Idle
  Kinds = {"direct"}
  MaxAttempts = 2
  Writes = {"hide", "publish"}
  MaxEdits = 2
  MaxPauses = 0
  MaxLosses = 2
INVARIANTS RepublishExported
CHECK_DEADLOCK FALSE
