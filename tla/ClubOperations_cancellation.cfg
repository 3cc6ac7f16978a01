SPECIFICATION LiveSpec
CONSTANTS
  Worker = {w1}
  NoWorker = NoWorker
  NoOp = NoOp
  Op = {1, 2}
  Connector = {}
  Creation <- NoCreation
  LeaseTime = 3
  LateGrace = 1
  ClaimTime = 2
  SubmitTime = 1
  Recheck = 1
  MaxPreflight = 2
  MaxDelay = 0
  PageSize = 1
  Kinds = {"relative"}
  DueTimes = {0, 1}
  StartTimes = {1}
  Offsets = {0}
  MaxRevision = 1
  MaxClaims = 1
  MaxTime = 2
  MaxToken = 1
  Disturbances = {"cancel"}
  MaxDisturbances = 1
PROPERTIES CancellationHolds
CHECK_DEADLOCK FALSE
