SPECIFICATION Spec
CONSTANTS
  Worker = {w1, w2}
  NoWorker = NoWorker
  NoOp = NoOp
  Op = {1}
  Connector = {}
  Creation <- NoCreation
  LeaseTime = 2
  LateGrace = 2
  ClaimTime = 1
  SubmitTime = 1
  Recheck = 1
  MaxPreflight = 2
  MaxDelay = 1
  PageSize = 1
  DueTimes = {1}
  StartTimes = {1}
  Offsets = {0}
  MaxRevision = 2
  MaxClaims = 2
  MaxTime = 4
  MaxToken = 3
  Kinds = {"fixed"}
  Disturbances = {"restart", "rotate", "kill"}
  MaxDisturbances = 2
SYMMETRY WorkerSymmetry
INVARIANTS TypeOK AtMostOneWrite TruthfulOutcome OneExecutor
PROPERTIES SettledIsFinal ReviewedWrite
CHECK_DEADLOCK FALSE
