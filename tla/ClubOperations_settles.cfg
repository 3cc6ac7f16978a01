SPECIFICATION LiveSpec
CONSTANTS
  Worker = {w1}
  NoWorker = NoWorker
  NoOp = NoOp
  Op = {1, 2}
  Connector = {2}
  Creation <- NoCreation
  LeaseTime = 1
  LateGrace = 1
  ClaimTime = 1
  SubmitTime = 1
  Recheck = 1
  MaxPreflight = 2
  MaxDelay = 0
  PageSize = 1
  Kinds = {"event"}
  DueTimes = {1}
  StartTimes = {1}
  Offsets = {0}
  MaxRevision = 1
  MaxClaims = 2
  MaxTime = 3
  MaxToken = 2
  Disturbances = {"disconnect", "connector", "account","cancel","reschedule","restart"}
  MaxDisturbances = 2
INVARIANTS OutcomeReported
PROPERTIES SubmissionIsCurrent EverythingSettles
CHECK_DEADLOCK FALSE
