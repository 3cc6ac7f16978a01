SPECIFICATION Spec
CONSTANTS
  Worker = {w1}
  NoWorker = NoWorker
  NoOp = NoOp
  Op = {1, 2}
  Connector = {}
  Creation <- SecondInvites
  LeaseTime = 3
  LateGrace = 1
  ClaimTime = 1
  SubmitTime = 1
  Recheck = 1
  MaxPreflight = 2
  MaxDelay = 1
  PageSize = 1
  Kinds = {"relative"}
  DueTimes = {0}
  StartTimes = {0, 1}
  Offsets = {0}
  MaxRevision = 2
  MaxClaims = 2
  MaxTime = 2
  MaxToken = 1
  Disturbances = {"cancel", "reschedule", "retract"}
  MaxDisturbances = 2
INVARIANTS FanoutComplete InviteFollowsCreation
PROPERTIES SubmissionIsCurrent KeepsPromise
CHECK_DEADLOCK FALSE
