SPECIFICATION LiveSpec
CONSTANTS
  Source = {p}
  Projected = {p}
  Slate = Slate
  Automatic = Automatic
  MaxSeq = 2
  MaxDisturbances = 1
INVARIANTS TypeOK PendingIsOpen RefusedNeverCommits SameIntent ShowsIntent ConfirmedOnAir RemovedIsDropped
PROPERTIES OperationsSettle WorkerCatchesUp
CHECK_DEADLOCK FALSE
