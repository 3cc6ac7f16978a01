SPECIFICATION LiveSpec
CONSTANTS
  Source = {p}
  Projected = {p}
  Slate = Slate
  Automatic = Automatic
  MaxSeq = 1
  MaxDisturbances = 0
PROPERTIES IntentReachesWorker
CHECK_DEADLOCK FALSE
