SPECIFICATION Spec
CONSTANTS
  Source = {p}
  Projected = {p}
  Slate = Slate
  Automatic = Automatic
  MaxSeq = 1
  MaxDisturbances = 1
INVARIANTS AnswersSettle
CHECK_DEADLOCK FALSE
