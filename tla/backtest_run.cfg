SPECIFICATION Spec
CONSTANTS
  Ticks = 2
  MaxRows = 2
  VerboseDb = TRUE
  Analysts = {"a1"}
  MaxFaults = 2
INVARIANTS RowsInOrder FinishedComplete SucceededMeansDone AnalysisSeesAll
CHECK_DEADLOCK FALSE
