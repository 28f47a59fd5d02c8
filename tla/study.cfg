SPECIFICATION Spec
CONSTANTS
  Configs <- MCConfigs
  Workers <- MCWorkers
  Starts <- MCStarts
  End = 1
  Scores <- MCScores
  Penalty <- MCPenalty
  NoTrial = NoTrial
  NoConfig = NoConfig
  MaxCommands = 2
  MaxEdits = 1
  MaxNow = 1
  MaxFaults = 1
  MaxTrials = 3
INVARIANTS BudgetKept RunsLinked BarsComplete
CHECK_DEADLOCK FALSE
