SPECIFICATION Spec
CONSTANTS
  MonthDays <- MCMonthDays
  Periods <- MCPeriods
  Options <- MCOptions
  Today <- MCToday
  Symbols = {"a", "b"}
  MinSymbols = 1
  DiscoveryEnd <- MCDiscoveryEnd
  GivenModels <- MCGivenModels
  NoModel = NoModel
INVARIANTS
  WindowsTile
  OutOfSample
  AuditTrail
CHECK_DEADLOCK FALSE
