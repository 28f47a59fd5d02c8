SPECIFICATION AlgorithmsSpec
CONSTANTS
  MaxNotional = 40
  PctEquity = 30
  PctExposure = 60
  MaxOpenPositions = 2
  PctPowerBuffer = 95
  PctSlippageBuffer = 2
  PctDailyLoss = 3
  TrainingWindow = 2
  WarmUpRows = 1
  Refit = 2
  Interval = 2
  Unfittable <- ConstantWindows
  RollingBars = 4
  DayLength = 12
  SessionOpen = 3
  SessionClose = 10
  BarStep = 2
  NeutralBand = 2
  PctUsable = 60
  LeastRows = 1
  RiskInputs <- MCRiskInputs
  ShuffleInputs <- MCShuffleInputs
  Histories <- Histories5
  Stretches <- MCStretches
  RestatedBar = 4
  RestatedValues = {1, 2}
  TradingSessions <- TwoSessions
  Splits <- MCSplits
  Listing <- MCListing
  TrainingInputs <- MCTrainingInputs
  MaxSeries = 2
  Candidates <- FiveSymbols
  Benchmark = 2
  Sessions <- Days5
  Markets <- SomeMarkets
  Configs <- SomeConfigs
  MinObservations = 4
  PctCoverage = 80
  MaxFetches = 1
  MaxCommands = 2
INVARIANTS
  LargestAffordableLot ShuffleHonest CacheTransparent RollingCurrent
  ClustersTight RowsHonest ListedReusable
CHECK_DEADLOCK FALSE
