SPECIFICATION Spec
CONSTANTS
  s1 = s1
  s2 = s2
  Symbols = {s1, s2}
  Watchlist <- TwoSymbols
  MaxNotional = 800
  PctEquity = 100
  PctExposure = 100
  MaxOpenPositions = 2
  PctPowerBuffer = 95
  PctSlippageBuffer = 2
  PctDailyLoss = 10
  Sessions = 2
  BarsPerSession = 3
  EntryFrom = 1
  CutoffFrom = 2
  FlattenFrom = 2
  Opens = {100, 200}
  Closes = {100}
  BarsMayLack = TRUE
  InitialCapital = 1000
  Margin = 1
  PctHalfSpread = 10
  PctSlippage = 10
  MaxOrders = 5
INVARIANTS LedgerMatches NextOpenFills TablesComplete
PROPERTIES LossBaseIsPriorClose FlatGivenBars ImplementsMachine
CHECK_DEADLOCK FALSE
