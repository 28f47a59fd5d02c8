SPECIFICATION Spec
CONSTANTS
  s1 = s1
  s2 = s2
  Symbols = {s1}
  Watchlist <- OneSymbol
  MaxNotional = 800
  PctEquity = 100
  PctExposure = 100
  MaxOpenPositions = 1
  PctPowerBuffer = 95
  PctSlippageBuffer = 2
  PctDailyLoss = 10
  Sessions = 2
  BarsPerSession = 4
  EntryFrom = 1
  CutoffFrom = 4
  FlattenFrom = 4
  Opens = {100, 200}
  Closes = {100, 200}
  BarsMayLack = FALSE
  InitialCapital = 1000
  Margin = 1
  PctHalfSpread = 10
  PctSlippage = 10
  MaxOrders = 8
PROPERTIES FlatOvernight
CHECK_DEADLOCK FALSE
