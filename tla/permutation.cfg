SPECIFICATION Spec
CONSTANTS
  a = a
  b = b
  Symbols <- TwoSymbols
  Market <- Offered
  Commands <- SomeCommands
  Weighted <- AllMetrics
  Slots = 3
  Capital = 24
  PctSize = 50
  PctHalfSpread = 50
  PctSlippage = 0
  Penalty <- LargePenalty
  NPermutations = 3
  PctSignificance = 50
  MaxRows = 3
  MaxFaults = 1
INVARIANTS BooksBalance VerdictComplete FinishedRunComplete
CHECK_DEADLOCK FALSE
