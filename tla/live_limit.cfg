SPECIFICATION Spec
CONSTANTS
  s1 = s1
  s2 = s2
  Symbols = {s1, s2}
  Watchlist <- TwoSymbols
  NumOrders = 3
  MaxLot = 1
  MaxPositions = 1
  EntryFrom = 1
  CutoffFrom = 2
  FlattenFrom = 2
  MaxBar = 1
  MaxFaults = 0
INVARIANTS PositionLimit
