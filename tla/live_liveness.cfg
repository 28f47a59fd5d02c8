SPECIFICATION FairSpec
CONSTANTS
  s1 = s1
  s2 = s2
  Symbols = {s1}
  Watchlist <- OneSymbol
  NumOrders = 5
  MaxLot = 2
  MaxPositions = 1
  EntryFrom = 1
  CutoffFrom = 2
  FlattenFrom = 2
  MaxBar = 2
  MaxFaults = 1
PROPERTIES EventuallyReconciled FlatUnlessClosed
