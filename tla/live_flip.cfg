SPECIFICATION Spec
CONSTANTS
  s1 = s1
  s2 = s2
  Symbols = {s1}
  Watchlist <- OneSymbol
  NumOrders = 3
  MaxLot = 2
  MaxPositions = 1
  EntryFrom = 1
  CutoffFrom = 3
  FlattenFrom = 3
  MaxBar = 3
  MaxFaults = 1
PROPERTIES FlatBeforeOpposite
