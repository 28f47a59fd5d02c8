SPECIFICATION Spec
CONSTANTS
  s1 = s1
  s2 = s2
  c1 = c1
  c2 = c2
  Clients = {c1, c2}
  Symbols = {s2}
  Traded <- TradedSlots
  Requests <- OneSymbolRequests
  DayLength = 2
  MonthLength = 4
  Horizon = 6
  BatchSize = 1
  StartClock = 3
  MaxCalls = 3
  MaxFaults = 1
INVARIANTS StoreExact
PROPERTIES ImplementsFetcher
CHECK_DEADLOCK FALSE
