SPECIFICATION Spec
CONSTANTS
  c1 = c1
  c2 = c2
  Companies = {c1, c2}
  c3 = c3
  Tickers = {1, 2, 3}
  Shuffles <- MCShuffles
  MaxDay = 4
  MaxSec = 3
  MaxEvents = 4
  MaxOps = 1
  MaxFails = 1
  Heeds = TRUE
  Reach = 3
  Grace = 1
  Recent = 3
  BarSessions = 1
  None = None
SYMMETRY Symmetric
CONSTRAINT Few
CHECK_DEADLOCK FALSE
INVARIANTS OneHolder
PROPERTIES HistoryKept TickerFindsCompany
