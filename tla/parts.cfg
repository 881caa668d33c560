SPECIFICATION MCSpec
CONSTANTS
  Bar <- MCBar
  RatioNum = 5
  RatioDen = 4
  VolumeRatio = 3
  MinVolume = 10
  Closes = {10, 12}
  Medians = {0, 10, 30}
  Splits <- MCSplits
  NoRow = NoRow
  NoBar = NoBar
  Sub = 4
  MoneyMax = 3
  VolumeMax = 2
  Absent = Absent
  Junk = Junk
  PriceValues = {Absent, Junk, 0, 1, 3, 5, 9, 11}
  VolumeValues = {Absent, Junk, 0, 3, 4, 12}
  Payloads <- MCPayloads
  Watched = {1, 2}
  LastDay = 4
  CloseValues = {10, 16}
  MinSessions = 3
  DensityNum = 4
  DensityDen = 5
  MoveNum = 1
  MoveDen = 2
  Behind = 2
  NavLag = 1
  Symbols = {1, 2}
  Warehouses <- MCWarehouses
  MaxChanges = 1
  NoClose = NoClose
  NoKey = NoKey
  Filings <- MCFilings
  Amended <- MCAmended
  MaxAmended = 1
  Currencies = {"USD", "EUR"}
  Columns = {"eps"}
  Null = Null
  Shut = {3}
  Prices = {2, 4}
  Ratios <- MCRatios
  Amounts = {1, 3}
  ExDates = {2, 3, 4}
  DuplicateSessions = 1
  None = None
  Keys = {1, 2}
  Tickers = {1, 2, 3}
  Excluded = {3}
  Declarable = {3}
  MaxDay = 5
  MaxSec = 3
  MaxEvents = 2
  MaxOps = 2
  MaxFails = 1
  LookbackDays = 1
  Late = 1
  Sessions = 2
  Grace = 1
  Cutover <- MCCutover
CHECK_DEADLOCK FALSE
INVARIANTS OrdinaryMovesAreStored AcceptedBarsFit RecheckAgrees EveryGapOnce NightIsWritten OneHolder
PROPERTIES RereadIsQuiet TickerFindsFed RelistedIsFound BarsKept
