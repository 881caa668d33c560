SPECIFICATION FairSpec
CONSTANTS
  MaxDay = 4
  Overlap = 1
  MaxHolds = 2
  BackfillStart = 1
  SplitDays = 2
  Closed = {2}
  SplitDates = {4}
  Bar <- MCBar
  Restates <- MCRestates
  Kept <- MCKept
  AtSplitScale <- MCAtSplitScale
  Loaders = {l1}
  ExplicitLoads = FALSE
  OperatorEdits = FALSE
  SharadarLoads = FALSE
  MaxEdits = 3
  RoundLot = 2
  NoBar = NoBar
  BadBar = BadBar
  NoRow = NoRow
  l1 = l1
  l2 = l2
INVARIANTS HeldDatesRefetched
PROPERTIES FirstPrintKept CatchesUp
