SPECIFICATION Spec
CONSTANTS
  MaxDay = 2
  Overlap = 1
  MaxHolds = 2
  BackfillStart = 1
  SplitDays = 2
  Closed = {}
  SplitDates = {}
  Bar <- OneBar
  Restates <- MCRestates
  Kept <- MCKept
  AtSplitScale <- MCAtSplitScale
  Loaders = {l1, l2}
  ExplicitLoads = TRUE
  OperatorEdits = TRUE
  SharadarLoads = TRUE
  MaxEdits = 3
  RoundLot = 0
  NoBar = NoBar
  BadBar = BadBar
  NoRow = NoRow
  l1 = l1
  l2 = l2
INVARIANTS OperatorRowsRecorded
PROPERTIES ForeignRowsKept
