SPECIFICATION Spec
CONSTANTS
  Figures = {a, b}
  Periods = {1, 2}
  MaxDay = 3
  MaxEvents = 3
  MaxFails = 1
  MaxFulls = 1
  Alone = FALSE
SYMMETRY Symmetry
CHECK_DEADLOCK FALSE
INVARIANTS Chained RereadIsQuiet FirstReportHeld RestatementHeld
PROPERTIES SplitIsNoVersion HistoryStands
