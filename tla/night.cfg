SPECIFICATION Spec
CONSTANTS
  Securities = {a, b}
  LastDay = 3
  Dates = {0, 1}
  MaxRev = 1
  MaxLag = 1
  FullGap = 0
  Overlap = 1
  Lookback = 1
  Margin = 0
  KeepDays = 0
  Validity = {TRUE, FALSE}
  NoRow = NoRow
  Other = Other
  a = a
  b = b
SYMMETRY Symmetry
INVARIANTS UnappliedKept CaughtUp
