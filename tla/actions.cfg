SPECIFICATION Spec
CONSTANTS
  Secs = {s1}
  Types = {"dividend"}
  MaxDay = 3
  Values = {v, w}
  Bad = Bad
  None = None
  Overlap = 1
  Redate = 1
  Near = 1
  Bucket <- MCBucket
  Buckets = 2
  Modes = {"symbol", "auto"}
  Funds = {}
  Quiet = TRUE
  MaxRun = 2
  MaxEdits = 2
  MaxOps = 1
SYMMETRY Amounts
CHECK_DEADLOCK FALSE
INVARIANTS StaleIsKnown AgreesWithFeed
PROPERTIES NothingLost
