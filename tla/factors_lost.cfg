SPECIFICATION Spec
CONSTANTS
  Secs = {s1}
  Types = {"dividend"}
  MaxDay = 2
  Values = {v}
  Bad = Bad
  None = None
  Overlap = 1
  Redate = 1
  Near = 1
  Bucket <- MCBucket
  Buckets = 1
  Modes = {"auto"}
  Funds = {}
  Quiet = TRUE
  MaxRun = 2
  MaxEdits = 1
  MaxOps = 0
PROPERTIES NightLeavesCurrent
CHECK_DEADLOCK FALSE
