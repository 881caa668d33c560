SPECIFICATION FairSpec
CONSTANTS
  a = a
  b = b
  f1 = f1
  f2 = f2
  f3 = f3
  f4 = f4
  f5 = f5
  f6 = f6
  w1 = w1
  w2 = w2
  Securities = {a, b}
  RecordKeys = {1}
  Dated = {1}
  Ids = {f1, f2, f3, f4, f5, f6}
  Checkers = {w1, w2}
  MaxEdits = 4
  NoCondition = NoCondition
CHECK_DEADLOCK FALSE
INVARIANTS OneOpenPerCondition MergesNeverCollide
PROPERTIES StillTrueIsQueued
