SPECIFICATION Spec
CONSTANTS
  k1 = k1
  k2 = k2
  va = va
  vb = vb
  Keys = {k1, k2}
  Values = {va, vb}
  Vendors = {"fmp", "sharadar"}
  Rank <- MCRank
  NoRow = NoRow
  Nothing = Nothing
  Sessions = {"s1"}
  Serial = TRUE
  MaxLog = 2
PROPERTIES Audited

SYMMETRY MCSymmetry
