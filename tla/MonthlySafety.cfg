SPECIFICATION MonthlySpec
CONSTANTS
  Requests = {r1, r2}
  RecordIds = {i1, i2, i3}
  Trucks = {v1, v2}
  Months = {m1, m2}
  ItemKeys = {k1, k2}
  Notes = {n1}
  Lists <- FewLists
  NULL = NULL
SYMMETRY MCSymmetry
INVARIANTS MonthlyTypeOK StatusTellsReport WorstKept
CHECK_DEADLOCK FALSE
