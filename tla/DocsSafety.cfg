SPECIFICATION Spec
CONSTANTS
  Requests = {r1, r2, r3}
  Trucks = {v1}
  Types = {circulation}
  DocIds = {i1, i2}
  Keys = {k1, k2, k3, k4}
  Faults = {"crash", "dbError", "lostPut", "lostDelete"}
  NULL = NULL
SYMMETRY MCSymmetry
INVARIANTS TypeOK StraysExplained
PROPERTY DocumentsFollowStore
CHECK_DEADLOCK FALSE
