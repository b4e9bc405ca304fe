SPECIFICATION Spec
CONSTANTS
  Requests = {r1, r2}
  Users = {u1}
  Links = {l1}
  Lifetime = 2
  MaxTime = 2
  MaxChanges = 2
  MaxIssued = 2
  Faults = {"crash", "error", "redis"}
  NULL = NULL
SYMMETRY MCSymmetry
INVARIANTS TypeOK OldSessionsEnd PresentSessionsLast EndedForGood
CHECK_DEADLOCK FALSE
