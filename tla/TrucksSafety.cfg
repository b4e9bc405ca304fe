SPECIFICATION Spec
CONSTANTS
  Requests = {r1, r2}
  Users = {u1, u2}
  Trucks = {t1}
  MaxLogs = 2
  MaxEntries = 2
  NULL = NULL
SYMMETRY MCSymmetry
INVARIANTS TypeOK DriversAsAsked LogTellsStatus BreakdownAlerted
CONSTRAINT OneOfThem
CHECK_DEADLOCK FALSE
