SPECIFICATION Spec
CONSTANTS
  Requests = {r1, r2}
  Ids = {i1, i2}
  Words = {w}
  Spellings = {lower, upper}
  Blank = Blank
  Managers = {m1, m2}
  Trips = {t1}
  Users = {u1}
  NULL = NULL
SYMMETRY MCSymmetry
INVARIANTS TypeOK DuplicatesExplained ChosenIsListed
CHECK_DEADLOCK FALSE
