SPECIFICATION Spec
CONSTANTS
  Users = {u1, u2}
  Edits = {h1, h2}
  Sockets = {s1}
  Requests = {r1, r2}
  RequestIds = {i1}
  Keys = {k1, k2}
  Faults = {"lostPut", "lostDelete"}
  Documents = {d1}
  Dates <- MCDates
  MaxDay = 1
  NULL = NULL
INVARIANTS TypeOK RoomsFollowRoles CreatesSettled NoticesGiven DriversManaged
PROPERTIES AdminsKept AttachmentsFollowStore
SYMMETRY MCSymmetry
CONSTRAINT OneOfThem
CHECK_DEADLOCK FALSE
