SPECIFICATION FairSpec
CONSTANTS
  Requests = {r1, r2}
  TripIds = {t1}
  Trucks = {v1, v2}
  Drivers = {d1}
  Days = {day1}
  Keys = {k1}
  MaxKm = 0
  Grain = 1
  MaxPoints = 1
  Edits <- MCTruckEdits
  Faults = {"lostCommit"}
  NULL = NULL
INVARIANTS RowsReferToRows StartedAfterSurvey
PROPERTY SignatureSettled
CHECK_DEADLOCK FALSE
