SPECIFICATION Spec
CONSTANTS
  Requests = {r1, r2}
  TripIds = {t1}
  Trucks = {v1}
  Drivers = {d1}
  Days = {day1}
  Keys = {k1, k2}
  MaxKm = 1
  Grain = 1
  MaxPoints = 2
  Edits <- MCEdits
  Faults = {"crash", "lostPut", "lostDelete"}
  NULL = NULL
SYMMETRY MCSymmetry
INVARIANTS TypeOK UneditedTripCoherent
PROPERTY SignaturesFollowStore
CHECK_DEADLOCK FALSE
