SPECIFICATION DailySpec
CONSTANTS
  Requests = {r1, r2}
  RecordIds = {i1, i2}
  Trucks = {v1, v2}
  Drivers = {d1}
  Days = {day1}
  MaxKm = 2
  Elsewhere = {1}
  Creations <- Complete
  Patches <- MCPatches
  NULL = NULL
SYMMETRY MCSymmetry
INVARIANT DailyTypeOK
PROPERTY NewSurveySetsMileage
CHECK_DEADLOCK FALSE
