SPECIFICATION DailySpec
CONSTANTS
  Requests = {r1}
  RecordIds = {i1}
  Trucks = {v1}
  Drivers = {d1}
  Days = {day1}
  MaxKm = 2
  Elsewhere = {}
  Creations <- Complete
  Patches <- MCPatches
  NULL = NULL
SYMMETRY MCSymmetry
PROPERTY AbsentFieldsKept
CHECK_DEADLOCK FALSE
