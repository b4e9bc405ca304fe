SPECIFICATION FairSpec
CONSTANTS
  Requests = {r1, r2}
  Users = {a1, u1}
  Admins = {a1}
  ReportIds = {p1}
  Keys = {k1}
  MaxEntries = 3
  Responses <- MCResponses
  Faults = {"crash", "dbError", "lostPut"}
  NULL = NULL
INVARIANTS TypeOK StatusExplained
PROPERTY EveryoneTold
CHECK_DEADLOCK FALSE
