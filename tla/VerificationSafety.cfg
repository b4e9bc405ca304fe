SPECIFICATION Spec
CONSTANTS
  Requests = {r1, r2}
  Users = {u1, u2}
  a1 = a1
  Emails <- MCEmails
  Codes = {c1, c2}
  Faults = {"crash", "error", "lostMail"}
  NULL = NULL
SYMMETRY MCSymmetry
INVARIANTS TypeOK VerifiedWhereMailed LastCodeWorks LimitPassedOnce LoginFindsAccount
CHECK_DEADLOCK FALSE
