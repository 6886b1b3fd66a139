SPECIFICATION Spec
CONSTANTS
  r1 = r1
  r2 = r2
  r3 = r3
  u1 = u1
  u2 = u2
  u3 = u3
  None = None
  Requests = {r1, r2}
  Users = {u1, u2}
  Founder = u1
  Roles = {"viewer"}
  Edits <- MCNoEdits
  Ops = {"touch", "remove"}
  MaxRollbacks = 0
CHECK_DEADLOCK FALSE
PROPERTIES RevokedIsFinal
