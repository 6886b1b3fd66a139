CONSTANTS
  u1 = u1
  u2 = u2
  l1 = l1
  l2 = l2
  r1 = r1
  r2 = r2
  None = None
  Requests = {r1, r2}
  Users = {u1, u2}
  Libraries = {l1, l2}
  Callers = {u1}
  Roles = {"admin"}
  Edits = {}
  Ops = {"login", "refresh", "select", "profile", "remove", "updateUser"}
  Lifetime = 1
  MaxAge = 1
  MaxChanges = 1
SPECIFICATION FairSpec
PROPERTIES AccessEnds SelectionSettles LeaseSpec
