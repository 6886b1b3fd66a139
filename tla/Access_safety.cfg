CONSTANTS
  u1 = u1
  u2 = u2
  l1 = l1
  l2 = l2
  r1 = r1
  r2 = r2
  None = None
  Requests = {r1, r2}
  Users = {u1, u2}
  Libraries = {l1}
  Callers = {u1, u2}
  Roles = {"admin", "viewer"}
  Edits <- SomeEdits
  Ops = {"login", "refresh", "select", "accept", "decline", "invite", "update", "remove", "updateUser", "profile"}
  Lifetime = 1
  MaxAge = 1
  MaxChanges = 2
SPECIFICATION Spec
SYMMETRY Symmetry
INVARIANTS AccessInv
PROPERTIES AuthorityIsRecent
