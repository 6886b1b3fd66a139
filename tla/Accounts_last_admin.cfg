CONSTANTS
  u1 = u1
  u2 = u2
  u3 = u3
  l1 = l1
  l2 = l2
  r1 = r1
  r2 = r2
  r3 = r3
  None = None
  Requests = {r1, r2}
  Users = {u1, u2}
  Libraries = {l1}
  Homes = {l1}
  Roles = {"admin", "viewer"}
  Patches <- Promotions
  Edits <- SomeEdits
  Ops = {"register", "patch", "deleteUser"}
SPECIFICATION Spec
SYMMETRY Symmetry
INVARIANTS LibraryHasAdmin
