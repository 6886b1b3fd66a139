CONSTANTS
  u1 = u1
  u2 = u2
  u3 = u3
  l1 = l1
  l2 = l2
  r1 = r1
  r2 = r2
  r3 = r3
  None = None
  Requests = {r1, r2}
  Users = {u1, u2, u3}
  Libraries = {l1, l2}
  Homes = {l1, l2}
  Roles = {"admin", "viewer"}
  Patches = {}
  Edits <- LosingEdits
  Ops = {"register", "create", "update", "deleteUser", "deleteLibrary"}
SPECIFICATION HomeSpec
SYMMETRY Symmetry
INVARIANTS LibraryHasAdmin
