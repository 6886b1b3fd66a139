CONSTANTS
  u1 = u1
  u2 = u2
  u3 = u3
  l1 = l1
  l2 = l2
  r1 = r1
  r2 = r2
  r3 = r3
  None = None
  Requests = {r1, r2}
  Users = {u1, u2}
  Libraries = {l1, l2}
  Homes = {l1, l2}
  Roles = {"admin"}
  Patches <- SomePatches
  Edits <- SomeEdits
  Ops = {"register", "create", "update", "select", "patch", "rename", "deleteUser", "deleteLibrary"}
SPECIFICATION Spec
SYMMETRY Symmetry
INVARIANTS AccountsInv HomeMembership
PROPERTIES CheckedLeavesAdmin RevivedWithoutMembership TenancySpec
