SPECIFICATION Spec
CONSTANTS
  r1 = r1
  r2 = r2
  r3 = r3
  u1 = u1
  u2 = u2
  u3 = u3
  None = None
  Requests = {r1, r2}
  Users = {u1, u2}
  Founder = u1
  Roles = {"admin", "viewer"}
  Edits <- MCEdits
  Ops = {"touch", "invite", "accept", "decline", "update", "remove"}
  MaxRollbacks = 1
SYMMETRY Symmetric
INVARIANTS AdminLockInv
PROPERTIES CheckedCommitLeavesAdmin FreshCommitKeepsAdmin
