SPECIFICATION Spec
CONSTANTS
  r1 = r1
  r2 = r2
  u1 = u1
  u2 = u2
  t1 = t1
  t2 = t2
  e1 = e1
  e2 = e2
  e3 = e3
  None = None
  Requests = {r1, r2}
  Users = {u1, u2}
  Tokens = {t1, t2}
  Emails = {e1, e2}
  FirstEmail <- MCFirstEmail
  Children = {u2}
  Askers = {u1}
  Ops = {"request_reset", "resend_invite", "request_email", "reset", "confirm", "edit", "delete", "cleanup"}
SYMMETRY Symmetric
INVARIANTS LinksInv ActiveEmailUnique NoOrphanLink PasswordsFromUsedLinks
PROPERTIES LinkSpec
