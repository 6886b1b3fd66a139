SPECIFICATION FairSpec
CONSTANTS
  r1 = r1
  r2 = r2
  t1 = t1
  t2 = t2
  t3 = t3
  u1 = u1
  l1 = l1
  None = None
  Requests = {r1, r2}
  Users = {u1}
  Tokens = {t1, t2}
  Libraries = {l1}
  Home <- MCHomeOnly
  Lifetime = 0
  MaxTime = 1
  MaxRollbacks = 1
PROPERTIES RequestsFinish ExpiredPurged
