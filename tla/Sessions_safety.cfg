SPECIFICATION Spec
CONSTANTS
  r1 = r1
  r2 = r2
  t1 = t1
  t2 = t2
  t3 = t3
  u1 = u1
  l1 = l1
  None = None
  Requests = {r1, r2}
  Users = {u1}
  Tokens = {t1, t2, t3}
  Libraries = {l1}
  Home <- MCHomeOnly
  Lifetime = 1
  MaxTime = 2
  MaxRollbacks = 1
SYMMETRY Symmetric
INVARIANTS OneLiveToken ExchangedOnce NoOrphanToken RotationInv DeadlocksNeedBulk
PROPERTIES OnlyExpiredPurged OnlyExchangeEscapes ChainSpec
