SPECIFICATION FairSpec
CONSTANTS
  r1 = r1
  r2 = r2
  u1 = u1
  u2 = u2
  l1 = l1
  e1 = e1
  e2 = e2
  k1 = k1
  k2 = k2
  Requests = {r1, r2}
  Users = {u1, u2}
  Libraries = {l1}
  Addresses = {e1, e2}
  Issued = {k1, k2}
  Owner <- IssuedToU1
  Entries <- AddressChanges
INVARIANTS LocksInv DeadlocksNeedMany
PROPERTIES RequestsFinish
