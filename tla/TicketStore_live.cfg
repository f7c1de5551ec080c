CONSTANTS
  r1 = r1
  r2 = r2
  r3 = r3
  i1 = i1
  Absent = Absent
  None = None
  Reqs = {r1, r2, r3}
  Items = {i1}
  Menu <- LockMenu
  PoolSize = 2
  MaxTx = 3
SPECIFICATION FairSpec
PROPERTY CallReturns
