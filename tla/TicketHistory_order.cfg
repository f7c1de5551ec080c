CONSTANTS
  r1 = r1
  r2 = r2
  i1 = i1
  Absent = Absent
  None = None
  Reqs = {r1, r2}
  Items = {i1}
  Menu <- HistoryMenu
  PoolSize = 2
  MaxTx = 3
SPECIFICATION Spec
INVARIANT HistoryListsForward
