CONSTANTS
  r1 = r1
  r2 = r2
  i1 = i1
  Absent = Absent
  None = None
  Reqs = {r1, r2}
  Items = {i1}
  Menu <- LifecycleMenu
  PoolSize = 2
  MaxTx = 4
SPECIFICATION Spec
SYMMETRY Slots
INVARIANTS TypeOK HistoryReplays ClosedAtMatchesHistory AnnouncedIsDurable RepliesTruthful CommentsMatchHistory
PROPERTIES TerminalIsFinal ImplementsLedger
