CONSTANTS
  r1 = r1
  r2 = r2
  i1 = i1
  i2 = i2
  alice = alice
  agent = agent
  Absent = Absent
  None = None
  Reqs = {r1, r2}
  Items = {i1, i2}
  Users = {alice, agent}
  Roles <- RoleNames
  Asks <- RaceAsks
  Menu <- Operations
  PoolSize = 2
  MaxTx = 4
SPECIFICATION ApiSpec
SYMMETRY SlotsAndItems
INVARIANTS TransitionAnswersTruthful NumbersUnique
