CONSTANTS
  r1 = r1
  r2 = r2
  i1 = i1
  alice = alice
  agent = agent
  Absent = Absent
  None = None
  Reqs = {r1, r2}
  Items = {i1}
  Users = {alice, agent}
  Roles <- RoleNames
  Asks <- HandlerAsks
  Menu <- Operations
  PoolSize = 2
  MaxTx = 2
SPECIFICATION ApiSpec
INVARIANTS ApiTypeOK WritesAuthorised NothingForeignShown  WriteAnswersTruthful
