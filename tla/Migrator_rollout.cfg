CONSTANTS
  new1 = new1
  new2 = new2
  old = old
  None = None
  Replicas = {new1, new2, old}
  Embedded <- Rollout
  MaxExits = 2
SPECIFICATION FairSpec
INVARIANTS TypeOK OnceInOrder ServesMigrated
PROPERTIES AllServe ImplementsSchema
CHECK_DEADLOCK FALSE
