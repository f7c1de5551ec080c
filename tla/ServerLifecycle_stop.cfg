CONSTANTS
  r1 = r1
  r2 = r2
  r3 = r3
  Reqs = {r1, r2, r3}
  PoolSize = 2
SPECIFICATION FairSpec
INVARIANTS TypeOK AnsweredBeforeExit  
PROPERTIES NoTransactionCut ComesToServeOrEnds
CHECK_DEADLOCK FALSE
