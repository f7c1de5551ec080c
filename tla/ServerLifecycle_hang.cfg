CONSTANTS
  r1 = r1
  Reqs = {r1}
  PoolSize = 1
SPECIFICATION HangSpec
PROPERTY ShutdownBounded
CHECK_DEADLOCK FALSE
