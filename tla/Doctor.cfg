CONSTANTS
  Conns = {c1, c2}
  PoolSize = 2
SPECIFICATION Spec
INVARIANT DoesNotRaise
CHECK_DEADLOCK FALSE
