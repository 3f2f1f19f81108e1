CONSTANTS
  Conns = {c1, c2}
  PoolSize = 2
SPECIFICATION Spec
INVARIANT DemoStarts
CHECK_DEADLOCK FALSE
