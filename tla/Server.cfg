CONSTANTS
  Conns = {c1, c2}
  PoolSize = 2
SPECIFICATION Spec
INVARIANTS TypeOK DoctorIsRight NothingLeftOpen DemoNeedsNoSap
CHECK_DEADLOCK FALSE
