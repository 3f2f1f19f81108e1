CONSTANTS
  Threads = {t1, t2}
  TxIds = {x1, x2}
  Conns = {c1, c2}
  NoTx = NoTx
  NoConn = NoConn
  NoOne = NoOne
  PoolSize = 2
  TTL = 0
  MaxTime = 1
  MaxWrites = 1
SPECIFICATION Spec
SYMMETRY Symmetry
INVARIANTS TypeOK EndedOnce OneOwner LuwIsolation SerializedCalls
PROPERTY UsesThePool
CHECK_DEADLOCK FALSE
