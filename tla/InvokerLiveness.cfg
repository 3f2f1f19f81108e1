CONSTANTS
  Threads = {t1, t2}
  TxIds = {x1}
  Conns = {c1}
  NoTx = NoTx
  NoConn = NoConn
  NoOne = NoOne
  PoolSize = 1
  TTL = 0
  MaxTime = 1
  MaxWrites = 2
SPECIFICATION FairSpec
INVARIANTS CleanShutdown AllOrNothing
PROPERTIES ExpiresOnlyStale RequestsEnd ShutdownEnds AbandonedRollsBackInUse
CHECK_DEADLOCK FALSE
