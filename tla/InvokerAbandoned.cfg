CONSTANTS
  Threads = {t1, t2}
  TxIds = {x1}
  Conns = {c1}
  NoTx = NoTx
  NoConn = NoConn
  NoOne = NoOne
  PoolSize = 1
  TTL = 0
  MaxTime = 1
  MaxWrites = 1
SPECIFICATION DiscoverySpec
PROPERTIES AbandonedRollsBack
CHECK_DEADLOCK FALSE
