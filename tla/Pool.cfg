CONSTANTS
  Borrowers = {b1, b2, b3}
  Conns = {c1, c2, c3, c4}
  NoConn = NoConn
  NoOne = NoOne
  PoolSize = 2
  MaxRetries = 1
SPECIFICATION FairSpec
INVARIANTS TypeOK PermitAccounting ExclusiveUse SessionsBounded SessionsAccounted
PROPERTIES ImplementsConnectionManager PoolRecovers LockReleased
