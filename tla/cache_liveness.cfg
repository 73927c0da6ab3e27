CONSTANTS
  r1 = r1
  r2 = r2
  r3 = r3
  r4 = r4
  k1 = k1
  NoOne = NoOne
  Request = {r1, r2}
  Key = {k1}
  KeyOf <- OneKey
  AcceptOf <- Csv
  CacheTTL = 1
  CacheTTLJitter = 3
  CacheLockTTL = 1
  CacheLockWait = 1
  HoldMax = 1
  RedisFaults = {"outage", "replyLoss", "dataLoss"}
  MaxTime = 5
SPECIFICATION FairSpec
INVARIANTS TypeOK BoundedStaleness BoundedStampede
PROPERTIES CallsEnd KeepsContract
CHECK_DEADLOCK FALSE
