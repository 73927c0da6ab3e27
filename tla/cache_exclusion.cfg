CONSTANTS
  r1 = r1
  r2 = r2
  r3 = r3
  r4 = r4
  k1 = k1
  NoOne = NoOne
  Request = {r1, r2, r3, r4}
  Key = {k1}
  KeyOf <- OneKey
  AcceptOf <- Csv
  CacheTTL = 1
  CacheTTLJitter = 0
  CacheLockTTL = 1
  CacheLockWait = 0
  HoldMax = 2
  RedisFaults = {}
  MaxTime = 3
SYMMETRY AnyCall
SPECIFICATION Spec
INVARIANTS BoundedStampede NoLeakedLock
PROPERTIES BoundedRegress
CHECK_DEADLOCK FALSE
