CONSTANTS
  r1 = r1
  r2 = r2
  r3 = r3
  r4 = r4
  k1 = k1
  NoOne = NoOne
  Request = {r1, r2}
  Key = {k1}
  KeyOf <- OneKey
  AcceptOf <- CsvAndArrow
  CacheTTL = 2
  CacheTTLJitter = 0
  CacheLockTTL = 2
  CacheLockWait = 1
  HoldMax = 1
  RedisFaults = {}
  MaxTime = 3
SPECIFICATION Spec
INVARIANTS FormatPreserved
CHECK_DEADLOCK FALSE
