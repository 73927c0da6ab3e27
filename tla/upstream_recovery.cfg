CONSTANTS
  a = a
  b = b
  c1 = c1
  c2 = c2
  Name = {a, b}
  Targets <- TwoTargets
  QueryCall = {c1}
  ReadCall = {}
  ForwardRetries = 1
  BreakerFailures = 2
  BreakerCooldown = 1
  Probing = TRUE
  CounterRange = 3
  MaxTime = 2
SPECIFICATION FairSpec
INVARIANTS BreakerBounded AlwaysATarget
PROPERTIES RecoveredCloses CallsReturn
