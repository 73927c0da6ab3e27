CONSTANTS
  a = a
  b = b
  c1 = c1
  c2 = c2
  Name = {a, b}
  Targets <- SharedName
  QueryCall = {c1}
  ReadCall = {c2}
  ForwardRetries = 2
  BreakerFailures = 2
  BreakerCooldown = 2
  Probing = FALSE
  CounterRange = 4
  MaxTime = 4
SPECIFICATION Spec
INVARIANTS TypeOK HealthyOpensOnlyByCancel FailsOnlyWhenExhausted
