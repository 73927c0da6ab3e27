CONSTANTS
  a = a
  b = b
  c = c
  Name = {a, b, c}
  Targets <- ThreeTargets
  CounterRange = 16
  MaxServed = 13
SPECIFICATION Spec
INVARIANTS TypeOK WeightedShare
CHECK_DEADLOCK FALSE
