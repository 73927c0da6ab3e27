CONSTANTS
  c1 = c1
  c2 = c2
  Call = {c1, c2}
  Query <- AllForms
  Point = {2}
  FreshnessWindow = 2
  MaxAge = 2
  Faults = TRUE
  MaxTime = 6
SYMMETRY AnyCall
SPECIFICATION Spec
INVARIANTS TypeOK NothingLost LiveTailFresh WindowSharesSegment
CHECK_DEADLOCK FALSE
