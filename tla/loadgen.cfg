CONSTANTS
  w1 = w1
  w2 = w2
  a = a
  b = b
  Worker = {w1, w2}
  Target = {a, b}
  TotalBytes = 7
  MaxBatch = 2
  QueueCap = 1
  MaxRetries = 1
  Draw = {0, 1}
  WriteErrors = {"timeout", "refused"}
SPECIFICATION FairSpec
INVARIANTS TypeOK CompleteIsIdentical DivergenceInFlight BytesReported
PROPERTIES LoadEnds
CHECK_DEADLOCK FALSE
