CONSTANTS
  w1 = w1
  w2 = w2
  Worker = {w1, w2}
  Warmup = 1
  ResultsCap = 1
  Answer <- Replies
  MaxRequests = 4
SPECIFICATION FairSpec
INVARIANTS TypeOK ReportComplete OvertimeBounded NearestRank
PROPERTIES BenchEnds
CHECK_DEADLOCK FALSE
