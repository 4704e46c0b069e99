SPECIFICATION PartSpec
CONSTANTS
  p1 = p1
  p2 = p2
  t1 = t1
  t2 = t2
  t3 = t3
  Callers = {p1, p2}
  MaxDaily = 3
  MaxAttempts = 2
  MaxPolls = 2
  MaxRuns = 3
  MaxBatches = 3
  Threads = {t1, t2, t3}
  Concurrent = 2
  Refill = 2
  UnitsPerToken = 3
  TicksPerSecond = 3
  MaxRequests = 2
  MaxTime = 5
INVARIANTS
  EveryBatchAccounted
  RateKept
PROPERTIES
  EveryWaitEnds
CHECK_DEADLOCK FALSE
