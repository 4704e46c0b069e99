SPECIFICATION PartSpec
CONSTANTS
  w1 = w1
  w2 = w2
  q1 = q1
  d1 = d1
  d2 = d2
  r1 = r1
  r2 = r2
  id1 = id1
  id2 = id2
  empty = empty
  tooLarge = tooLarge
  Writers = {w1, w2}
  Readers = {q1}
  Digests = {d1, d2}
  Meta = Meta
  NoRecord = NoRecord
  MaxStores = 4
  Runners = {r1, r2}
  Plan <- MCPlan
  CatalogProbes = {"metrics"}
  Answers <- MCAnswers
  RunIds = {id1, id2}
  SplitBodies = {tooLarge}
  RetryableStatuses = {429}
  NoCapture = NoCapture
  None = None
  MaxAttempts = 2
  MaxRuns = 2
  MaxSends = 2
SYMMETRY Symmetry
INVARIANTS
  FilesHold
  MatrixTruthful
CHECK_DEADLOCK FALSE
