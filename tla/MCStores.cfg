SPECIFICATION StoresSpec
CONSTANTS
  w1 = w1
  w2 = w2
  s1 = s1
  k1 = k1
  k2 = k2
  v1 = v1
  v2 = v2
  Writers = {w1, w2}
  Sessions = {s1}
  Keys = {k1, k2}
  Values = {v1, v2}
  MaxTime = 2
  MaxSeq = 1
  Lag = 1
  Offers <- MCOffers
  Unpinned = Unpinned
  MaxWrites = 4
  None = None
  Worlds <- MCWorlds
  Experiments <- MCExperiments
  Settings <- MCSettings
  Digest <- MCDigest
  MaxRuns = 3
  MaxFaults = 1
  FigureValues = {1, 2}
  FigureTimes = {3, 4, 5}
  LagChoices <- MCLags
  Instants = {0, 1, 2, 3, 4, 5, 6}
  MaxDrops = 3
SYMMETRY Symmetry
INVARIANTS
  ReturnedStays
  DatasetsFormChain
  CrashLeavesUsable
  AnswersExact
  FailuresExplained
  NothingToldEarly
  AnswersLastServed
  FlawsSeen
PROPERTIES
  SuccessIsWhole
CHECK_DEADLOCK FALSE
