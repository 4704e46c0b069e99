SPECIFICATION FairSpec
CONSTANTS
  p1 = p1
  p2 = p2
  e1 = e1
  r1 = r1
  data1 = data1
  empty = empty
  tooLarge = tooLarge
  Callers = {p1, p2}
  LiveCallers = {p1}
  Endpoints = {e1}
  Requests = {r1}
  EndpointOf <- MCEndpointOf
  Replies <- EveryClass
  SplitBodies = {tooLarge}
  RetryableStatuses = {429, 503}
  MaxDaily = 3
  MaxEndpoint <- MCLimitThree
  MaxAttempts = 2
  ErrorTTL = 1
  StorageCap = 2
  DayLength = 1
  MaxTime = 1
  MaxReleases = 0
  NoCaller = NoCaller
  NoEndpoint = NoEndpoint
  NoRequest = NoRequest
  NoCapture = NoCapture
INVARIANTS
PROPERTIES
  ExecuteEnds
