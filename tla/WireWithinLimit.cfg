SPECIFICATION Spec
CONSTANTS
  p1 = p1
  p2 = p2
  e1 = e1
  r1 = r1
  data1 = data1
  empty = empty
  tooLarge = tooLarge
  Callers = {p1, p2}
  LiveCallers = {p1, p2}
  Endpoints = {e1}
  Requests = {r1}
  EndpointOf <- MCEndpointOf
  Replies <- RacingReplies
  SplitBodies = {tooLarge}
  RetryableStatuses = {429, 503}
  MaxDaily = 3
  MaxEndpoint <- MCLimitTwo
  MaxAttempts = 2
  ErrorTTL = 1
  StorageCap = 2
  DayLength = 1
  MaxTime = 0
  MaxReleases = 1
  NoCaller = NoCaller
  NoEndpoint = NoEndpoint
  NoRequest = NoRequest
  NoCapture = NoCapture
INVARIANT WireWithinLimit
