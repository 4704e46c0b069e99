SPECIFICATION Spec
CONSTANTS
  c1 = c1
  c2 = c2
  c3 = c3
  e1 = e1
  e2 = e2
  Callers = {c1, c2, c3}
  Endpoints = {e1, e2}
  MaxDaily = 2
  MaxEndpoint <- MCMaxEndpoint
  DayLength = 1
  NoCaller = NoCaller
  NoEndpoint = NoEndpoint
  MaxTime = 1
  MaxReleases = 1
SYMMETRY Symmetry
INVARIANTS
  EndpointWithinLimit
  DailyOvershootBounded
  HeldReservationsOpen
PROPERTIES
  ImplementsBudget
CHECK_DEADLOCK FALSE
