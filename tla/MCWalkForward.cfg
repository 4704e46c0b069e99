SPECIFICATION ReportedSpec
CONSTANTS
  None = None
  Calendars <- MCCalendars
  Horizons = {1, 2, 3}
  Delays = {0, 1}
  TrainSteps = {1, 3}
  TestSteps = {1, 2}
  Strides = {1, 2}
  Embargoes = {0, 1}
INVARIANTS
  TrainedOnThePast
  ChecksNeverFire
  EveryTestRowAccounted
  EmbargoSeparates
  ReportHonest
  VersionsApart
CHECK_DEADLOCK FALSE
