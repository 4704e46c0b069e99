SPECIFICATION Spec
CONSTANTS
    None = None
    Unit = 1000
    ReturnUnit = 1000
    MonthOf <- MCMonthOf
    RankUnit = 1000
    Season = 2
    MonthIndex <- MonthOfInstant
    Names = {1, 2, 3, 4}
    First = 5
    Final = 7
INVARIANTS
    ReturnsCompound
    CleanWindowsApart
    NoLookAhead
    FeatureStampHolds
    LossNeverGrows
CHECK_DEADLOCK FALSE
