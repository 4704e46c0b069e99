SPECIFICATION PartSpec
CONSTANTS
    None = None
    Names = {1, 2, 3, 4, 5, 6}
    Months = 2
    Half = 24
    Gross3 = 2
    a1 = a1
    a2 = a2
    Securities <- MCSecurities
    Weights <- MCSigns
    Returns <- MCAnyOf
    Charges <- MCAnyOf
    InitialNav = 3
    MaxPeriods = 2
    MaxSteps = 2
SYMMETRY Symmetry
INVARIANTS
    RealizedOnce
    CashExplainsNav
    BookBalanced
    SlicingIsFree
    PeriodsAddUp
    FreeShortsSaid
    OptimizerExact
CHECK_DEADLOCK FALSE
