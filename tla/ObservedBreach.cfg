\* Two covenants on test periods that do not end together.
CONSTANTS
    Policy       <- ShortClocks
    InitialFiles <- CovenantFiles
    Values       <- CovenantValues
    Expiries     <- Nothing
    Snapshots    <- Nothing
    Stories      <- Nothing
    Readings     <- Nothing
    TestPeriods  <- AnyPeriod
    Lookback     = 2
    PeriodLength = 2
    FirstDay     = 0
    MaxDay       = 2
    MaxRows      = 2
SPECIFICATION Spec
PROPERTY AnObservedBreachIsAFact
CHECK_DEADLOCK FALSE
