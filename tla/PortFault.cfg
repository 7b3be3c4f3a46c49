\* The registry and the covenant service answer an HTTP error while a breach stands.
CONSTANTS
    Policy       <- ShortClocks
    InitialFiles <- FaultFiles
    Values       <- Nothing
    Expiries     <- Nothing
    Snapshots    <- Nothing
    Stories      <- Nothing
    Readings     <- Nothing
    TestPeriods  <- AnyPeriod
    Lookback     = 2
    PeriodLength = 1
    FirstDay     = 0
    MaxDay       = 0
    MaxRows      = 1
    Erring       <- FaultErrs
SPECIFICATION ReadingSpec
PROPERTY AnErrorIsNotAnAnswer
CHECK_DEADLOCK FALSE
