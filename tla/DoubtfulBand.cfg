\* The shipped policy on drifting metrics, without a breach and without arrears.
CONSTANTS
    Policy       <- DefaultPolicy
    InitialFiles <- DriftFiles
    Values       <- Nothing
    Expiries     <- Nothing
    Snapshots    <- Nothing
    Stories      <- DriftStories
    Readings     <- Nothing
    TestPeriods  <- AnyPeriod
    Lookback     = 180
    PeriodLength = 90
    FirstDay     = 1
    MaxDay       = 1
    MaxRows      = 10
SPECIFICATION Spec
PROPERTY DoubtfulNeedsBreachOrClock
CHECK_DEADLOCK FALSE
