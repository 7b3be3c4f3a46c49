\* One day: a breach, a cure, a roll-over, arrears and adoptions between the reads.
CONSTANTS
    Policy       <- ShortClocks
    InitialFiles <- ReadingFiles
    Values       <- ReadingValues
    Expiries     <- Nothing
    Snapshots    <- ReadingSnapshots
    Stories      <- Nothing
    Readings     <- ReadingReadings
    TestPeriods  <- NamedPeriods
    Lookback     = 2
    PeriodLength = 1
    FirstDay     = 0
    MaxDay       = 0
    MaxRows      = 2
    Erring       <- Nothing
SPECIFICATION ReadingSpec
PROPERTIES StandingFactsBind QuietReviewIsAtomic MovesStayEarned
CHECK_DEADLOCK FALSE
