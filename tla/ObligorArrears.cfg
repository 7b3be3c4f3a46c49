\* Arrears through every tier, media and a metric, with no covenants.
CONSTANTS
    Policy       <- LossFloor
    InitialFiles <- ArrearsFiles
    Values       <- Nothing
    Expiries     <- Nothing
    Snapshots    <- ArrearsSnapshots
    Stories      <- ArrearsStories
    Readings     <- ArrearsReadings
    TestPeriods  <- AnyPeriod
    Lookback     = 0
    PeriodLength = 1
    FirstDay     = 0
    MaxDay       = 1
    MaxRows      = 2
SPECIFICATION Spec
PROPERTIES FloorsBind NothingPassesUnseen LossIsOnlyAffirmed BoundedFamiliesNeverClassifyAlone
CHECK_DEADLOCK FALSE
