\* Two covenants over three days (0 to 2): certificates, restatements, waivers, roll-over.
CONSTANTS
    Policy       <- ShortClocks
    InitialFiles <- CovenantFiles
    Values       <- CovenantValues
    Expiries     <- CovenantExpiries
    Snapshots    <- Nothing
    Stories      <- Nothing
    Readings     <- CovenantReadings
    TestPeriods  <- AnyPeriod
    Lookback     = 2
    PeriodLength = 2
    FirstDay     = 0
    MaxDay       = 2
    MaxRows      = 2
SPECIFICATION Spec
INVARIANT TypeOK
PROPERTIES FloorsBind UpgradesAreEarned NothingPassesUnseen WaitingNeverUpgrades AnUncuredBreachHoldsTheGrade
CHECK_DEADLOCK FALSE
