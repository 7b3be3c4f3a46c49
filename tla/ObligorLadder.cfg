\* The shipped book under the shipped policy, from its sweep date: every grade, up and
\* down, as arrears come and go.
CONSTANTS
    Policy       <- BookPolicy
    InitialFiles <- LadderFiles
    Values       <- Nothing
    Expiries     <- Nothing
    Snapshots    <- LadderSnapshots
    Stories      <- Nothing
    Readings     <- Nothing
    TestPeriods  <- AnyPeriod
    Lookback     = 180
    PeriodLength = 184
    FirstDay     <- SweepDay
    MaxDay       <- SweepDay
    MaxRows      = 2
SPECIFICATION FairSpec
PROPERTIES CrossingTakesTwo RatchetSpec WatchlistHasAnExit TheBookIsGradedAsPublished FindingsReachTheirCaps
CHECK_DEADLOCK FALSE
