\* Two reviews in flight, up to two items each to categorise.
CONSTANTS
    Requests  = {r1, r2}
    MaxItems  = 2
SPECIFICATION FairSpec
INVARIANTS TypeOK CompletedReviewsAreOnTheTrail DecidedBeforeRouted
PROPERTIES ProtocolSpec EveryReviewEnds FaultsNeverPutAReviewBack
CHECK_DEADLOCK FALSE
