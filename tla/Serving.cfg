\* Two worker threads and two calls on two dozen deployments.
CONSTANTS
    t1 = t1  t2 = t2
    Threads     = {t1, t2}
    MaxCalls    = 2
    Figures     <- MCFigures
    Served      <- MCServed
    Foreign     <- MCForeign
    Sources     <- MCSources
    Grades      <- MCGrades
    Drafts      <- MCDrafts
    Cases       <- MCCases
    Requests    <- MCRequests
    Deployments <- MCDeployments
SPECIFICATION FairSpec
INVARIANTS TypeOK WhoeverIsAnsweredWasAdmitted NobodyIsBlamedForTheDeployment
    AFailedHandOffIsTheConsoles RoutedMeansHeld NothingMaskedComesBack
    ThePillNamesWhatAnswers TheGuardAgreesWithTheAdapter
PROPERTIES EveryCallIsAnswered
CHECK_DEADLOCK FALSE
