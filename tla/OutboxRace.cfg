\* The offline profile, two callers asking for the same review at once.
CONSTANTS
    t1 = t1  t2 = t2
    Threads     = {t1, t2}
    MaxCalls    = 2
    Figures     <- MCFigures
    Served      <- MCServed
    Foreign     <- MCForeign
    Sources     <- MCSources
    Grades      <- MCGrades
    Drafts      <- MCDrafts
    Cases       <- MCCases
    Requests    <- OfflineRequests
    Deployments <- OfflineDeployments
SPECIFICATION Spec
INVARIANTS TheOutboxIsReachable
CHECK_DEADLOCK FALSE
