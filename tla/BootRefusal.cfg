\* The managed profile as shipped, with no console named.
CONSTANTS
    t1 = t1  t2 = t2
    Threads     = {t1, t2}
    MaxCalls    = 2
    Figures     <- MCFigures
    Served      <- MCServed
    Foreign     <- MCForeign
    Sources     <- MCSources
    Grades      <- MCGrades
    Drafts      <- MCDrafts
    Cases       <- MCCases
    Requests    <- MCRequests
    Deployments <- BrokenDeployments
SPECIFICATION Spec
INVARIANTS BootsOnlyWhatServes
CHECK_DEADLOCK FALSE
