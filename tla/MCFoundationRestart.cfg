CONSTANTS
    i1 = i1
    e1 = e1
    c1 = c1
    c2 = c2
    Intents <- OneIntent
    Enrollments <- MCEnrollments
    EnrollmentOf <- MCEnrollmentOf
    Coordinators <- OneCoordinator
    LastStep = 5
    ApprovalWindow = 1
    StartWindow = 1
    Budget = 1
    MaxNow = 1
    MaxBoot = 2
SPECIFICATION FairSpec
INVARIANTS ValidBackupIsOffline
PROPERTIES RunReturns
CHECK_DEADLOCK FALSE
