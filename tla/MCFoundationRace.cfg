CONSTANTS
    i1 = i1
    e1 = e1
    c1 = c1
    c2 = c2
    Intents <- OneIntent
    Enrollments <- MCEnrollments
    EnrollmentOf <- MCEnrollmentOf
    Coordinators <- TwoCoordinators
    LastStep = 5
    ApprovalWindow = 1
    StartWindow = 1
    Budget = 1
    MaxNow = 0
    MaxBoot = 1
SPECIFICATION Spec
INVARIANTS FoundationTypeOK OneDispatcher EffectsOnceInOrder DoneBackupIsValid
    RevocationStopsDispatch DispatcherOwns AcceptanceIsEarned StatusFollowsSteps
SYMMETRY CoordinatorSymmetry
CHECK_DEADLOCK FALSE
