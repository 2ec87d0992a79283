CONSTANTS
    Runs = {r1, r2}
    RunTtl = 1
    ApprovalTtl = 1
    MaxNow = 1
    MaxGeneration = 2
    MaxApprovals = 2
    MaxCrashes = 1
SYMMETRY Symmetry
SPECIFICATION Spec
INVARIANTS
    RunnerTypeOK
    RestartsAreAuthorized
    TablesAgree
    StaleDispatchesNothing
CHECK_DEADLOCK FALSE
