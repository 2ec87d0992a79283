CONSTANTS
    i1 = i1
    i2 = i2
    e1 = e1
    Intents <- MCIntents
    Enrollments <- MCEnrollments
    EnrollmentOf <- MCEnrollmentOf
    LastStep = 2
    ApprovalWindow = 1
    StartWindow = 1
    MaxNow = 1
SPECIFICATION JournalSpec
INVARIANTS JournalTypeOK SingleWriter DecisionsAgree StepsInOrder BackupFollowsJournal
PROPERTIES BlockedStaysBlocked NothingIsRepeated ImplementsWriterLock
SYMMETRY MCSymmetry
CHECK_DEADLOCK FALSE
