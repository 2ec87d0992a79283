CONSTANTS
    Calls = {c1, c2}
    Keys = {k1}
    Bytes = {b1, b2}
    Sessions = {s1, s2}
    Ttl = 1
    MaxNow = 1
    MaxBoot = 2
    MaxEpoch = 1
SYMMETRY Symmetry
SPECIFICATION Spec
INVARIANTS
    ProposalsTypeOK
    AnswersAgree
    ConflictIsReal
    IssuedTokenOpens
PROPERTIES RevokedFreezesNothing
