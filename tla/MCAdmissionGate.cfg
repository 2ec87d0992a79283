CONSTANTS
    Connections = {c1, c2}
    MaxConnections = 1
    MaxOpenLease = 1
    Freshness = 0
    Skew = 0
    PollInterval = 1
    MaxNow = 2
SYMMETRY Symmetry
SPECIFICATION SafetySpec
INVARIANTS
    GateTypeOK
    SessionsCounted
    CutOff
    LateJoinsAreBounded
