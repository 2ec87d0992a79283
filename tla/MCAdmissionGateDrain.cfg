CONSTANTS
    Connections = {c1}
    MaxConnections = 1
    MaxOpenLease = 1
    Freshness = 1
    Skew = 1
    PollInterval = 1
    MaxNow = 2
SPECIFICATION Spec
PROPERTIES
    SessionsDrain
    ImplementsAdmission
