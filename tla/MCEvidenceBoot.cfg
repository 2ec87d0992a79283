\* A skew of one unit; one restart of Paper.
SPECIFICATION Spec
CONSTANTS
    Observers = {o1}
    MaxArtifact = 1
    Faults = {"docker"}
    Freshness = 1
    MaxSkew = 1
    MaxNow = 1
    MaxBoot = 2
INVARIANTS
    NoCrossBootEvidence
