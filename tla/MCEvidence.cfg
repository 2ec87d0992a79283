\* Two contents of the slot, two runs of Paper, and a clock that outlasts the freshness and
\* the skew by one unit.
SPECIFICATION Spec
CONSTANTS
    Observers = {o1}
    MaxArtifact = 2
    Faults = {"docker"}
    Freshness = 1
    MaxSkew = 0
    MaxNow = 2
    MaxBoot = 2
INVARIANTS
    EvidenceTypeOK
    BundleIsRecent
PROPERTIES
    ObserverRecovers

