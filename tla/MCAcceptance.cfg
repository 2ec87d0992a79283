CONSTANTS
    Runners = {r1, r2}
    Freshness = 0
    HostFreshness = 0
    Skew = 0
    RebootTime = 1
    MaxBoots = 2
    MaxNow = 2
SYMMETRY Symmetry
SPECIFICATION Spec
INVARIANTS
    AcceptanceTypeOK
    RebootPassIsReal
    LoginPassIsReal
