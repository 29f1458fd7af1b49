SPECIFICATION Spec
CONSTANTS
    Credentials = {k1}
    ClientURLs = {c1}
    r1 = r1
    r2 = r2
    Requests = {r1, r2}
    CeremonyTTL = 1
    MaxID = 3
    MaxClock = 2
    Workload <- TrailWorkload
SYMMETRY RequestSymmetry
INVARIANTS
    TypeOK
    ChainIsSound
    AccusesOnlyRacing
    TrailMatchesTables
    SpentWhileItLasts
CHECK_DEADLOCK FALSE
