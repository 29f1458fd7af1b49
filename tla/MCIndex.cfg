SPECIFICATION Spec
CONSTANTS
    Credentials = {k1}
    ClientURLs = {c1}
    r1 = r1
    r2 = r2
    Requests = {r1, r2}
    CeremonyTTL = 1
    MaxID = 4
    MaxClock = 0
    Workload <- ClientWorkload
SYMMETRY RequestSymmetry
INVARIANTS
    IndexMatchesTable
