SPECIFICATION Spec
CONSTANTS
    Users = {u1}
    Passwords = {p1, p2}
    SessionIDs = {s1, s2}
    ResetIDs = {}
    LinkIDs = {}
    CodeIDs = {}
    CodesPerBatch = 1
    MaxFailedLogins = 1
    NoHash = NoHash
    Requests = {r1, r2}
    MaxEra = 1
    MaxHeld = 2
    MaxSecrets = 0
    MaxBatch = 1
    MaxClock = 0
    Skew = 0
    Mixes <- OnlyRenewal
SYMMETRY Symmetric
INVARIANTS
    SweepIsExhaustive
