SPECIFICATION Spec
CONSTANTS
    Users = {u1}
    Passwords = {p1, p2}
    SessionIDs = {s1}
    ResetIDs = {t1}
    LinkIDs = {l1, c1}
    CodeIDs = {c1}
    CodesPerBatch = 1
    MaxFailedLogins = 2
    NoHash = NoHash
    Requests = {r1, r2}
    MaxEra = 1
    MaxHeld = 1
    MaxSecrets = 1
    MaxBatch = 2
    MaxClock = 2
    Skew = 0
    Mixes <- AllMixes
SYMMETRY Symmetric
INVARIANTS
    TypeOK
    RehashNeverResurrects
    NoStaleSession
    RedeemedOnce
    GuessesAreCounted
    StepsIncrease
    CodesBurnOnce
PROPERTIES
    CompletesOnlyCurrent
    KeepsPromise
