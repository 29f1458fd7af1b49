CONSTANTS
    Connections = {c1, c2}
    None = None
    Mixes <- AllMixes
    Addresses = {"a", "b"}
    MaxAttempts = 2
    MaxFailures = 3
    MaxPassword = 3
    MaxSecret = 2
    MaxStep = 3
    OpenLimit = 2
    MaxRegistrations = 2
SPECIFICATION Spec
SYMMETRY ConnectionSymmetry
CHECK_DEADLOCK FALSE
INVARIANTS
    TypeOK
    PasswordsHold
    OnePrimaryAddress
PROPERTIES
    OfficesRemain
    SettledRowsStay
    RegistrationsWithinLimit
