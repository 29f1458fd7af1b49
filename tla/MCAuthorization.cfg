SPECIFICATION Spec
CONSTANTS
    Users = {u1}
    Resources = {x1}
    ClientIDs = {c1, c2, d1}
    CIMDs = {d1}
    InitialIDs = {i1}
    GrantIDs = {g1}
    AccessIDs = {a1, a2, a3}
    RefreshIDs = {t1, t2, t3}
    MachineIDs = {m1}
    Scopes = {offline, openid, read}
    Reserved = {offline, openid}
    OfflineAccess = offline
    OpenID = openid
    None = None
    Metadata <- AnyMetadata
    Policies <- AnyPolicy
    Requests = {r1, r2}
    Mixes <- AllMixes
    Api = x1
    Read = read
    PlainID = c1
    MaxSecret = 1
    MaxQuota = 1
SYMMETRY Symmetric
INVARIANTS
    TypeOK
    OneTokenPerProof
    OneLiveRefresh
    FamiliesDieWhole
    ScopesOnlyNarrow
    EndedGrantsAnswerNothing
    MachineTokensAllowlisted
    DisablingRevokes
    RunbookEndsOldSecret
    RegistrationQuota
