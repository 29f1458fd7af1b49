SPECIFICATION Spec
CONSTANTS
    Users = {}
    Resources = {x1}
    ClientIDs = {d1}
    CIMDs = {d1}
    InitialIDs = {}
    GrantIDs = {}
    AccessIDs = {}
    RefreshIDs = {}
    MachineIDs = {}
    Scopes = {offline, openid, read}
    Reserved = {offline, openid}
    OfflineAccess = offline
    OpenID = openid
    None = None
    Metadata <- AnyMetadata
    Policies <- AnyPolicy
    Requests = {r1}
    Mixes <- OnlyRevival
    Api = x1
    Read = read
    PlainID = d1
    MaxSecret = 0
    MaxQuota = 1
PROPERTIES
    DisabledUntilEnabled
