SPECIFICATION Spec
CONSTANTS
  None = None
  n1 = n1
  sp = sp
  x1 = x1
  Users = {u1, u2, u3}
  EmailIDs = {e1, e2, e3}
  Addresses = {a1, a2, a3}
  Workspaces = {w1, w2}
  InvitationIDs = {i1}
  PATIDs = {p1}
  DomainIDs = {d1, d2}
  DomainNames = {n1}
  DomainOf <- OneDomain
  DomainPolicies <- Policies
  Providers = {sp}
  Subjects = {s1}
  IdentityIDs = {y1, y2}
  Ceremonies = {c1, c2}
  ConfigIDs = {f1}
  CredentialIDs = {k1, k2}
  LinkIDs = {l1, l2}
  GroupIDs = {g1}
  Externals = {x1}
  RolePolicies <- Levels
  Roles = {"admin", "member"}
  InstanceRoles = {"root", "support"}
  MaxCode = 1
  Requests = {r1, r2}
  Mixes <- AllMixes
  Grants <- Catalog
  Founder = u1
  Second = u2
  FounderMail = e1
  SecondMail = e2
  FounderAddress = a1
  SecondAddress = a2
  Home = w1
  HomeDomain = d1
  HomePolicy <- Joining
  HomeConfig = f1
  HomeKey = k1
  HomeLink = l1
  HomeRoles <- Elevating
SYMMETRY Symmetric
CHECK_DEADLOCK FALSE
INVARIANTS
  TypeOK
  EndedTokensStayDead
  SingleUse
  AddressesAreSound
  ClaimsHoldTheirNames
  DirectoryHolds
PROPERTIES
  RootRemains
  AdminsRemain
