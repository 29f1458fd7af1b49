---------------------------- MODULE DirectoryStore ----------------------------
(***************************************************************************)
(* The in-memory store's tables of accounts, addresses, workspaces,        *)
(* memberships, instance roles, invitations, personal access tokens,       *)
(* domains, external identities and directory links, and its transactions  *)
(* on the first seven: each runs under the store's mutex and is one step.  *)
(* FederationStore and ProvisioningStore have the others' transactions.    *)
(*                                                                         *)
(* A row records what a later check can tell apart.  Names, timestamps and *)
(* digests are left out, and so is expiry where the code only refuses      *)
(* because of it.  The sessions and OAuth rows the cascades also revoke    *)
(* are in AccountStore and OAuthStore.                                     *)
(***************************************************************************)
EXTENDS Naturals, FiniteSets, Sequences

CONSTANTS
    Users,          \* user identifiers
    EmailIDs,       \* identifiers of address records
    Addresses,      \* normalized email addresses
    Workspaces,     \* workspace identifiers
    InvitationIDs,  \* invitation identifiers
    PATIDs,         \* personal access token identifiers
    DomainIDs,      \* identifiers of domain claims
    DomainNames,    \* domain names
    DomainOf,       \* the domain of an address
    DomainPolicies, \* the policies a domain may be given
    Providers,      \* registered SSO provider configurations
    Subjects,       \* what a provider can answer a ceremony with
    IdentityIDs,    \* identifiers of linked external identities
    Ceremonies,     \* ceremony identifiers
    ConfigIDs,      \* SCIM configuration identifiers
    CredentialIDs,  \* identifiers of SCIM bearer credentials
    LinkIDs,        \* identifiers of SCIM users
    GroupIDs,       \* identifiers of SCIM groups
    Externals,      \* external identifiers of groups
    RolePolicies,   \* what a SCIM configuration may be set to
    Roles,          \* workspace roles of the catalog
    InstanceRoles,  \* instance roles somebody is given
    MaxCode,        \* bound on the verification secrets of an address
    None            \* no value

ASSUME RolesAssumption ==
    /\ {"admin", "member"} \subseteq Roles
    /\ InstanceRoles \subseteq
         {"root", "developer", "support", "marketing", "sales"}
    /\ "root" \in InstanceRoles
ASSUME CodesAssumption == MaxCode \in Nat
ASSUME DirectoryIDs ==
    /\ EmailIDs \cap Addresses = {}
    /\ None \notin Users \cup EmailIDs \cup Addresses \cup Workspaces
                     \cup DomainIDs \cup Ceremonies
    /\ DomainOf \in [Addresses -> DomainNames]
    /\ "local" \notin ConfigIDs \cup DomainIDs
    /\ \A ls \in SUBSET LinkIDs : Cardinality(ls) \in Nat

VARIABLES
    users,          \* accounts; email is the primary address they project
    emails,         \* address records with their pending verification
    index,          \* the sign-in lookup: address to account
    workspaces,     \* workspaces
    memberships,    \* memberships, by workspace and user
    admins,         \* instance roles
    invitations,    \* invitations
    pats,           \* personal access tokens
    domains,        \* domain claims with their policy
    domainNames,    \* the claim that holds each name
    identities,     \* external identities linked to accounts
    spent,          \* ceremonies a commit has consumed
    configs,        \* SCIM configurations
    credentials,    \* SCIM bearer credentials
    links,          \* SCIM users
    groups,         \* SCIM groups
    groupKeys       \* the group that holds each external identifier

accountVars == <<users, emails, index>>
tenantVars == <<workspaces, memberships>>
grantVars == <<admins, invitations, pats>>
federationVars == <<domains, domainNames, identities, spent>>
groupVars == <<groups, groupKeys>>
scimVars == <<configs, credentials, links, groupVars>>
directoryVars == <<federationVars, scimVars>>
storeVars == <<accountVars, tenantVars, grantVars, directoryVars>>

Absent == [st |-> "absent"]

\* Bug: the address is emptied.
Emptied(e) == None

\* An address as the tables hold it: anonymizing an account replaces each of
\* its addresses by a tombstone made from the record's identifier.
Address == Addresses \cup EmailIDs
Tombstone(e) == e

User == [st: {"enabled", "disabled"}, email: Address, password: BOOLEAN]
Email == [st: {"pending", "verified"}, user: Users, addr: Address,
          primary: BOOLEAN, code: 0..MaxCode]
Workspace == [st: {"enabled", "disabled"}]
Membership == [st: {"active", "suspended"}, role: Roles,
               source: ConfigIDs \cup DomainIDs \cup {"local"}]
Invitation == [st: {"pending", "accepted", "revoked"}, ws: Workspaces,
               addr: Address \cup {None}, role: Roles,
               user: Users \cup {None}]
PAT == [st: {"live", "revoked"}, user: Users, ws: Workspaces \cup {None}]

\* What a domain's policy says: whether an identity of the provider joins
\* the workspace, with which role, and whether sign-in must use SSO.
DomainPolicy == [join: BOOLEAN, enforce: BOOLEAN, role: Roles,
                 provider: Providers \cup {None}]
Domain == [st: {"fresh", "stale", "confirmed"}, ws: Workspaces,
           name: DomainNames, policy: DomainPolicies]

\* The policy of a claim nobody has given one.
NoPolicy == [join |-> FALSE, enforce |-> FALSE, role |-> "member",
             provider |-> None]
Identity == [user: Users, provider: Providers, subject: Subjects]

\* trust: whether the directory's addresses count as verified; default: the
\* role of a new user; map: the role and priority of a group's members.
RolePolicy == [trust: BOOLEAN, default: Roles,
               map: [Externals -> [role: Roles, priority: Nat] \cup {None}]]
Config == [st: {"enabled", "disabled"}, ws: Workspaces, policy: RolePolicies]
Credential == [st: {"live", "revoked"}, config: ConfigIDs]
Link == [st: {"active", "inactive", "deprovisioned"}, user: Users,
         config: ConfigIDs]
Group == [st: {"live", "deleted"}, config: ConfigIDs,
          ext: Externals \cup {None}, members: SUBSET LinkIDs]

\* UpdateWorkspaceDomainPolicy: a policy that joins or enforces names a
\* registered provider.
ASSUME PoliciesAssumption ==
    /\ RolePolicies \subseteq RolePolicy
    /\ NoPolicy \in DomainPolicies
    /\ \A p \in DomainPolicies :
         p \in DomainPolicy /\ (p.join \/ p.enforce => p.provider # None)

StoreTypeOK ==
    /\ users \in [Users -> User \cup {Absent}]
    /\ emails \in [EmailIDs -> Email \cup {Absent}]
    /\ index \in [Address -> Users \cup {None}]
    /\ workspaces \in [Workspaces -> Workspace \cup {Absent}]
    /\ memberships \in [Workspaces -> [Users -> Membership \cup {Absent}]]
    /\ admins \in [Users -> InstanceRoles \cup {None}]
    /\ invitations \in [InvitationIDs -> Invitation \cup {Absent}]
    /\ pats \in [PATIDs -> PAT \cup {Absent}]
    /\ domains \in [DomainIDs -> Domain \cup {Absent}]
    /\ domainNames \in [DomainNames -> DomainIDs \cup {None}]
    /\ identities \in [IdentityIDs -> Identity \cup {Absent}]
    /\ spent \subseteq Ceremonies
    /\ configs \in [ConfigIDs -> Config \cup {Absent}]
    /\ credentials \in [CredentialIDs -> Credential \cup {Absent}]
    /\ links \in [LinkIDs -> Link \cup {Absent}]
    /\ groups \in [GroupIDs -> Group \cup {Absent}]
    /\ groupKeys \in [ConfigIDs -> [Externals -> GroupIDs \cup {None}]]

\* New: empty tables.
AccountsInit ==
    /\ users = [u \in Users |-> Absent]
    /\ emails = [e \in EmailIDs |-> Absent]
    /\ index = [a \in Address |-> None]
    /\ workspaces = [w \in Workspaces |-> Absent]
    /\ memberships = [w \in Workspaces |-> [u \in Users |-> Absent]]
    /\ admins = [u \in Users |-> None]
    /\ invitations = [i \in InvitationIDs |-> Absent]
    /\ pats = [p \in PATIDs |-> Absent]

FederationInit ==
    /\ domains = [d \in DomainIDs |-> Absent]
    /\ domainNames = [n \in DomainNames |-> None]
    /\ identities = [i \in IdentityIDs |-> Absent]
    /\ spent = {}

ProvisioningInit ==
    /\ configs = [c \in ConfigIDs |-> Absent]
    /\ credentials = [c \in CredentialIDs |-> Absent]
    /\ links = [l \in LinkIDs |-> Absent]
    /\ groups = [g \in GroupIDs |-> Absent]
    /\ groupKeys = [c \in ConfigIDs |-> [x \in Externals |-> None]]

Local(role, st) == [st |-> st, role |-> role, source |-> "local"]
Joins(w, u, row) == memberships' = [memberships EXCEPT ![w][u] = row]
Exists(table, id) == table[id] # Absent

\* emailIDs: some record, verified or not, holds the address.
Taken(a) == \E e \in EmailIDs : Exists(emails, e) /\ emails[e].addr = a

Enabled(u) == users[u].st = "enabled"
ActiveAdmin(w, u) == memberships[w][u].st = "active"
                     /\ memberships[w][u].role = "admin"
Roots == {u \in Users : admins[u] = "root"}

\* activeWorkspaceAdminsLocked: the accounts are not looked at.
ActiveAdmins(w) == {u \in Users : ActiveAdmin(w, u)}

\* revokeUserCredentialsLocked, its tokens: of one workspace, or all of them.
RevokedFor(us, ws) ==
    [p \in PATIDs |-> IF Exists(pats, p) /\ pats[p].user \in us
                         /\ pats[p].ws \in ws
                      THEN [pats[p] EXCEPT !.st = "revoked"] ELSE pats[p]]
Everywhere == Workspaces \cup {None}

-----------------------------------------------------------------------------
(* Accounts.                                                               *)

\* What every transaction that creates an account writes: the account and
\* its primary address, which joins the sign-in lookup when it is verified.
NewAccount(u, e, a, st, password) ==
    /\ ~Exists(users, u) /\ ~Exists(emails, e) /\ ~Taken(a)
    /\ users' = [users EXCEPT ![u] =
                   [st |-> "enabled", email |-> a, password |-> password]]
    /\ emails' = [emails EXCEPT ![e] =
                    [st |-> st, user |-> u, addr |-> a, primary |-> TRUE,
                     code |-> 0]]
    /\ index' = IF st = "verified" THEN [index EXCEPT ![a] = u] ELSE index

StoreBootstrap(u, e, a, w) ==
    /\ \A v \in Users : ~Exists(users, v)
    /\ NewAccount(u, e, a, "verified", TRUE)
    /\ workspaces' = [workspaces EXCEPT ![w] = [st |-> "enabled"]]
    /\ Joins(w, u, Local("admin", "active"))
    /\ admins' = [admins EXCEPT ![u] = "root"]
    /\ UNCHANGED <<invitations, pats, directoryVars>>

StoreCreateUser(u, e, a, w, role) ==
    /\ Exists(workspaces, w)
    /\ NewAccount(u, e, a, "verified", TRUE)
    /\ Joins(w, u, Local(role, "active"))
    /\ UNCHANGED <<workspaces, grantVars, directoryVars>>

\* The address is verified only under AutoVerifyEmail.
StoreCreateSignup(u, e, a, st, w) ==
    /\ ~Exists(workspaces, w)
    /\ NewAccount(u, e, a, st, TRUE)
    /\ workspaces' = [workspaces EXCEPT ![w] = [st |-> "enabled"]]
    /\ Joins(w, u, Local("admin", "active"))
    /\ UNCHANGED <<grantVars, directoryVars>>

\* Bug: the workspaces are not looked at.
DispensableRoot(u) ==
    u \in Roots => Cardinality({v \in Roots : Enabled(v)}) > 1

\* The guard shared by SetUserDisabled and AnonymizeUser: another enabled
\* root, and another enabled active admin in every workspace u administers.
Dispensable(u) ==
    /\ u \in Roots => Cardinality({v \in Roots : Enabled(v)}) > 1
    /\ \A w \in Workspaces : ActiveAdmin(w, u) =>
          \E v \in Users \ {u} : ActiveAdmin(w, v) /\ Enabled(v)

\* Bug: the account is closed and its tokens are left.
StoreSetUserDisabledOnly(u, st) ==
    /\ Exists(users, u)
    /\ st = "disabled" => Dispensable(u)
    /\ users' = [users EXCEPT ![u].st = st]
    /\ UNCHANGED <<emails, index, tenantVars, grantVars, directoryVars>>

StoreSetUserDisabled(u, st) ==
    /\ Exists(users, u)
    /\ st = "disabled" => Dispensable(u)
    /\ users' = [users EXCEPT ![u].st = st]
    /\ pats' = IF st = "disabled" THEN RevokedFor({u}, Everywhere) ELSE pats
    /\ UNCHANGED <<emails, index, tenantVars, admins, invitations,
                   directoryVars>>

\* The stored account keeps its status; the rest of row is written, the
\* address the account projects included.
StoreUpdateUser(u, row) ==
    /\ Exists(users, u)
    /\ users' = [users EXCEPT ![u].email = row.email]
    /\ UNCHANGED <<emails, index, tenantVars, grantVars, directoryVars>>

\* Addresses become tombstones, the account is disabled, its tokens are
\* revoked and its directory links deprovisioned; memberships stay.
StoreAnonymizeUser(u) ==
    LET own == {e \in EmailIDs : Exists(emails, e) /\ emails[e].user = u} IN
    /\ Exists(users, u)
    /\ Dispensable(u)
    /\ emails' = [e \in EmailIDs |-> IF e \in own
                    THEN [emails[e] EXCEPT !.addr = Tombstone(e)]
                    ELSE emails[e]]
    /\ index' = [a \in Address |->
                   IF \E e \in own : a = Tombstone(e) THEN u
                   ELSE IF \E e \in own : a = emails[e].addr THEN None
                   ELSE index[a]]
    /\ users' = [users EXCEPT
                   ![u].st = "disabled",
                   ![u].email = IF \E e \in own : emails[e].primary
                                THEN Tombstone(CHOOSE e \in own :
                                                 emails[e].primary)
                                ELSE @]
    /\ invitations' = [i \in InvitationIDs |->
                         IF Exists(invitations, i) /\ invitations[i].user = u
                         THEN [invitations[i] EXCEPT !.addr = None]
                         ELSE invitations[i]]
    /\ pats' = RevokedFor({u}, Everywhere)
    /\ links' = [l \in LinkIDs |-> IF Exists(links, l) /\ links[l].user = u
                   THEN [links[l] EXCEPT !.st = "deprovisioned"]
                   ELSE links[l]]
    /\ UNCHANGED <<tenantVars, admins, federationVars, configs, credentials,
                   groupVars>>

StoreRevokeUserCredentials(u) ==
    /\ Exists(users, u)
    /\ pats' = RevokedFor({u}, Everywhere)
    /\ UNCHANGED <<accountVars, tenantVars, admins, invitations,
                   directoryVars>>

-----------------------------------------------------------------------------
(* Addresses.                                                              *)

StoreSaveEmail(e, u, a) ==
    /\ u \in Users /\ Exists(users, u) /\ ~Exists(emails, e) /\ ~Taken(a)
    /\ emails' = [emails EXCEPT ![e] =
                    [st |-> "pending", user |-> u, addr |-> a,
                     primary |-> FALSE, code |-> 0]]
    /\ UNCHANGED <<users, index, tenantVars, grantVars, directoryVars>>

StoreReissueEmailVerification(e) ==
    /\ emails[e].st = "pending"
    /\ emails' = [emails EXCEPT ![e].code = @ + 1]
    /\ UNCHANGED <<users, index, tenantVars, grantVars, directoryVars>>

StoreVerifyEmail(e) ==
    /\ emails[e].st = "pending"
    /\ emails' = [emails EXCEPT ![e].st = "verified"]
    /\ index' = [index EXCEPT ![emails[e].addr] = emails[e].user]
    /\ UNCHANGED <<users, tenantVars, grantVars, directoryVars>>

\* Bug: the former primary address stays one.
StoreAddPrimaryEmail(u, e) ==
    /\ emails[e].st = "verified" /\ emails[e].user = u
    /\ emails' = [emails EXCEPT ![e].primary = TRUE]
    /\ users' = [users EXCEPT ![u].email = emails[e].addr]
    /\ UNCHANGED <<index, tenantVars, grantVars, directoryVars>>

StoreSetPrimaryEmail(u, e) ==
    /\ emails[e].st = "verified" /\ emails[e].user = u
    /\ emails' = [d \in EmailIDs |->
                    IF Exists(emails, d) /\ emails[d].user = u
                    THEN [emails[d] EXCEPT !.primary = (d = e)]
                    ELSE emails[d]]
    /\ users' = [users EXCEPT ![u].email = emails[e].addr]
    /\ UNCHANGED <<index, tenantVars, grantVars, directoryVars>>

\* The primary and the last verified address stay.
Removable(e) ==
    /\ ~emails[e].primary
    /\ emails[e].st = "verified" =>
         \E d \in EmailIDs \ {e} : emails[d].st = "verified"
                                   /\ emails[d].user = emails[e].user

StoreRemoveEmail(u, e) ==
    /\ Exists(emails, e) /\ emails[e].user = u
    /\ Removable(e)
    /\ index' = [index EXCEPT ![emails[e].addr] = None]
    /\ emails' = [emails EXCEPT ![e] = Absent]
    /\ UNCHANGED <<users, tenantVars, grantVars, directoryVars>>

-----------------------------------------------------------------------------
(* Workspaces and memberships.                                             *)

StoreCreateWorkspace(w, u) ==
    /\ ~Exists(workspaces, w) /\ Exists(users, u)
    /\ workspaces' = [workspaces EXCEPT ![w] = [st |-> "enabled"]]
    /\ Joins(w, u, Local("admin", "active"))
    /\ UNCHANGED <<accountVars, grantVars, directoryVars>>

\* The whole record is written, with the DisabledAt it carries.
StoreUpdateWorkspace(w, row) ==
    /\ Exists(workspaces, w)
    /\ workspaces' = [workspaces EXCEPT ![w] = row]
    /\ UNCHANGED <<accountVars, memberships, grantVars, directoryVars>>

\* Disabling revokes the tokens bound to the workspace of whoever has a
\* membership row in it.
StoreSetWorkspaceDisabled(w, st) ==
    LET rows == {u \in Users : memberships[w][u] # Absent} IN
    /\ Exists(workspaces, w)
    /\ workspaces' = [workspaces EXCEPT ![w].st = st]
    /\ pats' = IF st = "disabled" THEN RevokedFor(rows, {w}) ELSE pats
    /\ UNCHANGED <<accountVars, memberships, admins, invitations,
                   directoryVars>>

\* Replacing u's membership by row leaves an active admin: more than one is
\* counted when u is one and row is not.
SparesAdmin(w, u, row) ==
    ActiveAdmin(w, u) /\ ~(row.st = "active" /\ row.role = "admin") =>
        ActiveAdmins(w) \ {u} # {}

StoreUpsertMembership(w, u, row) ==
    /\ Exists(workspaces, w) /\ Exists(users, u)
    /\ SparesAdmin(w, u, row)
    /\ Joins(w, u, row)
    /\ pats' = IF row.st # "active" THEN RevokedFor({u}, {w}) ELSE pats
    /\ UNCHANGED <<accountVars, workspaces, admins, invitations,
                   directoryVars>>

StoreRemoveMembership(w, u) ==
    /\ memberships[w][u] # Absent
    /\ ActiveAdmin(w, u) => ActiveAdmins(w) \ {u} # {}
    /\ Joins(w, u, Absent)
    /\ pats' = RevokedFor({u}, {w})
    /\ UNCHANGED <<accountVars, workspaces, admins, invitations,
                   directoryVars>>

-----------------------------------------------------------------------------
(* Instance roles: a root makes way only for another root, enabled or not. *)

\* Bug: the last root is looked for when the role is withdrawn, not when it
\* is changed.
StoreSetInstanceRoleFreely(u, role) ==
    /\ Exists(users, u)
    /\ admins' = [admins EXCEPT ![u] = role]
    /\ UNCHANGED <<accountVars, tenantVars, invitations, pats, directoryVars>>

StoreSetInstanceRole(u, role) ==
    /\ Exists(users, u)
    /\ u \in Roots /\ role # "root" => Roots \ {u} # {}
    /\ admins' = [admins EXCEPT ![u] = role]
    /\ UNCHANGED <<accountVars, tenantVars, invitations, pats, directoryVars>>

StoreRemoveInstanceRole(u) ==
    /\ admins[u] # None
    /\ u \in Roots => Roots \ {u} # {}
    /\ admins' = [admins EXCEPT ![u] = None]
    /\ UNCHANGED <<accountVars, tenantVars, invitations, pats, directoryVars>>

-----------------------------------------------------------------------------
(* Invitations.                                                            *)

Pending(w, a) == \E i \in InvitationIDs :
    invitations[i].st = "pending" /\ invitations[i].ws = w
    /\ invitations[i].addr = a

StoreCreateWorkspaceInvitation(i, w, a, role) ==
    /\ Exists(workspaces, w) /\ ~Exists(invitations, i) /\ ~Pending(w, a)
    /\ invitations' = [invitations EXCEPT ![i] =
                         [st |-> "pending", ws |-> w, addr |-> a,
                          role |-> role, user |-> None]]
    /\ UNCHANGED <<accountVars, tenantVars, admins, pats, directoryVars>>

Accepted(i, u) == invitations' =
    [invitations EXCEPT ![i].st = "accepted", ![i].user = u]

\* Whatever membership the user has by now is replaced.
StoreAcceptWorkspaceInvitation(i, u) ==
    /\ invitations[i].st = "pending" /\ Exists(users, u)
    /\ Accepted(i, u)
    /\ Joins(invitations[i].ws, u, Local(invitations[i].role, "active"))
    /\ UNCHANGED <<accountVars, workspaces, admins, pats, directoryVars>>

StoreRegisterInvitedUser(i, u, e) ==
    /\ invitations[i].st = "pending"
    /\ Accepted(i, u)
    /\ NewAccount(u, e, invitations[i].addr, "verified", TRUE)
    /\ Joins(invitations[i].ws, u, Local(invitations[i].role, "active"))
    /\ UNCHANGED <<workspaces, admins, pats, directoryVars>>

StoreRevokeWorkspaceInvitation(w, i) ==
    /\ invitations[i].st = "pending" /\ invitations[i].ws = w
    /\ invitations' = [invitations EXCEPT ![i].st = "revoked"]
    /\ UNCHANGED <<accountVars, tenantVars, admins, pats, directoryVars>>

-----------------------------------------------------------------------------
(* Personal access tokens.                                                 *)

StoreCreatePAT(p, u, w) ==
    /\ ~Exists(pats, p) /\ Exists(users, u)
    /\ pats' = [pats EXCEPT ![p] = [st |-> "live", user |-> u, ws |-> w]]
    /\ UNCHANGED <<accountVars, tenantVars, admins, invitations,
                   directoryVars>>

\* The use is noted on the stored record, revoked or not; row is what the
\* call validated.
StoreTouchPAT(p, row) ==
    /\ Exists(pats, p)
    /\ UNCHANGED storeVars

StoreRevokePAT(p, u) ==
    /\ Exists(pats, p) /\ pats[p].user = u
    /\ pats' = [pats EXCEPT ![p].st = "revoked"]
    /\ UNCHANGED <<accountVars, tenantVars, admins, invitations,
                   directoryVars>>
=============================================================================
