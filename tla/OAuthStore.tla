----------------------------- MODULE OAuthStore -----------------------------
(***************************************************************************)
(* The OAuth tables of one issuer and the store's transactions on them:    *)
(* the issuer's policy, protected resources, clients, initial access       *)
(* tokens, grants with their authorization codes, access and refresh       *)
(* tokens, and the tokens of the client_credentials grant.                 *)
(*                                                                         *)
(* As in AccountStore every operator is one transaction with the guard     *)
(* the store evaluates under its lock, and the audit event it commits with *)
(* is left to StoreCommit.  A row of another issuer never meets these: the *)
(* Manager resolves client and resource under the issuer of the request.   *)
(*                                                                         *)
(* A grant and its code are created together and share an identifier.  A   *)
(* refresh-token family is named after its first token.  What a token row  *)
(* copies from its grant (client, user, workspace, resource) never changes *)
(* and is read from the grant.  RevokedAt hides UsedAt and ExpiresAt in a  *)
(* row's status, as it does in every check of the code.                    *)
(*                                                                         *)
(* A client's metadata is everything oauthClientMetadataHash digests: two  *)
(* hashes are equal exactly when the metadata is.                          *)
(***************************************************************************)
EXTENDS Naturals, FiniteSets

CONSTANTS
    Users,          \* accounts
    Resources,      \* protected resources, by URI
    ClientIDs,      \* client records
    CIMDs,          \* those whose client_id is a metadata document URL
    InitialIDs,     \* initial access tokens for protected registration
    GrantIDs,       \* grants, each with its authorization code
    AccessIDs,      \* access tokens
    RefreshIDs,     \* refresh tokens
    MachineIDs,     \* access tokens of the client_credentials grant
    Scopes,         \* scopes of the resources, and the reserved ones
    Reserved,       \* the reserved ones: they carry no permission
    OfflineAccess,  \* offline_access
    OpenID,         \* openid
    Metadata,       \* client metadata that registration accepts
    Policies,       \* issuer policies that normalization accepts
    None            \* no initial access token, no successor, no metadata yet

Modes == {"disabled", "protected", "open"}

ASSUME CIMDAssumption == CIMDs \subseteq ClientIDs
ASSUME ScopeAssumption ==
    Reserved \subseteq Scopes /\ {OfflineAccess, OpenID} \subseteq Reserved
ASSUME NoneAssumption == None \notin InitialIDs \cup RefreshIDs \cup Metadata

\* newOAuthClient: auth is the token endpoint method, code and refresh the
\* registered grant types, scopes the ceiling (empty: none), machine the
\* resource allowlist of client_credentials, key the inline JWKS.
Registrable(m) ==
    /\ m \in [auth: {"none", "secret", "key"}, code: BOOLEAN, refresh: BOOLEAN,
              scopes: SUBSET Scopes, machine: SUBSET Resources, key: Nat]
    /\ m.code \/ m.machine # {}
    /\ m.machine # {} => m.scopes # {} /\ m.auth # "none"

\* normalizeOAuthIssuerPolicy: a registration limit belongs to open mode.
NormalPolicy(p) ==
    /\ p \in [cimd: BOOLEAN, dcr: Modes, limit: Nat]
    /\ p.dcr = "open" <=> p.limit > 0

ASSUME MetadataAssumption == \A m \in Metadata : Registrable(m)
ASSUME PolicyAssumption == \A p \in Policies : NormalPolicy(p)

VARIABLES
    issuer,     \* OAuthIssuer
    resources,  \* OAuthProtectedResource
    clients,    \* OAuthClient
    initials,   \* OAuthInitialAccessToken
    grants,     \* OAuthGrant
    codes,      \* OAuthAuthorizationCode of each grant
    access,     \* OAuthAccessToken
    refresh,    \* OAuthRefreshToken
    machines    \* OAuthClientAccessToken

delegated == <<grants, codes, access, refresh>>
registry == <<issuer, resources, clients, initials, machines>>
storeVars == <<registry, delegated>>

Absent == [st |-> "absent"]
Switch == {"enabled", "disabled"}

Issuer == [st: Switch, policy: Policies]
Resource == [st: Switch]

\* stale: MetadataExpiresAt has passed.  History: via is the initial access
\* token the registration used, burnt counts the secrets replaced while the
\* client was disabled.
Client == [st: Switch, source: {"pre", "dcr", "cimd"}, meta: Metadata,
           secret: Nat, stale: BOOLEAN, via: InitialIDs \cup {None},
           burnt: Nat]

Initial == [st: {"open", "lapsed", "revoked"}, max: Nat, count: Nat]
Grant == [st: {"live", "revoked"}, client: ClientIDs, user: Users,
          resource: Resources, scopes: SUBSET Scopes, meta: Metadata]
Code == [st: {"open", "lapsed", "used"}]

\* History: secret is the client secret presented when the token was minted.
Access == [st: {"live", "lapsed", "revoked"}, grant: GrantIDs,
           scopes: SUBSET Scopes, secret: Nat]
Refresh == [st: {"open", "lapsed", "used", "revoked"}, grant: GrantIDs,
            family: RefreshIDs, scopes: SUBSET Scopes,
            next: RefreshIDs \cup {None}]
Machine == [st: {"live", "lapsed", "revoked"}, client: ClientIDs,
            resource: Resources]

StoreTypeOK ==
    /\ issuer \in Issuer \cup {Absent}
    /\ resources \in [Resources -> Resource \cup {Absent}]
    /\ clients \in [ClientIDs -> Client \cup {Absent}]
    /\ initials \in [InitialIDs -> Initial \cup {Absent}]
    /\ grants \in [GrantIDs -> Grant \cup {Absent}]
    /\ codes \in [GrantIDs -> Code \cup {Absent}]
    /\ access \in [AccessIDs -> Access \cup {Absent}]
    /\ refresh \in [RefreshIDs -> Refresh \cup {Absent}]
    /\ machines \in [MachineIDs -> Machine \cup {Absent}]

StoreInit ==
    /\ issuer = Absent
    /\ resources = [x \in Resources |-> Absent]
    /\ clients = [c \in ClientIDs |-> Absent]
    /\ initials = [i \in InitialIDs |-> Absent]
    /\ grants = [g \in GrantIDs |-> Absent]
    /\ codes = [g \in GrantIDs |-> Absent]
    /\ access = [a \in AccessIDs |-> Absent]
    /\ refresh = [t \in RefreshIDs |-> Absent]
    /\ machines = [k \in MachineIDs |-> Absent]

-----------------------------------------------------------------------------
(* The issuer and its resources.                                           *)

StoreCreateOAuthIssuer(policy) ==
    /\ issuer = Absent
    /\ issuer' = [st |-> "enabled", policy |-> policy]
    /\ UNCHANGED <<resources, clients, initials, machines, delegated>>

\* The whole row is written, DisabledAt included.
StoreUpdateOAuthIssuer(row) ==
    /\ issuer # Absent
    /\ issuer' = row
    /\ UNCHANGED <<resources, clients, initials, machines, delegated>>

StoreCreateOAuthProtectedResource(x) ==
    /\ issuer # Absent
    /\ resources[x] = Absent
    /\ resources' = [resources EXCEPT ![x] = [st |-> "enabled"]]
    /\ UNCHANGED <<issuer, clients, initials, machines, delegated>>

\* Every grant in dead is revoked, with its access and refresh tokens.
revokeOAuthGrants(dead) ==
    /\ grants' = [g \in GrantIDs |->
                    IF g \in dead THEN [grants[g] EXCEPT !.st = "revoked"]
                    ELSE grants[g]]
    /\ access' = [a \in AccessIDs |->
                    IF access[a] # Absent /\ access[a].grant \in dead
                    THEN [access[a] EXCEPT !.st = "revoked"] ELSE access[a]]
    /\ refresh' = [t \in RefreshIDs |->
                    IF refresh[t] # Absent /\ refresh[t].grant \in dead
                    THEN [refresh[t] EXCEPT !.st = "revoked"] ELSE refresh[t]]
    /\ UNCHANGED codes

Granted == {g \in GrantIDs : grants[g] # Absent}

\* Disabling cascades, enabling does not.
StoreSetOAuthIssuerDisabled(disabled) ==
    /\ issuer # Absent
    /\ issuer' = [issuer EXCEPT !.st = IF disabled THEN "disabled" ELSE "enabled"]
    /\ revokeOAuthGrants(IF disabled THEN Granted ELSE {})
    /\ UNCHANGED <<resources, clients, initials, machines>>

StoreSetOAuthProtectedResourceDisabled(x, disabled) ==
    /\ resources[x] # Absent
    /\ resources' = [resources EXCEPT
                       ![x].st = IF disabled THEN "disabled" ELSE "enabled"]
    /\ revokeOAuthGrants({g \in Granted : disabled /\ grants[g].resource = x})
    /\ UNCHANGED <<issuer, clients, initials, machines>>

-----------------------------------------------------------------------------
(* Clients and initial access tokens.                                      *)

\* Clients that count against DCROpenRegistrationLimit.
ActiveDCR == {c \in ClientIDs : clients[c] # Absent /\ clients[c].source = "dcr"
                                /\ clients[c].st = "enabled"}

Usable(i) == initials[i].st = "open" /\ initials[i].count < initials[i].max

NewClient(source, meta, via) ==
    [st |-> "enabled", source |-> source, meta |-> meta, secret |-> 0,
     stale |-> FALSE, via |-> via, burnt |-> 0]

\* Bug: the token's registrations are only counted by the caller's read.
WithinQuotaUncounted(via) == via # None => initials[via].st = "open"

WithinQuota(via) == via # None => Usable(via)

StoreCreateOAuthClient(c, source, meta, via) ==
    /\ issuer # Absent
    /\ clients[c] = Absent
    /\ source = "dcr" /\ issuer.policy.dcr = "open"
       => Cardinality(ActiveDCR) < issuer.policy.limit
    /\ WithinQuota(via)
    /\ clients' = [clients EXCEPT ![c] = NewClient(source, meta, via)]
    /\ initials' = IF via = None THEN initials
                   ELSE [initials EXCEPT ![via].count = @ + 1]
    /\ UNCHANGED <<issuer, resources, machines, delegated>>

\* found: the record the caller read; a caller that found none draws a new
\* identifier, which conflicts with a record written since.
StoreUpsertOAuthCIMDClient(c, meta, found) ==
    /\ issuer # Absent
    /\ clients[c] # Absent => found
    /\ clients' = [clients EXCEPT ![c] = NewClient("cimd", meta, None)]
    /\ UNCHANGED <<issuer, resources, initials, machines, delegated>>

\* Bug: the cascade over the client's grants is missing.
NoneEnd(c, disabled) == {}

\* The grants that disabling client c ends.
EndedWith(c, disabled) == {g \in Granted : disabled /\ grants[g].client = c}

StoreSetOAuthClientDisabled(c, disabled) ==
    /\ clients[c] # Absent
    /\ clients' = [clients EXCEPT
                     ![c].st = IF disabled THEN "disabled" ELSE "enabled"]
    /\ revokeOAuthGrants(EndedWith(c, disabled))
    /\ UNCHANGED <<issuer, resources, initials, machines>>

\* RotateOAuthClientCredentials with a secret digest.
StoreRotateSecret(c) ==
    /\ clients[c] # Absent
    /\ clients' = [clients EXCEPT
                     ![c].secret = @ + 1,
                     ![c].burnt = IF clients[c].st = "disabled"
                                  THEN clients[c].secret + 1 ELSE @]
    /\ UNCHANGED <<issuer, resources, initials, machines, delegated>>

\* RotateOAuthClientCredentials with a JWKS and its metadata hash.
StoreReplaceJWKS(c, meta) ==
    /\ clients[c] # Absent
    /\ clients' = [clients EXCEPT ![c].meta = meta]
    /\ UNCHANGED <<issuer, resources, initials, machines, delegated>>

StoreCreateOAuthInitialAccessToken(i, max) ==
    /\ issuer # Absent
    /\ initials[i] = Absent
    /\ initials' = [initials EXCEPT ![i] = [st |-> "open", max |-> max, count |-> 0]]
    /\ UNCHANGED <<issuer, resources, clients, machines, delegated>>

StoreRevokeOAuthInitialAccessToken(i) ==
    /\ initials[i] # Absent
    /\ initials' = [initials EXCEPT ![i].st = "revoked"]
    /\ UNCHANGED <<issuer, resources, clients, machines, delegated>>

-----------------------------------------------------------------------------
(* Grants, codes and the tokens minted from them.                          *)

StoreCreateOAuthGrantAndCode(g, row) ==
    /\ clients[row.client] # Absent
    /\ resources[row.resource] # Absent
    /\ grants[g] = Absent
    /\ grants' = [grants EXCEPT ![g] = row]
    /\ codes' = [codes EXCEPT ![g] = [st |-> "open"]]
    /\ UNCHANGED <<registry, access, refresh>>

StoreRevokeOAuthGrant(g) ==
    /\ grants[g] # Absent
    /\ revokeOAuthGrants({g})
    /\ UNCHANGED registry

\* revokeUserCredentialsLocked, as far as it concerns these tables.
StoreRevokeUserGrants(u) ==
    /\ revokeOAuthGrants({g \in Granted : grants[g].user = u})
    /\ UNCHANGED registry

Minted(g, scopes, secret) ==
    [st |-> "live", grant |-> g, scopes |-> scopes, secret |-> secret]

\* Bug: the family is given the grant's identifier.
FirstRefreshOfGrant(g, t, scopes) ==
    [st |-> "open", grant |-> g, family |-> g, scopes |-> scopes, next |-> None]

FirstRefresh(g, t, scopes) ==
    [st |-> "open", grant |-> g, family |-> t, scopes |-> scopes, next |-> None]

\* Bug: a used code is only refused by the caller's earlier read.
RedeemableTwice(g) == codes[g].st \in {"open", "used"}

Redeemable(g) == codes[g].st = "open"

\* The code is used and access token a, and refresh token t for an offline
\* grant, are stored.
StoreConsumeOAuthAuthorizationCode(g, a, offline, t, scopes, secret) ==
    /\ Redeemable(g)
    /\ access[a] = Absent
    /\ offline => refresh[t] = Absent
    /\ codes' = [codes EXCEPT ![g].st = "used"]
    /\ access' = [access EXCEPT ![a] = Minted(g, scopes, secret)]
    /\ refresh' = IF offline
                  THEN [refresh EXCEPT ![t] = FirstRefresh(g, t, scopes)]
                  ELSE refresh
    /\ UNCHANGED <<registry, grants>>

\* Bug: the row's UsedAt is not looked at again.
RotatableTwice(t) == refresh[t].st \in {"open", "used"}

Rotatable(t) == refresh[t].st = "open"

\* Token t is replaced by n, and access token a is stored.
StoreRotateOAuthRefreshToken(t, a, n, scopes, secret) ==
    /\ Rotatable(t)
    /\ access[a] = Absent
    /\ refresh[n] = Absent
    /\ access' = [access EXCEPT ![a] = Minted(refresh[t].grant, scopes, secret)]
    /\ refresh' = [refresh EXCEPT
                     ![t].st = "used", ![t].next = n,
                     ![n] = [st |-> "open", grant |-> refresh[t].grant,
                             family |-> refresh[t].family, scopes |-> scopes,
                             next |-> None]]
    /\ UNCHANGED <<registry, grants, codes>>

StoreRevokeOAuthAccessToken(a) ==
    /\ access[a] # Absent
    /\ access' = [access EXCEPT ![a].st = "revoked"]
    /\ UNCHANGED <<registry, grants, codes, refresh>>

Members(f) == {t \in RefreshIDs : refresh[t] # Absent /\ refresh[t].family = f}

\* Bug: the access tokens of the family live on until they expire.
NoRoots(f) == {}

\* The grants a family descends from.
Roots(f) == {refresh[t].grant : t \in Members(f)}

\* Every token of family f, and the access tokens of its grants.
StoreRevokeOAuthRefreshFamily(f) ==
    /\ Members(f) # {}
    /\ refresh' = [t \in RefreshIDs |->
                     IF t \in Members(f) THEN [refresh[t] EXCEPT !.st = "revoked"]
                     ELSE refresh[t]]
    /\ access' = [a \in AccessIDs |->
                    IF access[a] # Absent /\ access[a].grant \in Roots(f)
                    THEN [access[a] EXCEPT !.st = "revoked"] ELSE access[a]]
    /\ UNCHANGED <<registry, grants, codes>>

StoreCreateOAuthClientAccessToken(k, c, x) ==
    /\ machines[k] = Absent
    /\ machines' = [machines EXCEPT
                      ![k] = [st |-> "live", client |-> c, resource |-> x]]
    /\ UNCHANGED <<issuer, resources, clients, initials, delegated>>

StoreRevokeOAuthClientAccessToken(k) ==
    /\ machines[k] # Absent
    /\ machines' = [machines EXCEPT ![k].st = "revoked"]
    /\ UNCHANGED <<issuer, resources, clients, initials, delegated>>

-----------------------------------------------------------------------------
(* Deadlines pass.                                                         *)

CodeLapses(g) ==
    /\ codes[g].st = "open"
    /\ codes' = [codes EXCEPT ![g].st = "lapsed"]
    /\ UNCHANGED <<registry, grants, access, refresh>>

AccessLapses(a) ==
    /\ access[a].st = "live"
    /\ access' = [access EXCEPT ![a].st = "lapsed"]
    /\ UNCHANGED <<registry, grants, codes, refresh>>

RefreshLapses(t) ==
    /\ refresh[t].st = "open"
    /\ refresh' = [refresh EXCEPT ![t].st = "lapsed"]
    /\ UNCHANGED <<registry, grants, codes, access>>

MachineLapses(k) ==
    /\ machines[k].st = "live"
    /\ machines' = [machines EXCEPT ![k].st = "lapsed"]
    /\ UNCHANGED <<issuer, resources, clients, initials, delegated>>

InitialLapses(i) ==
    /\ initials[i].st = "open"
    /\ initials' = [initials EXCEPT ![i].st = "lapsed"]
    /\ UNCHANGED <<issuer, resources, clients, machines, delegated>>

MetadataLapses(c) ==
    /\ clients[c] # Absent
    /\ clients[c].source = "cimd"
    /\ ~clients[c].stale
    /\ clients' = [clients EXCEPT ![c].stale = TRUE]
    /\ UNCHANGED <<issuer, resources, initials, machines, delegated>>
=============================================================================
