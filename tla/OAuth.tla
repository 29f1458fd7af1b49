-------------------------------- MODULE OAuth --------------------------------
(***************************************************************************)
(* The Manager's authorization server: registration and administration of  *)
(* clients, the consent ceremony, the token endpoint, revocation, bearer   *)
(* validation and UserInfo, for one issuer, with any number of calls in    *)
(* flight.                                                                 *)
(*                                                                         *)
(* Every read of the store is a step of its own, and what a call read is   *)
(* used in its later steps however stale it is by then.  A check that      *)
(* fails ends the call: Refused may end any call before its commit, which  *)
(* also covers a failing store, a request the host abandons and the checks *)
(* that only ever refuse (redirect URI, PKCE, digests, assertions, AAL).   *)
(*                                                                         *)
(* A credential a caller presents was issued before the call began, since  *)
(* it is random and returned once: calls start with identifiers of rows    *)
(* that exist.                                                             *)
(***************************************************************************)
EXTENDS OAuthStore

CONSTANTS
    Requests,       \* concurrent calls
    Mixes,          \* what one behaviour is made of: the operations called
                    \* (ops), the client records used (clients), and the
                    \* metadata, policies and scopes asked for
    MaxSecret,      \* bound on secret rotations of a client
    MaxQuota        \* bound on registrations per initial access token

ASSUME MixAssumption ==
    \A m \in Mixes :
       /\ m.clients \subseteq ClientIDs
       /\ m.metadata \subseteq Metadata /\ m.policies \subseteq Policies
       /\ m.scopes \subseteq (SUBSET Scopes) \ {{}}
ASSUME BoundAssumption == MaxSecret \in Nat /\ MaxQuota \in Nat \ {0}

VARIABLES
    mix,        \* the mix of this behaviour
    standing,   \* account, workspace and membership status of each user
    consents,   \* sealed continuations the host holds
    call        \* the calls in flight

hostVars == <<mix, standing, consents>>
vars == <<storeVars, hostVars, call>>

Standing == {"permitted", "unpermitted", "disabled"}
Consent == [user: Users, client: ClientIDs, resource: Resources,
            scopes: SUBSET Scopes, meta: Metadata]
Idle == [pc |-> "idle"]

\* Calls made with a client's credentials or with one of its tokens.  arg is
\* the code (by its grant), token, resource or request presented; secret the
\* client secret presented; meta the metadata of the client record read;
\* cimd the issuer's CIMD policy as read.  History: late says that the
\* grant had ended when the call began.
TokenPCs == {"client", "fetch", "refetch", "code", "replay", "token", "family",
             "grant", "resource", "issuer", "standing", "mint", "revoke",
             "machine", "begin", "scopes", "bearer", "userinfo", "subject",
             "user", "served"}
TokenOps == {"ValidateOAuthAuthorizationRedirect", "BeginOAuthAuthorization",
             "ExchangeOAuthAuthorizationCode", "RefreshOAuthToken",
             "RevokeOAuthToken", "IssueOAuthClientCredentials",
             "AuthenticateOAuthAccessToken", "OAuthUserInfo"}
Asked == [user: Users, resource: Resources, scopes: SUBSET Scopes]
Args == GrantIDs \cup RefreshIDs \cup AccessIDs \cup MachineIDs
        \cup Resources \cup Asked \cup {None}
TokenCall == [pc: TokenPCs, op: TokenOps, client: ClientIDs, secret: Nat,
              arg: Args, meta: Metadata \cup {None}, cimd: BOOLEAN,
              late: BOOLEAN]
ConsentCall == [pc: {"approve", "approve.resource", "approve.issuer",
                     "approve.scopes", "approve.commit"}, consent: Consent]
RegisterCall == [pc: {"register.token", "register.commit"}, meta: Metadata,
                 via: InitialIDs \cup {None}]
UpdateCall == [pc: {"update"}, row: Issuer]
InitialCall == [pc: {"initial"}, max: Nat]

\* The tables, the host's continuations and the calls keep their types.
TypeOK ==
    /\ StoreTypeOK
    /\ standing \in [Users -> Standing]
    /\ consents \subseteq Consent
    /\ call \in [Requests -> {Idle} \cup TokenCall \cup ConsentCall
                             \cup RegisterCall \cup UpdateCall \cup InitialCall]

Init ==
    /\ StoreInit
    /\ mix \in Mixes
    /\ standing = [u \in Users |-> "permitted"]
    /\ consents = {}
    /\ call = [r \in Requests |-> Idle]

-----------------------------------------------------------------------------
(* Calls.                                                                  *)

\* newID: an identifier of ids nobody has drawn.  Identifiers are told apart
\* by nothing else, so it does not matter which.
Fresh(ids, table) ==
    LET free == {id \in ids : table[id] = Absent} IN
    IF free = {} THEN {} ELSE {CHOOSE id \in free : TRUE}

Starts(r, op) == call[r].pc = "idle" /\ op \in mix.ops
At(r, pc) == call[r].pc = pc
Goto(r, pc) == call' = [call EXCEPT ![r].pc = pc]
Reads == UNCHANGED <<storeVars, hostVars>>
Returns(r) == call' = [call EXCEPT ![r] = Idle]
Ends(r) == Returns(r) /\ UNCHANGED hostVars

\* A check failed, the store failed or the caller went away.
Refused(r) ==
    /\ call[r].pc # "idle"
    /\ Returns(r)
    /\ UNCHANGED <<storeVars, hostVars>>

IssuerUp == issuer # Absent /\ issuer.st = "enabled"
ClientUp(c) == clients[c] # Absent /\ clients[c].st = "enabled"
ResourceUp(x) == resources[x] # Absent /\ resources[x].st = "enabled"

\* authorizedOAuthScopes and AuthorizePermission: the reserved scopes need
\* no permission in the workspace.
Permitted(u, scopes) == scopes \subseteq Reserved \/ standing[u] = "permitted"

\* A grant is over once it, or the refresh-token family it led to, is
\* revoked.
Over(g) ==
    \/ grants[g].st = "revoked"
    \/ \E t \in RefreshIDs : refresh[t].st = "revoked" /\ refresh[t].grant = g

\* The grant behind the credential a call presents.
GrantOf(k) == IF k.op = "ExchangeOAuthAuthorizationCode" THEN k.arg
              ELSE IF k.op = "RefreshOAuthToken" THEN refresh[k.arg].grant
              ELSE access[k.arg].grant

-----------------------------------------------------------------------------
(* authenticateOAuthClient and resolveOAuthClient.                         *)

\* The operations that resolve a client without authenticating it.
Anonymous == {"BeginOAuthAuthorization", "ValidateOAuthAuthorizationRedirect"}

\* The issuer is read; the client and its credential come with the request.
Presents(r, op, args) ==
    /\ Starts(r, op)
    /\ IssuerUp
    /\ \E c \in mix.clients, arg \in args :
       \E s \in IF clients[c] = Absent \/ op \in Anonymous THEN {0}
               ELSE 0..clients[c].secret :
          call' = [call EXCEPT ![r] =
                     [pc |-> "client", op |-> op, client |-> c, secret |-> s,
                      arg |-> arg, meta |-> None, cimd |-> issuer.policy.cimd,
                      late |-> FALSE]]
    /\ Reads

\* Where an operation goes on once its client is resolved.
Entry(op) ==
    CASE op = "ExchangeOAuthAuthorizationCode" -> "code"
      [] op = "RefreshOAuthToken" -> "token"
      [] op = "RevokeOAuthToken" -> "revoke"
      [] op = "IssueOAuthClientCredentials" -> "machine"
      [] op = "BeginOAuthAuthorization" -> "begin"

Resolved(r, meta) ==
    LET k == call[r] IN
    call' = [call EXCEPT
               ![r] = IF k.op = "ValidateOAuthAuthorizationRedirect" THEN Idle
                      ELSE [k EXCEPT !.pc = Entry(k.op), !.meta = meta]]

Stale(c) == clients[c].source = "cimd" /\ clients[c].stale

\* Bug: the secret digest is not compared.
ReadsClientUnproven(r) ==
    LET k == call[r] IN
    /\ At(r, "client")
    /\ ClientUp(k.client) /\ ~Stale(k.client)
    /\ Resolved(r, clients[k.client].meta)
    /\ Reads

\* A registered client, or cached metadata that has not expired.
ReadsClient(r) ==
    LET k == call[r] IN
    /\ At(r, "client")
    /\ ClientUp(k.client) /\ ~Stale(k.client)
    /\ k.op \in Anonymous \/ k.secret = clients[k.client].secret
    /\ Resolved(r, clients[k.client].meta)
    /\ Reads

\* No record, or expired metadata: the document is fetched, if the policy
\* the call read allows it.
NeedsMetadata(r) ==
    LET k == call[r] IN
    /\ At(r, "client")
    /\ k.client \in CIMDs /\ k.cimd
    /\ \/ clients[k.client] = Absent /\ Goto(r, "fetch")
       \/ clients[k.client] # Absent /\ Stale(k.client) /\ Goto(r, "refetch")
    /\ Reads

\* The fetched document replaces the record; client secrets and
\* client_credentials are refused for it.
ResolvesMetadata(r) ==
    LET k == call[r] IN
    /\ At(r, "fetch") \/ At(r, "refetch")
    /\ \E meta \in mix.metadata :
          /\ meta.auth # "secret" /\ meta.machine = {}
          /\ StoreUpsertOAuthCIMDClient(k.client, meta, At(r, "refetch"))
          /\ Resolved(r, meta)
    /\ UNCHANGED hostVars

ValidateOAuthAuthorizationRedirect(r) ==
    Presents(r, "ValidateOAuthAuthorizationRedirect", {None})

-----------------------------------------------------------------------------
(* The consent ceremony.                                                   *)

BeginOAuthAuthorization(r) ==
    Presents(r, "BeginOAuthAuthorization",
             [user: Users, resource: Resources, scopes: mix.scopes])

\* The client's grant types and scope ceiling, then the resource.
BeginReadsResource(r) ==
    LET k == call[r] IN
    /\ At(r, "begin")
    /\ k.meta.code
    /\ k.meta.scopes # {} => k.arg.scopes \subseteq k.meta.scopes
    /\ ResourceUp(k.arg.resource)
    /\ Goto(r, "scopes")
    /\ Reads

\* The sealed continuation is handed to the host; nothing is stored.
BeginSealsContinuation(r) ==
    LET k == call[r] IN
    /\ At(r, "scopes")
    /\ Permitted(k.arg.user, k.arg.scopes)
    /\ consents' = consents \cup
          {[user |-> k.arg.user, client |-> k.client, resource |-> k.arg.resource,
            scopes |-> k.arg.scopes, meta |-> k.meta]}
    /\ Returns(r)
    /\ UNCHANGED <<storeVars, mix, standing>>

\* A continuation may be completed again until it expires.
CompleteOAuthAuthorization(r) ==
    /\ Starts(r, "CompleteOAuthAuthorization")
    /\ \E k \in consents :
          call' = [call EXCEPT ![r] = [pc |-> "approve", consent |-> k]]
    /\ Reads

CompleteReadsClient(r) ==
    LET k == call[r].consent IN
    /\ At(r, "approve")
    /\ ClientUp(k.client)
    /\ clients[k.client].meta = k.meta
    /\ Goto(r, "approve.resource")
    /\ Reads

CompleteReadsResource(r) ==
    /\ At(r, "approve.resource")
    /\ ResourceUp(call[r].consent.resource)
    /\ Goto(r, "approve.issuer")
    /\ Reads

CompleteReadsIssuer(r) ==
    /\ At(r, "approve.issuer")
    /\ IssuerUp
    /\ Goto(r, "approve.scopes")
    /\ Reads

CompleteReadsStanding(r) ==
    LET k == call[r].consent IN
    /\ At(r, "approve.scopes")
    /\ Permitted(k.user, k.scopes)
    /\ Goto(r, "approve.commit")
    /\ Reads

\* Approval; a denial stores an audit event only and is a Refused here.
CompleteCommits(r) ==
    LET k == call[r].consent IN
    /\ At(r, "approve.commit")
    /\ \E g \in GrantIDs :
          StoreCreateOAuthGrantAndCode(g,
             [st |-> "live", client |-> k.client, user |-> k.user,
              resource |-> k.resource, scopes |-> k.scopes, meta |-> k.meta])
    /\ Ends(r)

-----------------------------------------------------------------------------
(* activeOAuthGrant, shared by the exchange, the refresh and bearer        *)
(* validation; the client record was read before.                          *)

\* Bug: RevokedAt is not looked at.
GrantReadUnchecked(r) ==
    LET k == call[r]  g == GrantOf(k) IN
    /\ At(r, "grant")
    /\ grants[g].client = k.client
    /\ grants[g].meta = k.meta
    /\ Goto(r, "resource")
    /\ Reads

GrantRead(r) ==
    LET k == call[r]  g == GrantOf(k) IN
    /\ At(r, "grant")
    /\ grants[g].st = "live"
    /\ grants[g].client = k.client
    /\ grants[g].meta = k.meta
    /\ Goto(r, "resource")
    /\ Reads

GrantReadsResource(r) ==
    /\ At(r, "resource")
    /\ ResourceUp(grants[GrantOf(call[r])].resource)
    /\ Goto(r, "issuer")
    /\ Reads

GrantReadsIssuer(r) ==
    /\ At(r, "issuer")
    /\ IssuerUp
    /\ Goto(r, "standing")
    /\ Reads

GrantReadsStanding(r) ==
    LET k == call[r]  g == grants[GrantOf(k)] IN
    /\ At(r, "standing")
    /\ standing[g.user] # "disabled"
    /\ Permitted(g.user, g.scopes)
    /\ Goto(r, IF k.op = "AuthenticateOAuthAccessToken" THEN "served" ELSE "mint")
    /\ Reads

-----------------------------------------------------------------------------
(* The token endpoint.                                                     *)

ExchangeOAuthAuthorizationCode(r) ==
    Presents(r, "ExchangeOAuthAuthorizationCode", Granted)

\* An authentic code that was redeemed before is a replay.
ExchangeReadsCode(r) ==
    LET k == call[r] IN
    /\ At(r, "code")
    /\ grants[k.arg].client = k.client
    /\ \/ codes[k.arg].st = "used" /\ Goto(r, "replay")
       \/ codes[k.arg].st = "open" /\ Goto(r, "grant")
    /\ Reads

\* The grant is read again first, which can only skip a second cascade.
revokeOAuthGrantForCodeReplay(r) ==
    /\ At(r, "replay")
    /\ StoreRevokeOAuthGrant(call[r].arg)
    /\ Ends(r)

\* The code is redeemed; a conflict, for a code redeemed or expired in the
\* meantime, is a Refused.
ExchangeCommits(r) ==
    LET k == call[r]  g == grants[k.arg]
        offline == OfflineAccess \in g.scopes /\ k.meta.refresh IN
    /\ At(r, "mint")
    /\ k.op = "ExchangeOAuthAuthorizationCode"
    /\ \E a \in Fresh(AccessIDs, access),
          t \in IF offline THEN Fresh(RefreshIDs, refresh) ELSE {None} :
          StoreConsumeOAuthAuthorizationCode(k.arg, a, offline, t, g.scopes,
                                             k.secret)
    /\ Ends(r)

RefreshOAuthToken(r) ==
    Presents(r, "RefreshOAuthToken",
             {t \in RefreshIDs : refresh[t] # Absent})

RefreshReadsToken(r) ==
    LET k == call[r]  t == refresh[k.arg] IN
    /\ At(r, "token")
    /\ grants[t.grant].client = k.client
    /\ \/ t.st \in {"used", "revoked"} /\ Goto(r, "family")
       \/ t.st = "open" /\ Goto(r, "grant")
    /\ Reads

\* Bug: narrowing is checked against the grant.
NarrowedFromGrant(t) == {grants[refresh[t].grant].scopes} \cup
    {s \in mix.scopes : s \subseteq grants[refresh[t].grant].scopes}

\* The scopes a refresh may ask for: the token's, or fewer.
Narrowed(t) == {refresh[t].scopes} \cup
               {s \in mix.scopes : s \subseteq refresh[t].scopes}

\* The pair is rotated, or the conflict is taken for reuse.
RefreshCommits(r) ==
    LET k == call[r] IN
    /\ At(r, "mint")
    /\ k.op = "RefreshOAuthToken"
    /\ \E a \in Fresh(AccessIDs, access), n \in Fresh(RefreshIDs, refresh),
          s \in Narrowed(k.arg) :
          StoreRotateOAuthRefreshToken(k.arg, a, n, s, k.secret)
    /\ Ends(r)

RefreshConflicts(r) ==
    /\ At(r, "mint")
    /\ call[r].op = "RefreshOAuthToken"
    /\ ~Rotatable(call[r].arg)
    /\ Goto(r, "family")
    /\ Reads

revokeOAuthRefreshFamily(r) ==
    /\ At(r, "family")
    /\ StoreRevokeOAuthRefreshFamily(refresh[call[r].arg].family)
    /\ Ends(r)

\* The resource's workspace and the scopes only refuse.
IssueOAuthClientCredentials(r) ==
    Presents(r, "IssueOAuthClientCredentials", Resources)

\* Bug: the allowlist is only looked at when the client is registered.
MachineUnlisted(r) ==
    /\ At(r, "machine")
    /\ ResourceUp(call[r].arg)
    /\ Goto(r, "mint")
    /\ Reads

\* Source, grant type and allowlist of a registered client never change; the
\* resource is read, and the token is stored by MachineCommits.
MachineReadsResource(r) ==
    LET k == call[r] IN
    /\ At(r, "machine")
    /\ clients[k.client].source = "pre"
    /\ k.arg \in k.meta.machine
    /\ ResourceUp(k.arg)
    /\ Goto(r, "mint")
    /\ Reads

MachineCommits(r) ==
    LET k == call[r] IN
    /\ At(r, "mint")
    /\ k.op = "IssueOAuthClientCredentials"
    /\ \E m \in MachineIDs : StoreCreateOAuthClientAccessToken(m, k.client, k.arg)
    /\ Ends(r)

-----------------------------------------------------------------------------
(* RFC 7009 revocation, bearer validation and UserInfo.                    *)

RevokeOAuthToken(r) ==
    Presents(r, "RevokeOAuthToken",
             {a \in AccessIDs : access[a] # Absent}
             \cup {t \in RefreshIDs : refresh[t] # Absent}
             \cup {m \in MachineIDs : machines[m] # Absent})

\* A token of another client is ignored.  The row's owner never changes, so
\* its read and the commit are one step.
RevokesToken(r) ==
    LET k == call[r] IN
    /\ At(r, "revoke")
    /\ \/ /\ k.arg \in AccessIDs
          /\ grants[access[k.arg].grant].client = k.client
          /\ StoreRevokeOAuthAccessToken(k.arg)
       \/ /\ k.arg \in RefreshIDs
          /\ grants[refresh[k.arg].grant].client = k.client
          /\ StoreRevokeOAuthRefreshFamily(refresh[k.arg].family)
       \/ /\ k.arg \in MachineIDs
          /\ machines[k.arg].client = k.client
          /\ StoreRevokeOAuthClientAccessToken(k.arg)
    /\ Ends(r)

\* A bearer call on access token a, whose row is read at pc.
Bears(r, op, a, pc) ==
    call' = [call EXCEPT ![r] =
               [pc |-> pc, op |-> op, client |-> grants[access[a].grant].client,
                secret |-> 0, arg |-> a, meta |-> None, cimd |-> FALSE,
                late |-> Over(access[a].grant)]]

AuthenticateOAuthAccessToken(r) ==
    /\ Starts(r, "AuthenticateOAuthAccessToken")
    /\ \E a \in AccessIDs : /\ access[a].st = "live"
                            /\ Bears(r, "AuthenticateOAuthAccessToken", a, "bearer")
    /\ Reads

\* The disabled check is activeOAuthGrant's first.
BearerReadsClient(r) ==
    LET c == call[r].client IN
    /\ At(r, "bearer")
    /\ ClientUp(c)
    /\ call' = [call EXCEPT ![r].pc = "grant", ![r].meta = clients[c].meta]
    /\ Reads

\* UserInfo looks neither at the client's nor at the resource's switch:
\* disabling either revoked the grant.
OAuthUserInfo(r) ==
    /\ Starts(r, "OAuthUserInfo")
    /\ IssuerUp
    /\ \E a \in AccessIDs : /\ access[a] # Absent
                            /\ Bears(r, "OAuthUserInfo", a, "userinfo")
    /\ Reads

UserInfoReadsToken(r) ==
    LET a == access[call[r].arg] IN
    /\ At(r, "userinfo")
    /\ a.st = "live"
    /\ OpenID \in a.scopes
    /\ Goto(r, "subject")
    /\ Reads

UserInfoReadsGrant(r) ==
    /\ At(r, "subject")
    /\ grants[GrantOf(call[r])].st = "live"
    /\ Goto(r, "user")
    /\ Reads

UserInfoReadsUser(r) ==
    /\ At(r, "user")
    /\ standing[grants[GrantOf(call[r])].user] # "disabled"
    /\ Goto(r, "served")
    /\ Reads

-----------------------------------------------------------------------------
(* Registration and administration.  An administrator's reads of a row     *)
(* only skip a commit that would change nothing, unless said otherwise.    *)

CreateOAuthIssuer ==
    /\ "CreateOAuthIssuer" \in mix.ops
    /\ \E p \in mix.policies : StoreCreateOAuthIssuer(p)
    /\ UNCHANGED <<hostVars, call>>

\* The row read is written back with the new policy.
UpdateOAuthIssuer(r) ==
    /\ Starts(r, "UpdateOAuthIssuer")
    /\ issuer # Absent
    /\ \E p \in mix.policies :
          call' = [call EXCEPT ![r] =
                     [pc |-> "update", row |-> [issuer EXCEPT !.policy = p]]]
    /\ Reads

UpdateCommits(r) ==
    /\ At(r, "update")
    /\ StoreUpdateOAuthIssuer(call[r].row)
    /\ Ends(r)

\* The issuer was enabled when the call read it and may be disabled by now.
CreateOAuthProtectedResource(x) ==
    /\ "CreateOAuthProtectedResource" \in mix.ops
    /\ StoreCreateOAuthProtectedResource(x)
    /\ UNCHANGED <<hostVars, call>>

PreRegisterOAuthClient(c) ==
    /\ "PreRegisterOAuthClient" \in mix.ops
    /\ c \in mix.clients
    /\ c \notin CIMDs
    /\ \E meta \in mix.metadata : StoreCreateOAuthClient(c, "pre", meta, None)
    /\ UNCHANGED <<hostVars, call>>

CreateOAuthInitialAccessToken(r) ==
    /\ Starts(r, "CreateOAuthInitialAccessToken")
    /\ IssuerUp
    /\ issuer.policy.dcr = "protected"
    /\ \E max \in 1..MaxQuota :
          call' = [call EXCEPT ![r] = [pc |-> "initial", max |-> max]]
    /\ Reads

InitialCommits(r) ==
    /\ At(r, "initial")
    /\ \E i \in InitialIDs : StoreCreateOAuthInitialAccessToken(i, call[r].max)
    /\ Ends(r)

RevokeOAuthInitialAccessToken(i) ==
    /\ "RevokeOAuthInitialAccessToken" \in mix.ops
    /\ StoreRevokeOAuthInitialAccessToken(i)
    /\ UNCHANGED <<hostVars, call>>

\* newOAuthClient: secrets need protected mode, client_credentials an
\* administrator.
RegisterOAuthClient(r) ==
    /\ Starts(r, "RegisterOAuthClient")
    /\ IssuerUp
    /\ \E meta \in mix.metadata :
          /\ meta.machine = {}
          /\ \/ /\ issuer.policy.dcr = "protected"
                /\ \E i \in InitialIDs :
                      /\ initials[i] # Absent
                      /\ call' = [call EXCEPT ![r] =
                                    [pc |-> "register.token", meta |-> meta,
                                     via |-> i]]
             \/ /\ issuer.policy.dcr = "open"
                /\ meta.auth # "secret"
                /\ call' = [call EXCEPT ![r] =
                              [pc |-> "register.commit", meta |-> meta,
                               via |-> None]]
    /\ Reads

RegisterReadsToken(r) ==
    /\ At(r, "register.token")
    /\ Usable(call[r].via)
    /\ Goto(r, "register.commit")
    /\ Reads

RegisterCommits(r) ==
    LET k == call[r] IN
    /\ At(r, "register.commit")
    /\ \E c \in Fresh(mix.clients \ CIMDs, clients) :
          StoreCreateOAuthClient(c, "dcr", k.meta, k.via)
    /\ Ends(r)

\* DisableOAuthIssuer and EnableOAuthIssuer.
SetOAuthIssuerDisabled(disabled) ==
    /\ "SetOAuthIssuerDisabled" \in mix.ops
    /\ StoreSetOAuthIssuerDisabled(disabled)
    /\ UNCHANGED <<hostVars, call>>

SetOAuthProtectedResourceDisabled(x, disabled) ==
    /\ "SetOAuthProtectedResourceDisabled" \in mix.ops
    /\ StoreSetOAuthProtectedResourceDisabled(x, disabled)
    /\ UNCHANGED <<hostVars, call>>

SetOAuthClientDisabled(c, disabled) ==
    /\ "SetOAuthClientDisabled" \in mix.ops
    /\ StoreSetOAuthClientDisabled(c, disabled)
    /\ UNCHANGED <<hostVars, call>>

\* Source and authentication method of a registered client never change.
RotateOAuthClientSecret(c) ==
    /\ "RotateOAuthClientSecret" \in mix.ops
    /\ clients[c] # Absent
    /\ clients[c].source # "cimd" /\ clients[c].meta.auth = "secret"
    /\ clients[c].secret < MaxSecret
    /\ StoreRotateSecret(c)
    /\ UNCHANGED <<hostVars, call>>

\* Nothing but the keys differs in the new metadata.
ReplaceOAuthClientJWKS(c) ==
    /\ "ReplaceOAuthClientJWKS" \in mix.ops
    /\ clients[c] # Absent
    /\ clients[c].source # "cimd" /\ clients[c].meta.auth = "key"
    /\ \E meta \in mix.metadata :
          /\ meta = [clients[c].meta EXCEPT !.key = meta.key]
          /\ StoreReplaceJWKS(c, meta)
    /\ UNCHANGED <<hostVars, call>>

RevokeOAuthGrant(g) ==
    /\ "RevokeOAuthGrant" \in mix.ops
    /\ StoreRevokeOAuthGrant(g)
    /\ UNCHANGED <<hostVars, call>>

\* The accounts side: a user is disabled, suspended or restored, and the
\* user's credentials may be revoked with it.
RevokeUserCredentials(u) ==
    /\ "RevokeUserCredentials" \in mix.ops
    /\ StoreRevokeUserGrants(u)
    /\ \E s \in Standing : standing' = [standing EXCEPT ![u] = s]
    /\ UNCHANGED <<mix, consents, call>>

SetStanding(u) ==
    /\ "SetStanding" \in mix.ops
    /\ \E s \in Standing : standing' = [standing EXCEPT ![u] = s]
    /\ UNCHANGED <<storeVars, mix, consents, call>>

Lapse ==
    /\ "Lapse" \in mix.ops
    /\ \/ \E g \in GrantIDs : CodeLapses(g)
       \/ \E a \in AccessIDs : AccessLapses(a)
       \/ \E t \in RefreshIDs : RefreshLapses(t)
       \/ \E m \in MachineIDs : MachineLapses(m)
       \/ \E i \in InitialIDs : InitialLapses(i)
       \/ \E c \in ClientIDs : MetadataLapses(c)
    /\ UNCHANGED <<hostVars, call>>

-----------------------------------------------------------------------------
(* Next-state relation.                                                    *)

ClientSteps(r) ==
    \/ ReadsClient(r) \/ NeedsMetadata(r) \/ ResolvesMetadata(r)
    \/ ValidateOAuthAuthorizationRedirect(r)

ConsentSteps(r) ==
    \/ BeginOAuthAuthorization(r) \/ BeginReadsResource(r)
    \/ BeginSealsContinuation(r)
    \/ CompleteOAuthAuthorization(r) \/ CompleteReadsClient(r)
    \/ CompleteReadsResource(r) \/ CompleteReadsIssuer(r)
    \/ CompleteReadsStanding(r) \/ CompleteCommits(r)

GrantSteps(r) ==
    \/ GrantRead(r) \/ GrantReadsResource(r) \/ GrantReadsIssuer(r)
    \/ GrantReadsStanding(r)

TokenSteps(r) ==
    \/ ExchangeOAuthAuthorizationCode(r) \/ ExchangeReadsCode(r)
    \/ revokeOAuthGrantForCodeReplay(r) \/ ExchangeCommits(r)
    \/ RefreshOAuthToken(r) \/ RefreshReadsToken(r) \/ RefreshCommits(r)
    \/ RefreshConflicts(r) \/ revokeOAuthRefreshFamily(r)
    \/ IssueOAuthClientCredentials(r) \/ MachineReadsResource(r)
    \/ MachineCommits(r)
    \/ RevokeOAuthToken(r) \/ RevokesToken(r)

BearerSteps(r) ==
    \/ AuthenticateOAuthAccessToken(r) \/ BearerReadsClient(r)
    \/ OAuthUserInfo(r) \/ UserInfoReadsToken(r) \/ UserInfoReadsGrant(r)
    \/ UserInfoReadsUser(r)

RegistrationSteps(r) ==
    \/ UpdateOAuthIssuer(r) \/ UpdateCommits(r)
    \/ CreateOAuthInitialAccessToken(r) \/ InitialCommits(r)
    \/ RegisterOAuthClient(r) \/ RegisterReadsToken(r) \/ RegisterCommits(r)

AdminSteps ==
    \/ CreateOAuthIssuer
    \/ \E x \in Resources : CreateOAuthProtectedResource(x)
    \/ \E c \in ClientIDs :
          \/ PreRegisterOAuthClient(c) \/ RotateOAuthClientSecret(c)
          \/ ReplaceOAuthClientJWKS(c)
    \/ \E i \in InitialIDs : RevokeOAuthInitialAccessToken(i)
    \/ \E g \in GrantIDs : RevokeOAuthGrant(g)
    \/ \E u \in Users : RevokeUserCredentials(u) \/ SetStanding(u)
    \/ \E disabled \in BOOLEAN :
          \/ SetOAuthIssuerDisabled(disabled)
          \/ \E x \in Resources : SetOAuthProtectedResourceDisabled(x, disabled)
          \/ \E c \in ClientIDs : SetOAuthClientDisabled(c, disabled)

Next ==
    \/ \E r \in Requests :
          \/ ClientSteps(r) \/ ConsentSteps(r) \/ GrantSteps(r)
          \/ TokenSteps(r) \/ BearerSteps(r) \/ RegistrationSteps(r)
          \/ Refused(r)
    \/ AdminSteps
    \/ Lapse

Spec == Init /\ [][Next]_vars

-----------------------------------------------------------------------------
(* Properties.                                                             *)

Refreshes(g) == {t \in RefreshIDs : refresh[t] # Absent /\ refresh[t].grant = g}
Accesses(g) == {a \in AccessIDs : access[a] # Absent /\ access[a].grant = g}

\* ExchangeOAuthAuthorizationCode and RefreshOAuthToken: concurrent calls
\* never redeem a code or rotate a refresh token twice.  A grant has no
\* token before its code is used, and afterwards one access token for the
\* code and one for each refresh token that was replaced.
OneTokenPerProof ==
    \A g \in Granted :
       Cardinality(Accesses(g)) =
          IF codes[g].st # "used" THEN 0
          ELSE 1 + Cardinality({t \in Refreshes(g) : refresh[t].next # None})

\* RotateOAuthRefreshToken: whatever the interleaving, the refresh tokens of
\* a grant are one family and at most one of them can still be rotated.
OneLiveRefresh ==
    \A t, u \in RefreshIDs :
       /\ refresh[t] # Absent /\ refresh[u] # Absent
       /\ refresh[t].grant = refresh[u].grant
       => /\ refresh[t].family = refresh[u].family
          /\ refresh[t].st \in {"open", "lapsed"}
             /\ refresh[u].st \in {"open", "lapsed"} => t = u

\* RevokeOAuthRefreshFamily: once reuse, or the client, has revoked a family,
\* no call in flight leaves a usable token behind.  Either the whole grant is
\* revoked or every refresh and access token of it is.
FamiliesDieWhole ==
    \A t \in RefreshIDs :
       refresh[t].st = "revoked" =>
          \/ grants[refresh[t].grant].st = "revoked"
          \/ /\ \A u \in Refreshes(refresh[t].grant) : refresh[u].st = "revoked"
             /\ \A a \in Accesses(refresh[t].grant) : access[a].st = "revoked"

\* RefreshOAuthToken: along a family scopes never widen, and no token
\* carries a scope its user did not consent to.
ScopesOnlyNarrow ==
    /\ \A t \in RefreshIDs :
          refresh[t] # Absent =>
             /\ refresh[t].scopes \subseteq grants[refresh[t].grant].scopes
             /\ refresh[t].next # None =>
                   refresh[refresh[t].next].scopes \subseteq refresh[t].scopes
    /\ \A a \in AccessIDs :
          access[a] # Absent =>
             access[a].scopes \subseteq grants[access[a].grant].scopes

\* SetOAuthClientDisabled and SetOAuthProtectedResourceDisabled are
\* revocations: no exchange or refresh that overtakes one leaves a token
\* which enabling the client or the resource again would bring back.
DisablingRevokes ==
    \A a \in AccessIDs :
       access[a] # Absent =>
          LET g == grants[access[a].grant] IN
          \/ g.st = "revoked"
          \/ ClientUp(g.client) /\ ResourceUp(g.resource)

\* RotateOAuthClientSecret's runbook (disable, rotate, enable): nothing
\* minted with a secret that was replaced while its client was disabled
\* is under a grant that is still live.
RunbookEndsOldSecret ==
    \A a \in AccessIDs :
       access[a] # Absent =>
          LET g == grants[access[a].grant] IN
          access[a].secret < clients[g.client].burnt => g.st = "revoked"

\* AuthenticateOAuthAccessToken and OAuthUserInfo: a call that began after
\* its grant, or the grant's refresh-token family, was revoked is not
\* answered.
EndedGrantsAnswerNothing ==
    \A r \in Requests : call[r].pc = "served" => ~call[r].late

\* CreateOAuthClient: concurrent registrations never exceed the number an
\* initial access token allows.
RegistrationQuota ==
    \A i \in InitialIDs :
       initials[i] # Absent =>
          Cardinality({c \in ClientIDs : clients[c] # Absent
                                         /\ clients[c].via = i}) <= initials[i].max

\* IssueOAuthClientCredentials: a token without a user is only ever held by
\* a client an administrator registered, for a resource on its allowlist.
MachineTokensAllowlisted ==
    \A m \in MachineIDs :
       machines[m] # Absent =>
          /\ clients[machines[m].client].source = "pre"
          /\ machines[m].resource \in clients[machines[m].client].meta.machine

\* DisableOAuthClient: "disables a client record so authorization, token, and
\* bearer-validation operations refuse it" until EnableOAuthClient.
DisabledUntilEnabled ==
    [][\A c \in ClientIDs :
          clients[c] # Absent /\ clients[c].st = "disabled"
          /\ clients'[c].st = "enabled" => SetOAuthClientDisabled(c, FALSE)]_vars
=============================================================================
