-------------------------------- MODULE PgStore -------------------------------
(***************************************************************************)
(* The PostgreSQL store: the transactions its methods run, on several      *)
(* connections at once.  A call begins with arguments its caller can have  *)
(* by then, runs its statements one by one, and commits or rolls back.     *)
(***************************************************************************)
EXTENDS PgOAuth

CONSTANTS
    Mixes,           \* the mixes of operations, each with its initial rows
    Addresses,       \* mail addresses
    MaxFailures,     \* the failures counted before the model stops adding
    MaxPassword,     \* passwords are numbered up to this
    MaxSecret,       \* and the secrets of authenticators up to this
    MaxStep          \* the last step of their codes

ASSUME PgAssumption ==
    /\ MaxAttempts \in Nat \ {0} /\ OpenLimit \in Nat \ {0}
    /\ MaxRegistrations \in Nat \ {0} /\ MaxPassword \in Nat \ {0}
    /\ MaxFailures \in Nat /\ MaxFailures > MaxAttempts
    /\ MaxSecret \in Nat \ {0} /\ MaxStep \in Nat \ {0}
    /\ None \notin Connections

Init ==
    /\ \E m \in Mixes : mix = m.ops /\ db = m.rows
    /\ tx = [t \in Connections |-> Idle]
    /\ replaced = {}

-----------------------------------------------------------------------------
(* mutate, mutateIf and oauthMutate.                                       *)

Starts(t, op) == tx[t] = Idle /\ op \in mix

Begins(t, op, arg, program) ==
    Becomes(t, [Idle EXCEPT !.op = op, !.arg = arg, !.todo = program])

Disabling == {"SetUserDisabled", "AnonymizeUser"}

Resigning == Disabling \cup {"SetInstanceRole", "RemoveInstanceRole"}

\* Whether the commit of t changes something behind the back of transaction
\* c, which may have looked already: the account c is about gets an office; an
\* account loses one for which that was overlooked; a client is enabled.
HoldsOffice(row) == "role" \in DOMAIN row /\ row.role \in {"admin", "root"}
Promoted ==
    {db'[k].user : k \in {k \in Table("memberships") \cup Table("admins") :
                            HoldsOffice(db'[k]) /\ db'[k] # db[k]}}
Reopened ==
    \E k \in Table("clients") :
      db[k] # Absent /\ db[k].disabled /\ ~db'[k].disabled
Overlooked(c, t) ==
    \/ tx[c].op \in Resigning /\ Arg(c).user \in Promoted
    \/ tx[t].op \in Resigning /\ tx[t].raised
    \/ tx[c].op = "CreateOAuthClient" /\ Reopened

\* The audit event is chained last, under the lock of the chain's head, which
\* only delays a commit; the hooks that run before it may refuse.
Commit(t) ==
    /\ Active(t) /\ tx[t].todo = <<>>
    /\ db' = [k \in DOMAIN db |-> View(t, k)]
    /\ tx' = [c \in Connections |->
                CASE c = t -> Idle
                  [] ~Active(c) -> tx[c]
                  [] OTHER -> [tx[c] EXCEPT !.raised = @ \/ Overlooked(c, t)]]
    /\ replaced' = replaced \cup
         {db[k].pwd : k \in {k \in Table("passwords") :
                               db[k] # Absent /\ db[k].pwd # db'[k].pwd}}
    /\ UNCHANGED mix

\* Bug: the transaction stays open on its connection.
LeaksTransaction(t) ==
    Active(t) /\ Becomes(t, [tx[t] EXCEPT !.op = None, !.todo = <<>>])

\* An error, a refused hook, a deadlock or a lost connection.
Rollback(t) == Active(t) /\ Becomes(t, Idle)

-----------------------------------------------------------------------------
(* Arguments.                                                              *)

Present(table) == {k \in Table(table) : db[k] # Absent}
Accounts == Ids(Present("users"))

\* The least identifier nobody uses: identifiers are unique.
Fresh(table) ==
    LET free == {k[2] : k \in {k \in Table(table) :
                   /\ db[k] = Absent
                   /\ \A c \in Connections : k[2] \notin
                        {Arg(c).id, Arg(c).new, Arg(c).user, Arg(c).ws}}}
    IN  {i \in free : \A j \in free : i <= j}

FreshPassword ==
    LET free == {p \in 1..MaxPassword :
                   /\ p \notin replaced
                   /\ \A k \in Present("passwords") : db[k].pwd # p
                   /\ \A c \in Connections : Arg(c).new # p}
    IN  {p \in free : \A q \in free : p <= q}

FreshSecret ==
    LET free == {s \in 1..MaxSecret :
                   /\ \A k \in Present("totp") : db[k].secret # s
                   /\ \A c \in Connections :
                        /\ Arg(c).new # s
                        /\ tx[c].op = "ActivateTOTP" => Arg(c).val # s}
    IN  {s \in free : \A r \in free : s <= r}

\* The hashes a caller of the account can have authenticated against.
Hashes(u) ==
    {[pwd |-> p, enc |-> 0] : p \in replaced}
    \cup {[pwd |-> db[k].pwd, enc |-> e] :
            k \in {k \in Present("passwords") : db[k].user = u}, e \in {0, 1}}

ForUser(t, op, program) ==
    /\ Starts(t, op)
    /\ \E u \in Accounts :
         Begins(t, op, [NoArgs EXCEPT !.user = u], Do(program))

\* A call about a row of the table, by its owner.
ForRow(t, op, table, program) ==
    /\ Starts(t, op)
    /\ \E k \in Present(table) :
         Begins(t, op, [NoArgs EXCEPT !.user = db[k].user, !.id = k[2]],
                Do(program))

\* A call that stores a row of the table for an account.
ForNew(t, op, table, program) ==
    /\ Starts(t, op)
    /\ \E u \in Accounts, i \in Fresh(table) :
         Begins(t, op, [NoArgs EXCEPT !.user = u, !.id = i], Do(program))

-----------------------------------------------------------------------------
(* Registrations.                                                          *)

\* at holds the workspaces, each with the invitation or identity used.
Registers(t, op, at, role, verified, program) ==
    /\ Starts(t, op)
    /\ \E u \in Fresh("users"), p \in FreshPassword, w \in at,
          a \in Addresses, v \in verified :
         Begins(t, op,
                [user |-> u, id |-> w[2], ws |-> w[1], new |-> p,
                 val |-> [addr |-> a, primary |-> TRUE, verified |-> v,
                          role |-> role, st |-> "active"]], Do(program))

BeginBootstrap(t) ==
    Registers(t, "Bootstrap", Fresh("workspaces") \X {None}, "admin", {TRUE},
              <<"ClaimBootstrap", "InsertUser", "InsertUserEmail",
                "InsertPassword", "InsertWorkspace", "UpsertMembership",
                "UpsertInstanceAdministrator">>)

BeginCreateUser(t) ==
    Registers(t, "CreateUser", Ids(Present("workspaces")) \X {None},
              "member", {TRUE},
              <<"InsertUser", "InsertUserEmail", "InsertPassword",
                "UpsertMembership">>)

BeginCreateSignup(t) ==
    Registers(t, "CreateSignup", Fresh("workspaces") \X {None}, "admin",
              BOOLEAN, <<"InsertUser", "InsertUserEmail", "InsertPassword",
                         "InsertWorkspace", "UpsertMembership">>)

BeginRegisterInvitedUser(t) ==
    Registers(t, "RegisterInvitedUser",
              {<<db[k].ws, k[2]>> : k \in Present("invitations")},
              "member", {TRUE},
              <<"AcceptWorkspaceInvitation", "InsertUser", "InsertUserEmail",
                "InsertPassword", "UpsertMembership">>)

BeginJITProvisionSSOUser(t) ==
    Registers(t, "JITProvisionSSOUser",
              Ids(Present("workspaces")) \X Ids(Table("identities")),
              "member", {TRUE},
              <<"InsertUser", "InsertUserEmail", "UpsertMembership",
                "InsertSSOIdentity">>)

-----------------------------------------------------------------------------
(* Passwords, sessions and tokens of an account.                           *)

\* The password changes, or its hash is replaced, or it opens a session.
WithPassword(t, op, val, new, id, program) ==
    /\ Starts(t, op)
    /\ \E u \in Accounts, i \in id, p \in new :
         \E v \in val[u] :
           Begins(t, op, [NoArgs EXCEPT !.user = u, !.id = i, !.val = v,
                                        !.new = p], Do(program))

NoValue == [u \in Accounts |-> {None}]
AnyHash == [u \in Accounts |-> Hashes(u)]

BeginChangePassword(t) ==
    WithPassword(t, "ChangePassword", NoValue, FreshPassword, {None},
                 <<"ReplacePassword", "RevokeUserSessions">>)

BeginRehashPassword(t) ==
    WithPassword(t, "RehashPassword", AnyHash, {None}, {None},
                 <<"RehashPassword">>)

BeginRecordPasswordAuthentication(t) ==
    WithPassword(t, "RecordPasswordAuthentication", AnyHash, {None}, {None},
                 <<"LockPassword", "TouchUserLastSeen",
                   "ClearLoginThrottle">>)

\* After another authentication than by password there is no digest.
BeginCreateSession(t) ==
    \/ WithPassword(t, "CreateSession", AnyHash, {None}, Fresh("sessions"),
                    <<"GetUserByID", "LockPassword", "InsertSession">>)
    \/ ForNew(t, "CreateSession", "sessions",
              <<"GetUserByID", "InsertSession">>)

BeginTouchSession(t) ==
    ForRow(t, "TouchSession", "sessions",
           <<"GetSession", "TouchSession", "TouchUserLastSeen">>)

BeginRevokeSession(t) ==
    ForRow(t, "RevokeSession", "sessions",
           <<"GetSession", "RevokeSessionByID">>)

BeginRevokeUserSessions(t) ==
    ForUser(t, "RevokeUserSessions", <<"GetUserByID", "RevokeUserSessions">>)

BeginRevokeUserCredentials(t) ==
    ForUser(t, "RevokeUserCredentials",
            <<"GetUserByID", "RevokeUserPATs", "RevokeUserSessions",
              "OAuthGrantIDsByUser">>)

BeginCreatePAT(t) ==
    /\ Starts(t, "CreatePAT")
    /\ \E u \in Accounts, i \in Fresh("pats"),
          w \in Ids(Present("workspaces")) :
         Begins(t, "CreatePAT", [NoArgs EXCEPT !.user = u, !.id = i, !.ws = w],
                Do(<<"InsertPAT">>))

BeginTouchPAT(t) ==
    ForRow(t, "TouchPAT", "pats",
           <<"GetPATByID", "TouchPAT", "TouchUserLastSeen">>)

BeginRevokePAT(t) == ForRow(t, "RevokePAT", "pats", <<"RevokePAT">>)

BeginRecordAuthentication(t) ==
    ForUser(t, "RecordAuthentication",
            <<"TouchUserLastSeen", "ClearLoginThrottle">>)

\* The Manager refuses a locked account before it verifies anything.
BeginRecordLoginFailure(t) ==
    /\ Starts(t, "RecordLoginFailure")
    /\ \E u \in Accounts :
         /\ \A k \in Present("throttles") :
              db[k].user = u => db[k].lock # "on" /\ db[k].n < MaxFailures
         /\ Begins(t, "RecordLoginFailure", [NoArgs EXCEPT !.user = u],
                   Do(<<"GetUserByID", "GetLoginThrottle",
                        "UpsertLoginFailure">>))

BeginCreatePasswordReset(t) ==
    ForNew(t, "CreatePasswordReset", "resets",
           <<"GetUserByID", "InsertPasswordReset">>)

BeginCompletePasswordReset(t) ==
    /\ Starts(t, "CompletePasswordReset")
    /\ \E k \in Present("resets"), p \in FreshPassword :
         Begins(t, "CompletePasswordReset",
                [NoArgs EXCEPT !.user = db[k].user, !.id = k[2], !.new = p],
                Do(<<"ConsumePasswordReset", "DeleteOtherPasswordResets",
                     "UpsertPassword", "RevokeUserPATs",
                     "RevokeUserSessions", "OAuthGrantIDsByUser",
                     "ClearLoginThrottle">>))

BeginCreateEmailAuthentication(t) ==
    ForNew(t, "CreateEmailAuthentication", "links",
           <<"GetUserByID", "InsertEmailAuthentication">>)

\* It may complete the sign-in.
BeginConsumeEmailAuthentication(t) ==
    \/ ForRow(t, "ConsumeEmailAuthentication", "links",
              <<"ConsumeEmailAuthentication">>)
    \/ ForRow(t, "ConsumeEmailAuthentication", "links",
              <<"ConsumeEmailAuthentication", "TouchUserLastSeen",
                "ClearLoginThrottle">>)

-----------------------------------------------------------------------------
(* Addresses and second factors.                                           *)

BeginSaveEmail(t) ==
    /\ Starts(t, "SaveEmail")
    /\ \E u \in Accounts, i \in Fresh("emails"), a \in Addresses :
         Begins(t, "SaveEmail",
                [NoArgs EXCEPT !.user = u, !.id = i,
                   !.val = [addr |-> a, primary |-> FALSE,
                            verified |-> FALSE]], Do(<<"InsertUserEmail">>))

BeginVerifyEmail(t) == ForRow(t, "VerifyEmail", "emails", <<"VerifyEmail">>)

BeginReissueEmailVerification(t) ==
    ForRow(t, "ReissueEmailVerification", "emails",
           <<"ReissueEmailVerification">>)

BeginSetPrimaryEmail(t) ==
    ForRow(t, "SetPrimaryEmail", "emails",
           <<"GetEmailVerification", "ClearPrimaryEmails",
             "SetPrimaryEmail">>)

BeginRemoveEmail(t) ==
    ForRow(t, "RemoveEmail", "emails",
           <<"GetEmailVerification", "DeleteEmail">>)

\* A secret nobody enrolled yet.
BeginSaveTOTPEnrollment(t) ==
    /\ Starts(t, "SaveTOTPEnrollment")
    /\ \E u \in Accounts, s \in FreshSecret :
         Begins(t, "SaveTOTPEnrollment", [NoArgs EXCEPT !.user = u, !.new = s],
                Do(<<"SaveTOTPEnrollment", "DeleteRecoveryCodes">>))

\* The secret is the one the code was verified against.
BeginActivateTOTP(t) ==
    /\ Starts(t, "ActivateTOTP")
    /\ \E k \in Present("totp"), i \in Fresh("codes") :
         Begins(t, "ActivateTOTP",
                [NoArgs EXCEPT !.user = db[k].user, !.id = i,
                               !.val = db[k].secret],
                Do(<<"ActivateTOTP", "DeleteRecoveryCodes">>)
                \o DoEach("InsertRecoveryCode", {i}))

BeginUseTOTP(t) ==
    /\ Starts(t, "UseTOTP")
    /\ \E u \in Accounts, n \in 1..MaxStep :
         Begins(t, "UseTOTP", [NoArgs EXCEPT !.user = u, !.val = n],
                Do(<<"UseTOTP", "TouchUserLastSeen", "ClearLoginThrottle">>))

BeginConsumeRecoveryCode(t) ==
    ForRow(t, "ConsumeRecoveryCode", "codes",
           <<"ConsumeRecoveryCode", "TouchUserLastSeen",
             "ClearLoginThrottle">>)

BeginDisableTOTP(t) ==
    ForUser(t, "DisableTOTP", <<"DeleteTOTP", "DeleteRecoveryCodes">>)

BeginReplaceRecoveryCodes(t) ==
    /\ Starts(t, "ReplaceRecoveryCodes")
    /\ \E u \in Accounts, i \in Fresh("codes") :
         Begins(t, "ReplaceRecoveryCodes",
                [NoArgs EXCEPT !.user = u, !.id = i],
                Do(<<"GetTOTP", "DeleteRecoveryCodes">>)
                \o DoEach("InsertRecoveryCode", {i}))

BeginResetSecondFactor(t) ==
    ForUser(t, "ResetSecondFactor",
            <<"GetUserByID", "DeleteTOTP", "DeleteRecoveryCodes",
              "DeleteUserPasskeys", "RevokeUserSessions">>)

\* An authenticator may offer a credential that is registered already.
BeginSavePasskey(t) ==
    /\ Starts(t, "SavePasskey")
    /\ \E u \in Accounts, i \in Ids(Table("passkeys")) :
         Begins(t, "SavePasskey", [NoArgs EXCEPT !.user = u, !.id = i],
                Do(<<"InsertPasskey">>))

BeginTouchPasskey(t) ==
    ForRow(t, "TouchPasskey", "passkeys",
           <<"TouchPasskey", "TouchUserLastSeen", "ClearLoginThrottle">>)

BeginDeletePasskey(t) ==
    ForRow(t, "DeletePasskey", "passkeys", <<"DeletePasskey">>)

-----------------------------------------------------------------------------
(* Offices, accounts and workspaces.                                       *)

Sets(t, op, values, Program(_)) ==
    /\ Starts(t, op)
    /\ \E u \in Accounts, v \in values :
         Begins(t, op, [NoArgs EXCEPT !.user = u, !.val = v], Do(Program(v)))

BeginSetInstanceRole(t) ==
    Sets(t, "SetInstanceRole", {"root", "support"},
         LAMBDA v : (IF v = "root" THEN <<>> ELSE <<"LockRootAdministrators">>)
                    \o <<"GetInstanceAdministrator",
                         "UpsertInstanceAdministrator">>)

BeginRemoveInstanceRole(t) ==
    ForUser(t, "RemoveInstanceRole",
            <<"LockRootAdministrators", "GetInstanceAdministrator",
              "DeleteInstanceAdministrator">>)

\* Nobody may be left without an administrator.
ChecksOffices ==
    <<"GetUserByID", "LockRootAdministrators", "LockUserAdminWorkspaces",
      "GetInstanceAdministrator", "CountWorkspacesOrphanedByUserDisable">>

BeginSetUserDisabled(t) ==
    Sets(t, "SetUserDisabled", BOOLEAN,
         LAMBDA v : IF v THEN ChecksOffices
                              \o <<"SetUserDisabled", "RevokeUserPATs",
                                   "RevokeUserSessions">>
                    ELSE <<"GetUserByID", "SetUserDisabled">>)

\* The records of the directory and the accepted invitations of the account
\* are scrubbed too: they have no column that decides anything here.
BeginAnonymizeUser(t) ==
    /\ Starts(t, "AnonymizeUser")
    /\ \E u \in Accounts :
         Begins(t, "AnonymizeUser", [NoArgs EXCEPT !.user = u],
                Do(ChecksOffices \o <<"ScrubUserProfile">>)
                \o <<<<"Scrub", "emails">>, <<"Scrub", "identities">>,
                     <<"Scrub", "pats">>, <<"Scrub", "sessions">>>>
                \o Do(<<"RevokeUserPATs", "RevokeUserSessions", "DeleteTOTP",
                        "DeleteRecoveryCodes", "DeleteUserPasskeys",
                        "OAuthGrantIDsByUser">>))

\* Any account may get a row in any workspace, by GrantRole or by a host.
BeginUpsertMembership(t) ==
    /\ Starts(t, "UpsertMembership")
    /\ \E w \in Ids(Present("workspaces")), u \in Accounts,
          role \in {"admin", "member"}, st \in {"active", "inactive"} :
         Begins(t, "UpsertMembership",
                [NoArgs EXCEPT !.ws = w, !.user = u,
                               !.val = [role |-> role, st |-> st]],
                Do(<<"LockWorkspace", "GetMembership", "UpsertMembership">>
                   \o IF st = "active" THEN <<>>
                      ELSE <<"RevokeWorkspacePATs">>))

BeginRemoveMembership(t) ==
    /\ Starts(t, "RemoveMembership")
    /\ \E k \in Present("memberships") :
         Begins(t, "RemoveMembership",
                [NoArgs EXCEPT !.ws = db[k].ws, !.user = db[k].user],
                Do(<<"LockWorkspace", "GetMembership", "DeleteMembership",
                     "RevokeWorkspacePATs">>))

BeginCreateWorkspace(t) ==
    /\ Starts(t, "CreateWorkspace")
    /\ \E u \in Accounts, w \in Fresh("workspaces") :
         Begins(t, "CreateWorkspace",
                [NoArgs EXCEPT !.user = u, !.ws = w,
                               !.val = [role |-> "admin", st |-> "active"]],
                Do(<<"InsertWorkspace", "UpsertMembership">>))

BeginSetWorkspaceDisabled(t) ==
    /\ Starts(t, "SetWorkspaceDisabled")
    /\ \E w \in Ids(Present("workspaces")), v \in BOOLEAN :
         Begins(t, "SetWorkspaceDisabled", [NoArgs EXCEPT !.ws = w, !.val = v],
                Do(<<"SetWorkspaceDisabled">>
                   \o IF v THEN <<"RevokeAllWorkspacePATs">> ELSE <<>>))

-----------------------------------------------------------------------------
(* Invitations, domains and linked identities.                             *)

BeginCreateWorkspaceInvitation(t) ==
    /\ Starts(t, "CreateWorkspaceInvitation")
    /\ \E w \in Ids(Present("workspaces")), i \in Fresh("invitations"),
          a \in Addresses :
         Begins(t, "CreateWorkspaceInvitation",
                [NoArgs EXCEPT !.ws = w, !.id = i, !.val = a],
                Do(<<"InsertWorkspaceInvitation">>))

BeginAcceptWorkspaceInvitation(t) ==
    /\ Starts(t, "AcceptWorkspaceInvitation")
    /\ \E k \in Present("invitations"), u \in Accounts :
         Begins(t, "AcceptWorkspaceInvitation",
                [NoArgs EXCEPT !.ws = db[k].ws, !.id = k[2], !.user = u,
                               !.val = [role |-> "member", st |-> "active"]],
                Do(<<"AcceptWorkspaceInvitation", "UpsertMembership">>))

\* A call about a row of a workspace.
InWorkspace(t, op, table, values, program) ==
    /\ Starts(t, op)
    /\ \E k \in Present(table), v \in values :
         Begins(t, op, [NoArgs EXCEPT !.ws = db[k].ws, !.id = k[2], !.val = v],
                Do(program))

BeginRevokeWorkspaceInvitation(t) ==
    InWorkspace(t, "RevokeWorkspaceInvitation", "invitations", {None},
                <<"RevokeWorkspaceInvitation">>)

BeginCreateWorkspaceDomain(t) ==
    /\ Starts(t, "CreateWorkspaceDomain")
    /\ \E w \in Ids(Present("workspaces")), i \in Fresh("domains") :
         Begins(t, "CreateWorkspaceDomain",
                [NoArgs EXCEPT !.ws = w, !.id = i, !.val = "example.org"],
                Do(<<"GetWorkspace", "DeleteStaleWorkspaceDomainClaim",
                     "InsertWorkspaceDomain">>))

BeginConfirmWorkspaceDomain(t) ==
    InWorkspace(t, "ConfirmWorkspaceDomain", "domains", {None},
                <<"GetWorkspaceDomain", "ConfirmWorkspaceDomain">>)

BeginUpdateWorkspaceDomainPolicy(t) ==
    InWorkspace(t, "UpdateWorkspaceDomainPolicy", "domains", {"join"},
                <<"GetWorkspaceDomain", "UpdateWorkspaceDomainPolicy">>)

BeginDeleteWorkspaceDomain(t) ==
    InWorkspace(t, "DeleteWorkspaceDomain", "domains", {None},
                <<"DeleteWorkspaceDomain">>)

\* A link made while signing in records the sign-in.
BeginLinkSSO(t) ==
    /\ Starts(t, "LinkSSO")
    /\ \E u \in Accounts, i \in Ids(Table("identities")),
          more \in {<<>>, <<"TouchUserLastSeen", "ClearLoginThrottle">>} :
         Begins(t, "LinkSSO", [NoArgs EXCEPT !.user = u, !.id = i],
                Do(<<"InsertSSOIdentity">> \o more))

BeginTouchSSO(t) ==
    ForRow(t, "TouchSSO", "identities",
           <<"TouchSSOIdentity", "TouchUserLastSeen", "ClearLoginThrottle">>)

BeginUnlinkSSO(t) ==
    ForRow(t, "UnlinkSSO", "identities",
           <<"CountUserAuthenticationMethods", "DeleteSSOIdentity">>)

-----------------------------------------------------------------------------
(* OAuth clients, grants and tokens.                                       *)

\* The Manager asks for an initial access token unless registration is open.
BeginCreateOAuthClient(t) ==
    /\ Starts(t, "CreateOAuthClient")
    /\ \E k \in Present("issuers"), i \in Fresh("clients") :
         \E v \in IF db[k].mode = "open" THEN {None}
                  ELSE Ids(Present("initials")) :
           Begins(t, "CreateOAuthClient",
                  [NoArgs EXCEPT !.ws = k[2], !.id = i, !.val = v],
                  Do(<<"OAuthIssuerJSONByID", "OAuthInsertClient">>))

ForClient(t, op, values, Program(_)) ==
    /\ Starts(t, op)
    /\ \E i \in Ids(Present("clients")), v \in values :
         Begins(t, op, [NoArgs EXCEPT !.id = i, !.val = v], Do(Program(v)))

BeginSetOAuthClientDisabled(t) ==
    ForClient(t, "SetOAuthClientDisabled", BOOLEAN,
              LAMBDA v : <<"OAuthClientJSONByID", "OAuthUpdateClientJSON">>
                         \o IF v THEN <<"OAuthGrantIDsByClient">> ELSE <<>>)

BeginRotateOAuthClientCredentials(t) ==
    ForClient(t, "RotateOAuthClientCredentials", {1},
              LAMBDA v : <<"OAuthClientJSONByID", "OAuthUpdateClientJSON">>)

BeginRevokeOAuthInitialAccessToken(t) ==
    /\ Starts(t, "RevokeOAuthInitialAccessToken")
    /\ \E i \in Ids(Present("initials")) :
         Begins(t, "RevokeOAuthInitialAccessToken", [NoArgs EXCEPT !.val = i],
                Do(<<"OAuthInitialAccessTokenJSONByID",
                     "OAuthRevokeInitialAccessToken">>))

BeginCreateOAuthGrantAndCode(t) ==
    /\ Starts(t, "CreateOAuthGrantAndCode")
    /\ \E u \in Accounts, c \in Ids(Present("clients")),
          i \in Fresh("grants") :
         Begins(t, "CreateOAuthGrantAndCode",
                [NoArgs EXCEPT !.user = u, !.id = i, !.val = c],
                Do(<<"OAuthInsertGrant", "OAuthInsertAuthorizationCode">>))

\* A token is exchanged for a new pair.
Exchanges(t, op, table, program) ==
    /\ Starts(t, op)
    /\ \E k \in Present(table), i \in Fresh("access") :
         Begins(t, op, [NoArgs EXCEPT !.id = k[2], !.new = i], Do(program))

\* The refresh token is optional.
BeginConsumeOAuthAuthorizationCode(t) ==
    \E more \in {<<>>, <<"OAuthInsertRefreshToken">>} :
      Exchanges(t, "ConsumeOAuthAuthorizationCode", "authcodes",
                <<"OAuthAuthorizationCodeJSONByID",
                  "OAuthConsumeAuthorizationCode",
                  "OAuthInsertAccessToken">> \o more)

BeginRotateOAuthRefreshToken(t) ==
    Exchanges(t, "RotateOAuthRefreshToken", "refresh",
              <<"OAuthRefreshTokenJSONByID", "OAuthConsumeRefreshToken",
                "OAuthInsertAccessToken", "OAuthInsertRefreshToken">>)

BeginRevokeOAuthAccessToken(t) ==
    /\ Starts(t, "RevokeOAuthAccessToken")
    /\ \E i \in Ids(Present("access")) :
         Begins(t, "RevokeOAuthAccessToken", [NoArgs EXCEPT !.id = i],
                <<<<"OAuthAccessTokenJSONByID", i>>,
                  <<"OAuthUpdateAccessTokenJSON", i>>>>)

BeginRevokeOAuthRefreshFamily(t) ==
    /\ Starts(t, "RevokeOAuthRefreshFamily")
    /\ \E f \in {db[k].family : k \in Present("refresh")} :
         Begins(t, "RevokeOAuthRefreshFamily", [NoArgs EXCEPT !.id = f],
                Do(<<"OAuthRefreshFamilyGrantIDs">>))

BeginRevokeOAuthGrant(t) ==
    /\ Starts(t, "RevokeOAuthGrant")
    /\ \E i \in Ids(Present("grants")) :
         Begins(t, "RevokeOAuthGrant", [NoArgs EXCEPT !.id = i],
                RevokeGrant(i))

-----------------------------------------------------------------------------
(* The specification.                                                      *)

Ages(k, field, from, to) ==
    /\ db[k][field] = from
    /\ \A t \in Connections : k \notin tx[t].locks
    /\ db' = [db EXCEPT ![k][field] = to]
    /\ UNCHANGED <<tx, mix, replaced>>

\* Time passes: a lockout ends, a claim is old enough to be replaced.
LockoutEnds == \E k \in Present("throttles") : Ages(k, "lock", "on", "expired")
ClaimGrowsStale == \E k \in Present("domains") :
                     Ages(k, "st", "claimed", "stale")

Begin(t) ==
    \/ BeginBootstrap(t) \/ BeginCreateUser(t) \/ BeginCreateSignup(t)
    \/ BeginRegisterInvitedUser(t) \/ BeginJITProvisionSSOUser(t)
    \/ BeginChangePassword(t) \/ BeginRehashPassword(t)
    \/ BeginRecordPasswordAuthentication(t) \/ BeginCreateSession(t)
    \/ BeginTouchSession(t) \/ BeginRevokeSession(t)
    \/ BeginRevokeUserSessions(t) \/ BeginRevokeUserCredentials(t)
    \/ BeginCreatePAT(t) \/ BeginTouchPAT(t) \/ BeginRevokePAT(t)
    \/ BeginRecordAuthentication(t) \/ BeginRecordLoginFailure(t)
    \/ BeginCreatePasswordReset(t) \/ BeginCompletePasswordReset(t)
    \/ BeginCreateEmailAuthentication(t) \/ BeginConsumeEmailAuthentication(t)
    \/ BeginSaveEmail(t) \/ BeginVerifyEmail(t)
    \/ BeginReissueEmailVerification(t) \/ BeginSetPrimaryEmail(t)
    \/ BeginRemoveEmail(t) \/ BeginSaveTOTPEnrollment(t)
    \/ BeginActivateTOTP(t) \/ BeginUseTOTP(t) \/ BeginConsumeRecoveryCode(t)
    \/ BeginDisableTOTP(t) \/ BeginReplaceRecoveryCodes(t)
    \/ BeginResetSecondFactor(t) \/ BeginSavePasskey(t)
    \/ BeginTouchPasskey(t) \/ BeginDeletePasskey(t)
    \/ BeginSetInstanceRole(t) \/ BeginRemoveInstanceRole(t)
    \/ BeginSetUserDisabled(t) \/ BeginAnonymizeUser(t)
    \/ BeginUpsertMembership(t) \/ BeginRemoveMembership(t)
    \/ BeginCreateWorkspace(t) \/ BeginSetWorkspaceDisabled(t)
    \/ BeginCreateWorkspaceInvitation(t) \/ BeginAcceptWorkspaceInvitation(t)
    \/ BeginRevokeWorkspaceInvitation(t) \/ BeginCreateWorkspaceDomain(t)
    \/ BeginConfirmWorkspaceDomain(t) \/ BeginUpdateWorkspaceDomainPolicy(t)
    \/ BeginDeleteWorkspaceDomain(t) \/ BeginLinkSSO(t) \/ BeginTouchSSO(t)
    \/ BeginUnlinkSSO(t) \/ BeginCreateOAuthClient(t)
    \/ BeginSetOAuthClientDisabled(t) \/ BeginRotateOAuthClientCredentials(t)
    \/ BeginRevokeOAuthInitialAccessToken(t)
    \/ BeginCreateOAuthGrantAndCode(t)
    \/ BeginConsumeOAuthAuthorizationCode(t)
    \/ BeginRotateOAuthRefreshToken(t) \/ BeginRevokeOAuthAccessToken(t)
    \/ BeginRevokeOAuthRefreshFamily(t) \/ BeginRevokeOAuthGrant(t)

Next ==
    \/ \E t \in Connections :
         \/ Begin(t) \/ AccountStatements(t) \/ FactorStatements(t)
         \/ TenancyStatements(t) \/ OAuthStatements(t)
         \/ Commit(t) \/ Rollback(t)
    \/ LockoutEnds \/ ClaimGrowsStale

Spec == Init /\ [][Next]_vars

-----------------------------------------------------------------------------
(* Properties.                                                             *)

\* The rows have their columns, a transaction writes rows it locked, and no
\* two transactions hold a row: what the row locks of the queries rest on.
TypeOK ==
    /\ replaced \subseteq 1..MaxPassword
    /\ \A k \in Present("throttles") :
         db[k].n \in Nat \ {0} /\ db[k].lock \in {"none", "on", "expired"}
    /\ \A k \in Present("sessions") : db[k].st \in {"live", "revoked"}
    /\ \A k \in Present("invitations") : db[k].st \in {"open", "used",
                                                       "revoked"}
    /\ \A k \in Present("domains") : db[k].st \in {"claimed", "stale",
                                                   "confirmed"}
    /\ \A t \in Connections :
         /\ DOMAIN tx[t].writes \subseteq tx[t].locks
         /\ tx[t].locks \subseteq DOMAIN db
         /\ ~Active(t) => tx[t] = Idle
         /\ \A c \in Connections \ {t} : tx[c].locks \cap tx[t].locks = {}

\* A password that was replaced never comes back, no live session was opened
\* with another password than the stored one, and an account with as many
\* failures as the threshold is locked, or was: whatever ChangePassword,
\* CompletePasswordReset, RehashPassword, CreateSession and
\* RecordLoginFailure run at the same time.
PasswordsHold ==
    /\ \A k \in Present("passwords") :
         /\ db[k].pwd \notin replaced
         /\ \A s \in Present("sessions") :
              /\ db[s].user = db[k].user /\ db[s].st = "live"
              /\ db[s].pwd # None
              => db[s].pwd = db[k].pwd
    /\ \A k \in Present("throttles") :
         db[k].n >= MaxAttempts => db[k].lock # "none"

\* Every account has exactly one primary address, whatever SetPrimaryEmail,
\* RemoveEmail and the registrations do at the same time: GetUserByID joins it
\* and finds no account without it.
OnePrimaryAddress ==
    \A u \in Accounts :
      Cardinality({k \in Present("emails") :
                     db[k].user = u /\ db[k].primary}) = 1

\* A transaction of one of the operations commits.
Commits(t, ops) == tx[t].op \in ops /\ tx[t].todo = <<>> /\ tx'[t] = Idle

Roots == {k \in Present("admins") : db[k].role = "root"}
EnabledRoots == {k \in Roots : ~db[<<"users", db[k].user>>].disabled}
ActiveAdministrators(w) ==
    {k \in Present("memberships") :
       /\ db[k].ws = w /\ Administers(db[k])
       /\ ~db[<<"users", db[k].user>>].disabled}

\* The instance never loses its last root, disabling and anonymizing leave an
\* enabled one, and no workspace loses its last enabled administrator, unless
\* the account that lost the office got it after that call began: the
\* queries LockRootAdministrators and LockUserAdminWorkspaces lock only what
\* they find.
OfficesRemain ==
    [][\/ \E t \in Connections : tx'[t] = Idle /\ tx[t].raised
       \/ /\ Roots # {} => Roots' # {}
          /\ (\E t \in Connections : Commits(t, Disabling))
             => (EnabledRoots # {} => EnabledRoots' # {})
          /\ \A w \in Ids(Present("workspaces")) :
               ActiveAdministrators(w) # {}
               => ActiveAdministrators(w)' # {}]_vars

\* What is used or revoked stays so, stamped by the transaction that did it:
\* no token, code, invitation or authenticator step is spent twice and none
\* of those that were revoked returns.  A confirmed domain goes only when it
\* is deleted.
SettledRowsStay ==
    [][\A k \in DOMAIN db :
         LET was == db[k]  is == db'[k]
         IN  was # Absent /\ was # is =>
               CASE k[1] \in {"sessions", "resets", "links", "codes",
                              "invitations", "authcodes", "refresh"} ->
                      /\ is # Absent /\ was.st \notin {"live", "open"}
                         => is.st = was.st /\ is.by = was.by
                      /\ k[1] = "refresh" /\ was.revoked
                         => is.st = was.st /\ is.revoked
                 [] k[1] \in {"pats", "grants", "access", "initials"} ->
                      was.st = "revoked" => is.st = "revoked"
                 [] k[1] = "domains" ->
                      was.st = "confirmed" =>
                        \/ is # Absent /\ is.st = "confirmed"
                        \/ \E t \in Connections :
                             Commits(t, {"DeleteWorkspaceDomain"})
                 [] k[1] = "totp" ->
                      is # Absent /\ was.active /\ is.secret = was.secret
                      => is.active /\ is.step > was.step
                 [] OTHER -> TRUE]_vars

\* Open registration leaves at most OpenLimit active clients, unless a client
\* was enabled while it ran, and an initial access token registers at most
\* MaxRegistrations: CreateOAuthClient counts under the lock of the issuer
\* and compares the count of the token again when it writes it.
RegistrationsWithinLimit ==
    [][\A t \in Connections : Commits(t, {"CreateOAuthClient"}) =>
         /\ \/ db[<<"issuers", Arg(t).ws>>].mode # "open"
            \/ tx[t].raised
            \/ Cardinality({k \in Present("clients") : ~db[k].disabled})'
               <= OpenLimit
         /\ \A i \in Ids(Present("initials")) :
              Cardinality({k \in Present("clients") : db[k].via = i})'
              <= MaxRegistrations]_vars
=============================================================================
