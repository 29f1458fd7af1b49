------------------------------ MODULE MCPostgres ------------------------------
(***************************************************************************)
(* The PostgreSQL store on two connections.  A behaviour runs one mix of   *)
(* operations that meet on the same rows, each as often as there are       *)
(* identifiers left.  Identifiers of different tables differ.              *)
(***************************************************************************)
EXTENDS PgStore, TLC

ConnectionSymmetry == Permutations(Connections)

Row(table, id, row) == <<table, id>> :> row
Free(table, ids) == [k \in {table} \X ids |-> Absent]

Account(u, a) ==
    Row("users", u, [disabled |-> FALSE])
    @@ Row("emails", u, [user |-> u, addr |-> a, primary |-> TRUE,
                         verified |-> TRUE])
    @@ Row("passwords", u, [user |-> u, pwd |-> u, enc |-> 0])
Unregistered(us) ==
    Free("users", us) @@ Free("emails", us) @@ Free("passwords", us)

Member(w, u, role) ==
    Row("memberships", <<w, u>>, [user |-> u, ws |-> w, role |-> role,
                                  st |-> "active"])
Space(w, us) ==
    Row("workspaces", w, [disabled |-> FALSE])
    @@ Free("memberships", {w} \X us)
Root(u) == Row("admins", u, [user |-> u, role |-> "root"])
Token(u, w) == Row("pats", 61, [user |-> u, ws |-> w, st |-> "live"])
Open(table, i, u) == Row(table, i, [user |-> u, st |-> "open", by |-> None])
Session(i, u) == Row("sessions", i, [user |-> u, st |-> "live", by |-> None,
                                     pwd |-> u])
Grant(i, u, c) ==
    Row("grants", i, [user |-> u, client |-> c, st |-> "live"])
Tokens(i, g) ==
    Row("access", i, [grant |-> g, st |-> "live"])
    @@ Row("refresh", i, [grant |-> g, st |-> "open", by |-> None,
                          revoked |-> FALSE, family |-> i])
Client(i, via) == Row("clients", i, [disabled |-> FALSE, secret |-> 0,
                                     via |-> via])

\* Two calls bootstrap the instance at once.
Bootstraps ==
    [ops |-> {"Bootstrap"},
     rows |-> Unregistered({1, 2}) @@ Free("instance", {0})
              @@ Free("workspaces", {31, 32}) @@ Free("admins", {1, 2})
              @@ Free("memberships", {31, 32} \X {1, 2})]

\* Sessions open while the password changes.
Passwords ==
    [ops |-> {"CreateSession", "ChangePassword", "CompletePasswordReset",
              "RehashPassword"},
     rows |-> Account(1, "a") @@ Free("sessions", {11})
              @@ Open("resets", 21, 1) @@ Open("resets", 22, 1)
              @@ Free("throttles", {1})]

\* Every credential of an account is revoked while they are used.
Credentials ==
    [ops |-> {"TouchSession", "RevokeSession", "RevokeUserSessions",
              "RevokeUserCredentials", "CreatePAT", "TouchPAT", "RevokePAT",
              "SetWorkspaceDisabled"},
     rows |-> Account(1, "a") @@ Session(11, 1) @@ Space(31, {1})
              @@ Free("pats", {61}) @@ Grant(71, 1, 51) @@ Tokens(81, 71)]

\* Login failures, and the successes that forgive them.
Failures ==
    [ops |-> {"RecordLoginFailure", "RecordAuthentication",
              "RecordPasswordAuthentication", "CreatePasswordReset",
              "CreateEmailAuthentication", "ConsumeEmailAuthentication"},
     rows |-> Account(1, "a") @@ Free("throttles", {1}) @@ Free("links", {23})
              @@ Free("resets", {21})]

Factors ==
    [ops |-> {"SaveTOTPEnrollment", "ActivateTOTP", "UseTOTP", "DisableTOTP"},
     rows |-> Account(1, "a") @@ Free("totp", {1}) @@ Free("codes", {41, 42})
              @@ Free("throttles", {1})]

RecoveryCodes ==
    [ops |-> {"ConsumeRecoveryCode", "ReplaceRecoveryCodes",
              "ResetSecondFactor", "SavePasskey", "TouchPasskey",
              "DeletePasskey"},
     rows |-> Account(1, "a")
              @@ Row("totp", 1, [user |-> 1, secret |-> 1, active |-> TRUE,
                                 step |-> 1, by |-> None])
              @@ Open("codes", 41, 1) @@ Free("codes", {42})
              @@ Free("throttles", {1}) @@ Session(11, 1)
              @@ Free("passkeys", {45})]

Mailboxes ==
    [ops |-> {"SaveEmail", "VerifyEmail", "ReissueEmailVerification",
              "SetPrimaryEmail", "RemoveEmail"},
     rows |-> Account(1, "a") @@ Free("emails", {26, 27})]

Offices ==
    [ops |-> {"SetInstanceRole", "RemoveInstanceRole", "SetUserDisabled"},
     rows |-> Account(1, "a") @@ Account(2, "b") @@ Root(1)
              @@ Free("admins", {2})]

Administration ==
    [ops |-> {"UpsertMembership", "RemoveMembership", "SetUserDisabled"},
     rows |-> Account(1, "a") @@ Account(2, "b") @@ Root(1)
              @@ Member(31, 1, "admin") @@ Space(31, {1, 2})]

Anonymization ==
    [ops |-> {"AnonymizeUser", "UpsertMembership"},
     rows |-> Account(1, "a") @@ Account(2, "b") @@ Root(2)
              @@ Member(31, 1, "admin") @@ Member(31, 2, "admin")
              @@ Space(31, {1, 2}) @@ Token(1, 31) @@ Session(11, 1)]

\* Invitations accepted, revoked and renewed.
Joining ==
    [ops |-> {"CreateWorkspaceInvitation", "AcceptWorkspaceInvitation",
              "RevokeWorkspaceInvitation", "RegisterInvitedUser"},
     rows |-> Account(1, "a") @@ Unregistered({2})
              @@ Space(31, {1, 2}) @@ Free("invitations", {35, 36})]

SigningUp ==
    [ops |-> {"CreateUser", "CreateSignup", "CreateWorkspace",
              "JITProvisionSSOUser"},
     rows |-> Account(1, "a") @@ Unregistered({2, 3}) @@ Space(31, {1, 2, 3})
              @@ Free("workspaces", {32})
              @@ Free("memberships", {32} \X {1, 2, 3})
              @@ Free("identities", {46})]

Domains ==
    [ops |-> {"CreateWorkspaceDomain", "ConfirmWorkspaceDomain",
              "UpdateWorkspaceDomainPolicy", "DeleteWorkspaceDomain"},
     rows |-> Space(31, {}) @@ Space(32, {}) @@ Free("domains", {37, 38})]

Identities ==
    [ops |-> {"LinkSSO", "TouchSSO", "UnlinkSSO"},
     rows |-> Account(1, "a") @@ Account(2, "b")
              @@ Free("identities", {46, 47}) @@ Free("throttles", {1, 2})]

OpenRegistration ==
    [ops |-> {"CreateOAuthClient", "SetOAuthClientDisabled"},
     rows |-> Row("issuers", 50, [mode |-> "open"])
              @@ Free("clients", {51, 52, 53})]

Clients ==
    [ops |-> {"SetOAuthClientDisabled", "RotateOAuthClientCredentials",
              "CreateOAuthGrantAndCode"},
     rows |-> Account(1, "a") @@ Client(51, None) @@ Free("grants", {71})
              @@ Free("authcodes", {71})]

InitialTokens ==
    [ops |-> {"CreateOAuthClient", "RevokeOAuthInitialAccessToken"},
     rows |-> Row("issuers", 50, [mode |-> "token"])
              @@ Row("initials", 55, [count |-> 0, st |-> "open"])
              @@ Free("clients", {51, 52, 53})]

Exchange ==
    [ops |-> {"CreateOAuthGrantAndCode", "ConsumeOAuthAuthorizationCode",
              "RotateOAuthRefreshToken", "RevokeOAuthAccessToken",
              "RevokeOAuthRefreshFamily", "RevokeOAuthGrant"},
     rows |-> Account(1, "a") @@ Client(51, None) @@ Free("grants", {71})
              @@ Free("authcodes", {71}) @@ Free("access", {81, 82})
              @@ Free("refresh", {81, 82})]

AllMixes ==
    {Bootstraps, Passwords, Credentials, Failures, Factors, RecoveryCodes,
     Mailboxes, Offices, Administration, Anonymization, Joining, SigningUp,
     Domains, Identities, OpenRegistration, Clients, InitialTokens, Exchange}
=============================================================================
