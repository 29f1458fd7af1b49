------------------------------- MODULE MCOAuth -------------------------------
(***************************************************************************)
(* Small instances of OAuth for TLC: a cfg picks the mixes.                *)
(***************************************************************************)
EXTENDS OAuth, TLC

CONSTANTS
    Api,        \* the resource of the machine clients
    Read,       \* a scope that carries a permission
    PlainID     \* the one client of the delegation mixes

\* What every instance needs to get to a grant.
Setup == {"CreateOAuthIssuer", "CreateOAuthProtectedResource",
          "PreRegisterOAuthClient", "BeginOAuthAuthorization",
          "CompleteOAuthAuthorization"}

\* Codes and refresh tokens redeemed concurrently, against their revocation.
DelegationWorkload == Setup \cup
    {"ExchangeOAuthAuthorizationCode", "RefreshOAuthToken", "RevokeOAuthToken",
     "AuthenticateOAuthAccessToken", "RevokeOAuthGrant",
     "IssueOAuthClientCredentials"}

\* The token endpoint and UserInfo against everything an administrator can
\* switch off.
SwitchWorkload == Setup \cup
    {"ExchangeOAuthAuthorizationCode", "OAuthUserInfo",
     "AuthenticateOAuthAccessToken", "SetOAuthClientDisabled",
     "SetOAuthProtectedResourceDisabled", "SetOAuthIssuerDisabled",
     "RotateOAuthClientSecret",
     "SetStanding", "RevokeUserCredentials", "ReplaceOAuthClientJWKS"}

\* Clients registered and resolved while the policy changes.
RegistrationWorkload ==
    {"CreateOAuthIssuer", "UpdateOAuthIssuer", "CreateOAuthInitialAccessToken",
     "RevokeOAuthInitialAccessToken", "RegisterOAuthClient",
     "ValidateOAuthAuthorizationRedirect", "SetOAuthIssuerDisabled",
     "SetOAuthClientDisabled", "Lapse"}

\* Metadata documents that expire while their client is disabled.
RevivalWorkload ==
    {"CreateOAuthIssuer", "ValidateOAuthAuthorizationRedirect",
     "SetOAuthClientDisabled", "Lapse"}

\* Clients for the code flow: public, with a secret, with a key; and one for
\* client_credentials.
Public == [auth |-> "none", code |-> TRUE, refresh |-> TRUE, scopes |-> {},
           machine |-> {}, key |-> 0]
Secret == [Public EXCEPT !.auth = "secret"]
Key1 == [Public EXCEPT !.auth = "key", !.key = 1]
Key2 == [Public EXCEPT !.auth = "key", !.key = 2]
Robot == [auth |-> "key", code |-> FALSE, refresh |-> FALSE,
             scopes |-> {Read}, machine |-> {Api}, key |-> 1]
PublicOnly == {Public}
UserOrMachine == {Public, Robot}
Confidential == {Secret, Key1, Key2}

Closed == [cimd |-> FALSE, dcr |-> "disabled", limit |-> 0]
NoRegistration == {Closed}
DocumentsOnly == {[Closed EXCEPT !.cimd = TRUE]}
AnyRegistration == {[Closed EXCEPT !.dcr = "protected"],
                    [Closed EXCEPT !.dcr = "open", !.limit = 1, !.cimd = TRUE]}

AskOffline == {{OfflineAccess}, {OfflineAccess, OpenID}}
AskRead == {{OpenID, Read}}

Delegation == [ops |-> DelegationWorkload, clients |-> {PlainID},
               metadata |-> UserOrMachine, policies |-> NoRegistration,
               scopes |-> AskOffline]

\* The same while codes and tokens expire: with one set of scopes, and
\* without the revocation of single tokens.
Expiring == [Delegation EXCEPT !.ops = @ \cup {"Lapse"},
                               !.scopes = {{OfflineAccess}}]
Outliving == [Delegation EXCEPT
                !.ops = (@ \cup {"Lapse"}) \ {"RevokeOAuthToken"}]
Switches == [ops |-> SwitchWorkload, clients |-> {PlainID},
             metadata |-> Confidential, policies |-> NoRegistration,
             scopes |-> AskRead]
Registration == [ops |-> RegistrationWorkload, clients |-> ClientIDs,
                 metadata |-> PublicOnly, policies |-> AnyRegistration,
                 scopes |-> {}]
Revival == [ops |-> RevivalWorkload, clients |-> CIMDs,
            metadata |-> PublicOnly, policies |-> DocumentsOnly,
            scopes |-> {}]
AllMixes == {Delegation, Expiring, Outliving, Switches, Registration}
OnlyRevival == {Revival}

AnyMetadata == UserOrMachine \cup Confidential \cup PublicOnly
AnyPolicy == NoRegistration \cup DocumentsOnly \cup AnyRegistration

Symmetric == Permutations(Requests)
=============================================================================
