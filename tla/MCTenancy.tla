------------------------------- MODULE MCTenancy ------------------------------
(***************************************************************************)
(* A small instance of Tenancy and the mixes of operations it runs.        *)
(***************************************************************************)
EXTENDS Tenancy, RoleCatalog, TLC

CONSTANTS n1, sp, x1   \* a domain, a provider, a group of the instance

\* Concurrent first calls: a sign-up may come before the bootstrap.
Founding == {"Bootstrap", "SignUp"}

RootsMix == {"DisableUser", "EnableUser", "SetInstanceRole",
             "RemoveInstanceRole"}

Hiring == {"CreateUser", "CreateWorkspace"}

WorkspaceTokens == {"CreatePAT", "AuthenticatePAT", "RevokePAT",
                    "RevokeUserCredentials", "DisableWorkspace",
                    "EnableWorkspace", "UpdateWorkspace"}

MemberTokens == {"CreatePAT", "AuthenticatePAT", "SuspendMembership",
                 "ReactivateMembership", "RemoveMembership"}

AccountTokens == {"CreatePAT", "AuthenticatePAT", "DisableUser", "EnableUser",
                  "AnonymizeUser"}

DirectedTokens == {"CreatePAT", "AuthenticatePAT", "DeprovisionSCIMUser",
                   "ReplaceSCIMUser"}

RolesMix == {"GrantRole", "SuspendMembership", "DisableUser"}

Staffing == {"AddMembership", "GrantRole", "RemoveMembership"}

Answering == {"InviteToWorkspace", "AcceptInvitation",
              "RegisterFromInvitation", "RevokeInvitation"}

Mailing == {"BeginEmailAddition", "ConfirmEmail", "SetPrimaryEmail",
            "RemoveEmail"}

Resending == {"BeginEmailAddition", "ResendEmailVerification", "ConfirmEmail",
              "RemoveEmail"}

Erasing == {"AnonymizeUser", "UpdateUser", "SetPrimaryEmail",
            "BeginEmailAddition", "ConfirmEmail", "SignUp"}

Claiming == {"CreateWorkspaceDomain", "ConfirmWorkspaceDomain",
             "UpdateWorkspaceDomainPolicy", "RemoveWorkspaceDomain"}

SigningIn == {"FinishSSO", "UnlinkSSO"}

Connecting == {"CreateSCIMConfiguration", "RotateSCIMCredential",
               "RevokeSCIMCredential", "DisableSCIMConfiguration",
               "AuthenticateSCIM"}

Directing == {"ProvisionSCIMUser", "ReplaceSCIMUser", "DeprovisionSCIMUser"}

Leaving == {"ProvisionSCIMUser", "DeprovisionSCIMUser", "RemoveMembership"}

Adopting == {"AdoptSCIMUser", "GrantRole"}

Grouping == {"DeprovisionSCIMUser", "UpsertSCIMGroup", "DeleteSCIMGroup"}

Remapping == {"UpsertSCIMGroup", "UpdateSCIMConfiguration"}

AllMixes == {Founding, RootsMix, Hiring, WorkspaceTokens, MemberTokens,
             AccountTokens, DirectedTokens, RolesMix, Staffing, Answering,
             Mailing, Resending, Erasing, Claiming, SigningIn, Connecting,
             Directing, Leaving, Adopting, Grouping, Remapping}

\* An adoption under a change of role.
OnlyAdopting == {Adopting}

\* Admins who disable and remove each other.
OnlyOrphaning == {{"GrantRole", "DisableUser", "RemoveMembership"}}

\* An acceptance under way while memberships change hands.
OnlyInvited == {{"InviteToWorkspace", "AcceptInvitation", "AddMembership",
                 "RemoveMembership"}}

\* A host that adds a permission to member and a role the instance gives to
\* nobody.
Custom == {[role |-> "member", permissions |-> {"reports"}, inherits |-> {}],
           [role |-> "auditor", permissions |-> {"audit.read"},
            inherits |-> {}]}
ASSUME CatalogAssumption ==
    Compiles(Custom) /\ Roles \subseteq CatalogRoles(Custom)
Catalog == [role \in Roles |-> Compiled(Custom, role) \cap Permissions]
OneDomain == [a \in Addresses |-> n1]
Joining == [join |-> TRUE, enforce |-> FALSE, role |-> "member",
            provider |-> sp]
Policies == {NoPolicy, Joining}
Elevating == [trust |-> TRUE, default |-> "member",
              map |-> [x \in Externals |->
                         IF x = x1 THEN [role |-> "admin", priority |-> 1]
                         ELSE None]]
Flat == [trust |-> FALSE, default |-> "member",
         map |-> [x \in Externals |-> None]]
Levels == {Elevating, Flat}
Symmetric == Permutations(Requests)
=============================================================================
