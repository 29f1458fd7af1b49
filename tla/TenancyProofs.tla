---------------------------- MODULE TenancyProofs -----------------------------
(***************************************************************************)
(* Proofs about Tenancy, for any sets of accounts, workspaces, tokens and  *)
(* concurrent calls: the offices stay filled, tokens of lost standings     *)
(* stay dead, invitations and ceremonies are used once, domain claims hold *)
(* their names, and addresses lead to their owners.                        *)
(***************************************************************************)
EXTENDS TenancyCalls, TenancyEffects, FiniteSetTheorems

-----------------------------------------------------------------------------
(* The commits.                                                            *)

LEMMA Committing ==
    ASSUME Calls, NEW r \in Requests, NEW k, k = call[r], At(r, "commit")
    PROVE  Running(k) /\ Inputs(k)
<1>1. ~At(r, "idle")
  BY DEF At
<1> QED BY <1>1, Reading DEF Running

\* The operations none of the effects single out.
Plain(op) == op \notin Admitting /\ op # "DisableWorkspace" /\ op # "FinishSSO"

LEMMA PlainNames ==
    \A op \in {"CreateUser", "DisableUser", "EnableUser",
               "RevokeUserCredentials", "CreateWorkspace", "UpdateWorkspace",
               "EnableWorkspace", "AddMembership", "SuspendMembership",
               "ReactivateMembership", "RemoveMembership", "GrantRole",
               "SetInstanceRole", "RemoveInstanceRole", "InviteToWorkspace",
               "RevokeInvitation", "CreatePAT", "AuthenticatePAT", "RevokePAT",
               "SignUp", "BeginEmailAddition", "ResendEmailVerification",
               "ConfirmEmail", "SetPrimaryEmail", "RemoveEmail", "UpdateUser",
               "AnonymizeUser", "CreateWorkspaceDomain",
               "ConfirmWorkspaceDomain", "UpdateWorkspaceDomainPolicy",
               "RemoveWorkspaceDomain", "UnlinkSSO", "CreateSCIMConfiguration",
               "RotateSCIMCredential", "RevokeSCIMCredential",
               "DisableSCIMConfiguration", "AuthenticateSCIM",
               "ProvisionSCIMUser", "AdoptSCIMUser", "none"} : Plain(op)
BY DEF Plain, Admitting

AccountCommits(r) ==
    \/ CreateUserCommits(r) \/ SetUserDisabledCommits(r)
    \/ RevokeUserCredentialsCommits(r)
WorkspaceCommits(r) ==
    \/ CreateWorkspaceCommits(r) \/ UpdateWorkspaceCommits(r)
    \/ SetWorkspaceDisabledCommits(r)
RoleCommits(r) ==
    \/ AddMembershipCommits(r) \/ SetMembershipStatusCommits(r)
    \/ RemoveMembershipCommits(r) \/ GrantRoleCommits(r)
    \/ SetInstanceRoleCommits(r) \/ RemoveInstanceRoleCommits(r)
InvitationCommits(r) ==
    \/ InviteToWorkspaceCommits(r) \/ AcceptInvitationCommits(r)
    \/ RegisterFromInvitationCommits(r) \/ RevokeInvitationCommits(r)
TokenCommits(r) ==
    CreatePATCommits(r) \/ AuthenticatePATCommits(r) \/ RevokePATCommits(r)
ProfileCommits(r) ==
    \/ SignUpCommits(r) \/ BeginEmailAdditionCommits(r)
    \/ ResendEmailVerificationCommits(r) \/ ConfirmEmailCommits(r)
    \/ SetPrimaryEmailCommits(r) \/ RemoveEmailCommits(r)
    \/ UpdateUserCommits(r) \/ AnonymizeUserCommits(r)
DomainCommits(r) ==
    \/ CreateWorkspaceDomainCommits(r) \/ CreateWorkspaceDomainFails(r)
    \/ ConfirmWorkspaceDomainCommits(r) \/ UpdateWorkspaceDomainPolicyCommits(r)
    \/ RemoveWorkspaceDomainCommits(r)
SSOCommits(r) ==
    \/ FinishSSOCommits(r) \/ FinishSSOJITCommits(r) \/ FinishSSOLinkCommits(r)
    \/ UnlinkSSOCommits(r)
ConfigurationCommits(r) ==
    \/ CreateSCIMConfigurationCommits(r) \/ RotateSCIMCredentialCommits(r)
    \/ RevokeSCIMCredentialCommits(r) \/ DisableSCIMConfigurationCommits(r)
    \/ AuthenticateSCIMCommits(r)
LinkCommits(r) ==
    \/ ProvisionSCIMUserCommits(r) \/ AdoptSCIMUserCommits(r)
    \/ UpdateSCIMUserCommits(r)
GroupCommits(r) ==
    \/ UpsertSCIMGroupCommits(r) \/ DeleteSCIMGroupCommits(r)
    \/ UpdateSCIMConfigurationCommits(r)

CommitStep(r) ==
    \/ AccountCommits(r) \/ WorkspaceCommits(r) \/ RoleCommits(r)
    \/ InvitationCommits(r) \/ TokenCommits(r) \/ ProfileCommits(r)
    \/ DomainCommits(r) \/ SSOCommits(r) \/ ConfigurationCommits(r)
    \/ LinkCommits(r) \/ GroupCommits(r)

\* What a commit is, whatever it does.
LEMMA CommitsEnd ==
    ASSUME NEW r, CommitStep(r)
    PROVE  At(r, "commit") /\ Ends(r)
<1> USE DEF Commits, Returns
<1>1. CASE AccountCommits(r) \/ WorkspaceCommits(r) \/ TokenCommits(r)
  BY <1>1 DEF AccountCommits, CreateUserCommits, SetUserDisabledCommits,
     RevokeUserCredentialsCommits, WorkspaceCommits, CreateWorkspaceCommits,
     UpdateWorkspaceCommits, SetWorkspaceDisabledCommits, TokenCommits,
     CreatePATCommits, AuthenticatePATCommits, RevokePATCommits
<1>2. CASE RoleCommits(r) \/ InvitationCommits(r)
  BY <1>2 DEF RoleCommits, AddMembershipCommits, SetMembershipStatusCommits,
     RemoveMembershipCommits, GrantRoleCommits, SetInstanceRoleCommits,
     RemoveInstanceRoleCommits, InvitationCommits, InviteToWorkspaceCommits,
     AcceptInvitationCommits, RegisterFromInvitationCommits,
     RevokeInvitationCommits
<1>3. CASE ProfileCommits(r)
  BY <1>3 DEF ProfileCommits, SignUpCommits, BeginEmailAdditionCommits,
     ResendEmailVerificationCommits, ConfirmEmailCommits,
     SetPrimaryEmailCommits, RemoveEmailCommits, UpdateUserCommits,
     AnonymizeUserCommits
<1>4. CASE DomainCommits(r) \/ SSOCommits(r)
  BY <1>4 DEF DomainCommits, CreateWorkspaceDomainCommits,
     CreateWorkspaceDomainFails, ConfirmWorkspaceDomainCommits,
     UpdateWorkspaceDomainPolicyCommits, RemoveWorkspaceDomainCommits,
     SSOCommits, FinishSSOCommits, FinishSSOJITCommits, FinishSSOLinkCommits,
     UnlinkSSOCommits
<1>5. CASE ConfigurationCommits(r) \/ LinkCommits(r) \/ GroupCommits(r)
  BY <1>5 DEF ConfigurationCommits, CreateSCIMConfigurationCommits,
     RotateSCIMCredentialCommits, RevokeSCIMCredentialCommits,
     DisableSCIMConfigurationCommits, AuthenticateSCIMCommits, LinkCommits,
     ProvisionSCIMUserCommits, AdoptSCIMUserCommits, UpdateSCIMUserCommits,
     GroupCommits, UpsertSCIMGroupCommits, DeleteSCIMGroupCommits,
     UpdateSCIMConfigurationCommits
<1> QED BY <1>1, <1>2, <1>3, <1>4, <1>5 DEF CommitStep

LEMMA AccountsCommit ==
    ASSUME Tables, NEW r, NEW k, k = call[r],
           AccountCommits(r) \/ WorkspaceCommits(r)
    PROVE  Effect(k)
<1> USE PlainNames DEF Commits, Returns, clientVars, Plain
<1>1. CASE CreateUserCommits(r)
  <2>1. /\ Plain(k.op) /\ UNCHANGED principals
        /\ \E u \in Users : \E e, a, w, role :
             StoreCreateUser(u, e, a, w, role)
    BY <1>1 DEF CreateUserCommits
  <2> QED BY Zenon, <2>1, NewcomerEffects
<1>2. CASE SetUserDisabledCommits(r) \/ RevokeUserCredentialsCommits(r)
  <2>1. /\ Plain(k.op) /\ UNCHANGED principals
        /\ \E u : \/ StoreSetUserDisabled(u, "disabled")
                  \/ StoreSetUserDisabled(u, "enabled")
                  \/ StoreRevokeUserCredentials(u)
    BY <1>2 DEF SetUserDisabledCommits, RevokeUserCredentialsCommits
  <2> QED BY <2>1, StatusEffects
<1>3. CASE CreateWorkspaceCommits(r)
  <2>1. /\ Plain(k.op) /\ UNCHANGED principals
        /\ \E u, w : w \in Workspaces /\ StoreCreateWorkspace(w, u)
    BY <1>3 DEF CreateWorkspaceCommits
  <2> QED BY <2>1, MembershipEffects
<1>4. CASE UpdateWorkspaceCommits(r)
  <2>1. /\ Plain(k.op) /\ UNCHANGED principals
        /\ \E w, row : StoreUpdateWorkspace(w, row)
    BY <1>4 DEF UpdateWorkspaceCommits
  <2> QED BY <2>1, AddressEffects
<1>5. CASE SetWorkspaceDisabledCommits(r)
  <2>1. /\ k.op \notin Admitting /\ k.op # "FinishSSO" /\ UNCHANGED principals
        /\ \E w : \/ /\ k.op = "DisableWorkspace"
                     /\ StoreSetWorkspaceDisabled(w, "disabled")
                  \/ /\ k.op # "DisableWorkspace"
                     /\ StoreSetWorkspaceDisabled(w, "enabled")
    BY <1>5 DEF SetWorkspaceDisabledCommits, Admitting
  <2> QED BY <2>1, WorkspaceEffects
<1> QED BY <1>1, <1>2, <1>3, <1>4, <1>5 DEF AccountCommits, WorkspaceCommits

LEMMA RolesCommit ==
    ASSUME Tables, NEW r, NEW k, k = call[r], RoleCommits(r)
    PROVE  Effect(k)
<1> USE PlainNames DEF Commits, Returns, clientVars, Plain
<1>1. CASE \/ AddMembershipCommits(r) \/ SetMembershipStatusCommits(r)
           \/ RemoveMembershipCommits(r) \/ GrantRoleCommits(r)
  <2>1. /\ Plain(k.op) /\ UNCHANGED principals
        /\ \E w, u : \/ \E row : StoreUpsertMembership(w, u, row)
                     \/ StoreRemoveMembership(w, u)
    BY ZenonT(40), <1>1 DEF AddMembershipCommits, SetMembershipStatusCommits,
                RemoveMembershipCommits, GrantRoleCommits
  <2> QED BY <2>1, MembershipEffects
<1>2. CASE SetInstanceRoleCommits(r) \/ RemoveInstanceRoleCommits(r)
  <2>1. /\ Plain(k.op) /\ UNCHANGED principals
        /\ \E u : \/ \E role : StoreSetInstanceRole(u, role)
                  \/ StoreRemoveInstanceRole(u)
    BY <1>2 DEF SetInstanceRoleCommits, RemoveInstanceRoleCommits
  <2> QED BY <2>1, OfficeEffects
<1> QED BY <1>1, <1>2 DEF RoleCommits

LEMMA InvitationsCommit ==
    ASSUME Tables, NEW r, NEW k, k = call[r], Inputs(k),
           InvitationCommits(r) \/ TokenCommits(r)
    PROVE  Effect(k)
<1> USE PlainNames DEF Commits, Returns, clientVars, Plain
<1>1. CASE InviteToWorkspaceCommits(r) \/ RevokeInvitationCommits(r)
  <2>1. /\ Plain(k.op) /\ UNCHANGED principals
        /\ \E i, w :
             \/ \E a, role : StoreCreateWorkspaceInvitation(i, w, a, role)
             \/ StoreRevokeWorkspaceInvitation(w, i)
    BY ZenonT(40), <1>1 DEF InviteToWorkspaceCommits, RevokeInvitationCommits
  <2> QED BY <2>1, InvitationEffects
<1>2. CASE AcceptInvitationCommits(r)
  <2>1. /\ k.op = "AcceptInvitation" /\ UNCHANGED principals
        /\ \E u : StoreAcceptWorkspaceInvitation(k.id, u)
    BY <1>2 DEF AcceptInvitationCommits
  <2>2. k.id \in InvitationIDs
    BY <2>1 DEF Inputs, Aimed, Admitting
  <2> QED BY <2>1, <2>2, AcceptEffect
<1>3. CASE RegisterFromInvitationCommits(r)
  <2>1. /\ k.op = "RegisterFromInvitation" /\ UNCHANGED principals
        /\ \E u \in Users : \E e : StoreRegisterInvitedUser(k.id, u, e)
    BY <1>3 DEF RegisterFromInvitationCommits
  <2>2. k.id \in InvitationIDs
    BY <2>1 DEF Inputs, Aimed, Admitting
  <2> QED BY <2>1, <2>2, RegisterEffect
<1>4. CASE CreatePATCommits(r)
  <2>1. /\ k.op = "CreatePAT" /\ Plain(k.op) /\ UNCHANGED principals
        /\ \E p : StoreCreatePAT(p, k.actor, k.ws)
    BY <1>4 DEF CreatePATCommits
  <2>2. k.actor \in Users /\ k.ws \in Everywhere
    BY <2>1 DEF Inputs
  <2> QED BY <2>1, <2>2, TokenEffects
<1>5. CASE AuthenticatePATCommits(r)
  <2>1. /\ Plain(k.op) /\ UNCHANGED principals
        /\ \E p, row : StoreTouchPAT(p, row)
    BY <1>5 DEF AuthenticatePATCommits
  <2> QED BY <2>1, AddressEffects
<1>6. CASE RevokePATCommits(r)
  <2>1. /\ Plain(k.op) /\ UNCHANGED principals
        /\ \E p, u : StoreRevokePAT(p, u)
    BY <1>6 DEF RevokePATCommits
  <2> QED BY <2>1, TokenEffects
<1> QED BY <1>1, <1>2, <1>3, <1>4, <1>5, <1>6
        DEF InvitationCommits, TokenCommits

LEMMA ProfilesCommit ==
    ASSUME Tables, NEW r, NEW k, k = call[r], ProfileCommits(r)
    PROVE  Effect(k)
<1> USE PlainNames DEF Commits, Returns, clientVars, Plain
<1>1. CASE SignUpCommits(r)
  <2>1. /\ Plain(k.op) /\ UNCHANGED principals
        /\ \E u \in Users : \E e, a, w, st : StoreCreateSignup(u, e, a, st, w)
    BY <1>1 DEF SignUpCommits
  <2> QED BY ZenonT(40), <2>1, NewcomerEffects
<1>2. CASE \/ BeginEmailAdditionCommits(r) \/ ResendEmailVerificationCommits(r)
           \/ ConfirmEmailCommits(r) \/ RemoveEmailCommits(r)
  <2>1. /\ Plain(k.op) /\ UNCHANGED principals
        /\ \/ \E e, u, a : StoreSaveEmail(e, u, a)
           \/ \E e : StoreReissueEmailVerification(e) \/ StoreVerifyEmail(e)
           \/ \E e, u : StoreRemoveEmail(u, e)
    BY <1>2 DEF BeginEmailAdditionCommits, ResendEmailVerificationCommits,
                ConfirmEmailCommits, RemoveEmailCommits
  <2> QED BY <2>1, AddressEffects
<1>3. CASE SetPrimaryEmailCommits(r) \/ UpdateUserCommits(r)
  <2>1. /\ Plain(k.op) /\ UNCHANGED principals
        /\ \/ \E e, u : StoreSetPrimaryEmail(u, e)
           \/ \E u, row : StoreUpdateUser(u, row)
    BY <1>3 DEF SetPrimaryEmailCommits, UpdateUserCommits
  <2> QED BY <2>1, ProjectionEffects
<1>4. CASE AnonymizeUserCommits(r)
  <2>1. /\ Plain(k.op) /\ UNCHANGED principals /\ \E u : StoreAnonymizeUser(u)
    BY <1>4 DEF AnonymizeUserCommits
  <2> QED BY <2>1, AnonymizeEffect
<1> QED BY <1>1, <1>2, <1>3, <1>4 DEF ProfileCommits

LEMMA FederationCommits ==
    ASSUME Tables, NEW r, NEW k, k = call[r], Inputs(k),
           DomainCommits(r) \/ SSOCommits(r)
    PROVE  Effect(k)
<1> USE PlainNames DEF Commits, Returns, clientVars, Plain
<1>1. CASE CreateWorkspaceDomainCommits(r)
  <2>1. /\ k.op = "CreateWorkspaceDomain" /\ Plain(k.op)
        /\ UNCHANGED principals
        /\ \E d \in DomainIDs : \E w : StoreCreateWorkspaceDomain(d, w, k.id)
    BY <1>1 DEF CreateWorkspaceDomainCommits
  <2>2. k.id \in DomainNames
    BY <2>1 DEF Inputs
  <2> QED BY <2>1, <2>2, ClaimEffects
<1>2. CASE \/ CreateWorkspaceDomainFails(r) \/ ConfirmWorkspaceDomainCommits(r)
           \/ UpdateWorkspaceDomainPolicyCommits(r)
  <2>1. /\ Plain(k.op) /\ UNCHANGED principals
        /\ \/ \E n, w : StoreCreateWorkspaceDomainFails(w, n)
           \/ \E d : StoreConfirmWorkspaceDomain(d)
           \/ \E d, p : StoreUpdateWorkspaceDomainPolicy(d, p)
    BY <1>2 DEF CreateWorkspaceDomainFails, ConfirmWorkspaceDomainCommits,
                UpdateWorkspaceDomainPolicyCommits
  <2> QED BY <2>1, ClaimEffects
<1>3. CASE RemoveWorkspaceDomainCommits(r)
  <2>1. /\ k.op = "RemoveWorkspaceDomain" /\ Plain(k.op)
        /\ UNCHANGED principals /\ StoreDeleteWorkspaceDomain(k.id)
    BY <1>3 DEF RemoveWorkspaceDomainCommits
  <2>2. k.id \in DomainIDs
    BY <2>1 DEF Inputs, Aimed
  <2> QED BY <2>1, <2>2, ClaimEffects
<1>4. CASE FinishSSOCommits(r) \/ FinishSSOLinkCommits(r)
  <2>1. /\ k.op = "FinishSSO" /\ UNCHANGED principals
        /\ \/ \E i, u, p, s : StoreLinkSSO(i, u, p, s, k.ceremony)
           \/ \E i, u : StoreTouchSSO(i, u, k.ceremony)
    BY <1>4 DEF FinishSSOCommits, FinishSSOLinkCommits
  <2> QED BY <2>1, CeremonyEffects
<1>5. CASE FinishSSOJITCommits(r)
  <2>1. /\ k.op = "FinishSSO" /\ UNCHANGED principals
        /\ \E u \in Users : \E e, a, w, role, d, i, p, s :
             StoreJITProvisionSSOUser(u, e, a, w, role, d, i, p, s, k.ceremony)
    BY <1>5 DEF FinishSSOJITCommits
  <2>2. k.op \notin Admitting /\ k.op # "DisableWorkspace"
    BY <2>1 DEF Admitting
  <2> QED BY ZenonT(40), <2>1, <2>2, NewcomerEffects
<1>6. CASE UnlinkSSOCommits(r)
  <2>1. /\ Plain(k.op) /\ UNCHANGED principals /\ \E u, i : StoreUnlinkSSO(u, i)
    BY <1>6 DEF UnlinkSSOCommits
  <2> QED BY <2>1, AddressEffects
<1> QED BY <1>1, <1>2, <1>3, <1>4, <1>5, <1>6 DEF DomainCommits, SSOCommits

LEMMA ProvisioningCommits ==
    ASSUME Tables, NEW r, NEW k, k = call[r], Running(k),
           ConfigurationCommits(r) \/ LinkCommits(r) \/ GroupCommits(r)
    PROVE  Effect(k)
<1> USE PlainNames DEF Commits, Returns, clientVars, Plain
<1>0. Inputs(k) /\ Found(k)
  BY DEF Running
<1>1. CASE \/ CreateSCIMConfigurationCommits(r)
           \/ RotateSCIMCredentialCommits(r) \/ RevokeSCIMCredentialCommits(r)
           \/ DisableSCIMConfigurationCommits(r)
  <2>1. /\ Plain(k.op) /\ UNCHANGED principals
        /\ \/ k.op = "CreateSCIMConfiguration" /\
              \E c \in ConfigIDs : \E x, p :
                StoreCreateSCIMConfiguration(c, x, k.ws, p)
           \/ k.op = "RotateSCIMCredential"
              /\ \E x : StoreSaveSCIMCredential(x, k.config)
           \/ \E c, x : StoreRevokeSCIMCredential(c, x)
           \/ \E c : StoreDisableSCIMConfiguration(c)
    BY <1>1 DEF CreateSCIMConfigurationCommits, RotateSCIMCredentialCommits,
                RevokeSCIMCredentialCommits, DisableSCIMConfigurationCommits
  <2>2. /\ k.op = "CreateSCIMConfiguration" => k.ws \in Workspaces
        /\ k.op = "RotateSCIMCredential" => k.config \in ConfigIDs
    BY <1>0 DEF Inputs, Configuring
  <2> QED BY <2>1, <2>2, ConfigurationEffects
<1>2. CASE AuthenticateSCIMCommits(r)
  <2>1. /\ k.op = "AuthenticateSCIM" /\ Plain(k.op) /\ UNCHANGED storeVars
        /\ principals' = principals \cup {k.config}
    BY <1>2 DEF AuthenticateSCIMCommits
  <2>2. k.config \in ConfigIDs
    BY <1>0, <2>1 DEF Inputs, Configuring
  <2> QED BY <2>1, <2>2, ConfigurationEffects
<1>3. CASE ProvisionSCIMUserCommits(r) \/ AdoptSCIMUserCommits(r)
  <2>1. /\ Plain(k.op) /\ UNCHANGED principals
        /\ \/ \E l, c, u : u \in Users /\ \E e, a, v, row, st :
                StoreCreateSCIMUser(l, c, u, e, a, v, row, st)
           \/ k.op = "AdoptSCIMUser" /\ \E l, c, u, row, st :
                StoreAdoptSCIMUser(l, c, u, row, st)
    BY <1>3 DEF ProvisionSCIMUserCommits, AdoptSCIMUserCommits
  <2> QED BY <2>1, LinkEffects
<1>4. CASE UpdateSCIMUserCommits(r)
  <2>1. /\ k.op \in Updating /\ UNCHANGED principals
        /\ \E w, st, row : StoreUpdateSCIMUser(k.id, w, st, row,
                                               k.op = "DeprovisionSCIMUser")
    BY <1>4 DEF UpdateSCIMUserCommits, Updating
  <2>2. k.id \in LinkIDs
    BY <1>0, <2>1 DEF Inputs
  <2> QED BY <2>1, <2>2, UpdateEffect
<1>5. CASE GroupCommits(r)
  <2>1. Head(k.todo) = "commit" /\ UNCHANGED principals
    BY <1>5 DEF GroupCommits, UpsertSCIMGroupCommits, DeleteSCIMGroupCommits,
                UpdateSCIMConfigurationCommits, At
  <2>2. /\ k.op = "UpsertSCIMGroup" => GroupRow(k.to)
        /\ k.op = "UpdateSCIMConfiguration" => ConfigRow(k.cfg)
        /\ \A u \in DOMAIN k.rows : u \in Users => Exists(users, u)
    BY <1>0, <2>1 DEF Found
  <2>3. k.op = "DeleteSCIMGroup" => GroupRow(k.row)
    <3>1. k.todo \notin Unread
      BY <2>1 DEF Unread
    <3> QED BY <1>0, <3>1 DEF Found
  <2>4. \/ /\ k.op = "UpsertSCIMGroup"
           /\ StoreUpsertSCIMGroup(k.id, k.to, k.ws, k.rows)
        \/ /\ k.op = "DeleteSCIMGroup"
           /\ StoreDeleteSCIMGroup(k.id, k.row, k.ws, k.rows)
        \/ /\ k.op = "UpdateSCIMConfiguration"
           /\ StoreUpdateSCIMConfiguration(k.config,
                [k.cfg EXCEPT !.policy = k.to], k.rows)
    BY <1>5 DEF GroupCommits, UpsertSCIMGroupCommits, DeleteSCIMGroupCommits,
                UpdateSCIMConfigurationCommits
  <2> QED BY <2>1, <2>2, <2>3, <2>4, RecomputedEffects
<1> QED BY <1>1, <1>2, <1>3, <1>4, <1>5 DEF ConfigurationCommits, LinkCommits

-----------------------------------------------------------------------------
(* Every step.                                                             *)

\* An account that closes leaves the offices it holds to an enabled one.
EnabledStay ==
    /\ EnabledRoots # {} => EnabledRoots' # {} \/ Roots' # Roots
    /\ \A w \in Workspaces :
         EnabledAdmins(w) # {} =>
           \/ EnabledAdmins(w)' # {}
           \/ ActiveAdmins(w)' # ActiveAdmins(w)

LEMMA ClosingSpares ==
    ASSUME UserRows', NoneLost, AccountsStand \/ Closing
    PROVE  EnabledStay
<1>1. ASSUME NEW v \in Users, Enabled(v), users'[v].st # "disabled"
      PROVE  Enabled(v)'
  <2>1. Exists(users, v)
    BY <1>1 DEF Enabled, Exists, Absent
  <2> QED BY <1>1, <2>1 DEF NoneLost, UserRows, Enabled, Exists
<1>2. CASE AccountsStand
  <2>1. \A v \in Users : Enabled(v) => Enabled(v)'
    BY <1>1, <1>2 DEF AccountsStand
  <2> QED
    BY <2>1 DEF EnabledStay, EnabledRoots, EnabledAdmins, Roots, ActiveAdmins
<1>3. CASE Closing
  <2>1. PICK u : /\ Dispensable(u)
                 /\ \A v \in Users \ {u} : users'[v] = users[v]
    BY <1>3 DEF Closing
  <2>2. \A v \in Users \ {u} : Enabled(v) => Enabled(v)'
    BY <2>1 DEF Enabled
  <2>3. ASSUME EnabledRoots # {} PROVE EnabledRoots \ {u} # {}
    <3>1. CASE u \in Roots
      <4>1. Cardinality(EnabledRoots) > 1
        BY <2>1, <3>1 DEF Dispensable, EnabledRoots
      <4>2. EnabledRoots # {u}
        BY <4>1, FS_Singleton
      <4> QED BY <2>3, <4>2
    <3>2. CASE u \notin Roots
      BY <2>3, <3>2 DEF EnabledRoots
    <3> QED BY <3>1, <3>2
  <2>4. ASSUME NEW w \in Workspaces, EnabledAdmins(w) # {}
        PROVE  EnabledAdmins(w) \ {u} # {}
    <3>1. CASE ActiveAdmin(w, u)
      BY <2>1, <3>1 DEF Dispensable, EnabledAdmins, ActiveAdmins
    <3>2. CASE ~ActiveAdmin(w, u)
      BY <2>4, <3>2 DEF EnabledAdmins, ActiveAdmins
    <3> QED BY <3>1, <3>2
  <2>5. EnabledRoots # {} => EnabledRoots' # {} \/ Roots' # Roots
    BY <2>2, <2>3 DEF EnabledRoots, Roots
  <2>6. ASSUME NEW w \in Workspaces, EnabledAdmins(w) # {},
               ActiveAdmins(w)' = ActiveAdmins(w)
        PROVE  EnabledAdmins(w)' # {}
    <3>1. PICK v \in ActiveAdmins(w) \ {u} : Enabled(v)
      BY <2>4, <2>6 DEF EnabledAdmins
    <3>2. v \in Users \ {u}
      BY <3>1 DEF ActiveAdmins
    <3> QED BY <2>2, <2>6, <3>1, <3>2 DEF EnabledAdmins
  <2> QED BY <2>5, <2>6 DEF EnabledStay
<1> QED BY <1>2, <1>3

\* What a step of the whole keeps.
Advances ==
    /\ Sound' /\ RootsStay /\ EnabledStay
    /\ \/ AdminsStay
       \/ \E r \in Requests : Completes(r) /\ call[r].op \in Unguarded

LEMMA QuietAdvances ==
    ASSUME Sound, UNCHANGED storeVars, Sound'
    PROVE  Advances
<1>1. users' = users /\ memberships' = memberships /\ admins' = admins
  BY DEF storeVars, accountVars, tenantVars, grantVars
<1>2. RootsStay /\ AdminsStay /\ UserRows' /\ NoneLost /\ AccountsStand
  BY <1>1, LeftAlone DEF Sound
<1>3. EnabledStay
  BY <1>2, ClosingSpares
<1> QED BY <1>2, <1>3 DEF Advances

LEMMA CommitEffect ==
    ASSUME Sound, NEW r \in Requests, NEW k, k = call[r], CommitStep(r)
    PROVE  At(r, "commit") /\ Ends(r) /\ Inputs(k) /\ Effect(k)
<1>1. At(r, "commit") /\ Ends(r)
  BY CommitsEnd
<1>2. Running(k) /\ Inputs(k)
  BY <1>1, Committing DEF Sound
<1>3. Effect(k)
  BY <1>2, AccountsCommit, RolesCommit, InvitationsCommit, ProfilesCommit,
     FederationCommits, ProvisioningCommits DEF CommitStep, Sound
<1> QED BY <1>1, <1>2, <1>3

LEMMA CommitAdvances ==
    ASSUME Sound, NEW r \in Requests, CommitStep(r)
    PROVE  Advances
<1>1. PICK k : k = call[r]
  OBVIOUS
<1>2. At(r, "commit") /\ Ends(r) /\ Inputs(k) /\ Effect(k)
  BY <1>1, CommitEffect
<1>3. Sound'
  BY <1>1, <1>2, CommitHolds
<1>4. RootsStay /\ (k.op \in Unguarded \/ AdminsStay)
  BY <1>2 DEF Effect
<1>5. Completes(r)
  BY <1>2 DEF Completes, Ends
<1>6. EnabledStay
  BY <1>2, ClosingSpares DEF Effect, Rows
<1> QED BY <1>1, <1>3, <1>4, <1>5, <1>6 DEF Advances

\* Bootstrap is a call that commits at once.
LEMMA BootstrapAdvances ==
    ASSUME Sound, NEW r \in Requests, Bootstrap(r)
    PROVE  Advances
<1>1. PICK k : k = call[r]
  OBVIOUS
<1>2. /\ At(r, "idle") /\ Ends(r) /\ UNCHANGED principals
      /\ \E u \in Users : \E e, a, w : StoreBootstrap(u, e, a, w)
  BY DEF Bootstrap, Starts, Returns, clientVars
<1>3. k = Idle
  BY <1>1, <1>2, IdleSlot DEF Sound
<1>4. k.op = "none" /\ k.addr = None /\ k.ceremony = None
  BY <1>3 DEF Idle, Blank
<1>5. Inputs(k)
  BY <1>4 DEF Inputs, Aimed, Admitting, Configuring, Updating, Recomputing,
              Regrouping
<1>6. Effect(k)
  BY ZenonT(40), <1>2, <1>4, NewcomerEffects DEF Sound, Admitting
<1>7. Sound'
  BY <1>1, <1>2, <1>5, <1>6, CommitHolds
<1>8. RootsStay /\ AdminsStay
  BY <1>4, <1>6 DEF Effect, Unguarded, KeepsTokens
<1>9. EnabledStay
  BY <1>6, ClosingSpares DEF Effect, Rows
<1> QED BY <1>7, <1>8, <1>9 DEF Advances

LEMMA ClaimExpiresAdvances ==
    ASSUME Sound, ClaimExpires
    PROVE  Advances
<1> USE DEF accountVars, tenantVars, grantVars, scimVars, groupVars,
            clientVars, historyVars
<1>1. UNCHANGED <<users, memberships, admins, pats, invitations, configs,
                  credentials, links, groups, principals, domainNames, spent,
                  admitted, finished, ended, call>>
  BY DEF ClaimExpires
<1>2. DomainRows'
  <2>1. PICK d \in DomainIDs : /\ domains[d].st = "fresh"
                               /\ domains' = [domains EXCEPT ![d].st = "stale"]
    BY Zenon DEF ClaimExpires
  <2>2. Exists(domains, d)
    BY <2>1 DEF Exists, Absent
  <2> QED BY Zenon, <1>1, <2>1, <2>2, ClaimUpdated DEF Sound, Tables
<1>3. UserRows' /\ NoneLost /\ AccountsStand
  BY <1>1, LeftAlone DEF Sound
<1>8. EnabledStay
  BY <1>3, ClosingSpares
<1>4. /\ MemberRows' /\ AdminsStay /\ AdminRows' /\ RootsStay /\ LinkRows'
      /\ ConfigRows' /\ GroupRows'
  BY <1>1, <1>3, LeftAlone DEF Sound
<1>5. TokenRows'
  BY <1>1 DEF Sound, Tables, TokenRows
<1>6. Uses'
  BY <1>1 DEF Sound, Tables, Uses, Exists
<1>7. Calls'
  <2>1. \A m : Running(m) => Running(m)'
    BY <1>1 DEF Running, Inputs, Aimed, Found, Exists
  <2> QED BY <1>1, <2>1 DEF Sound, Calls
<1> QED BY <1>2, <1>3, <1>4, <1>5, <1>6, <1>7, <1>8 DEF Advances, Sound, Tables

\* A step of a call changes no table, or commits.
LEMMA StepKinds ==
    ASSUME NEW r, Steps(r)
    PROVE  QuietStep(r) \/ CommitStep(r) \/ Bootstrap(r)
<1>1. CASE Checks(r) \/ Lookups(r) \/ Refused(r)
  BY <1>1 DEF QuietStep, GovernanceLooks
<1>2. CASE AccountSteps(r)
  BY <1>2 DEF AccountSteps, QuietStep, GovernanceBegins, CommitStep,
              AccountCommits
<1>3. CASE WorkspaceSteps(r)
  BY <1>3 DEF WorkspaceSteps, QuietStep, GovernanceBegins, CommitStep,
              WorkspaceCommits
<1>4. CASE RoleSteps(r)
  BY <1>4 DEF RoleSteps, QuietStep, GovernanceBegins, GovernanceLooks,
              CommitStep, RoleCommits
<1>5. CASE InvitationSteps(r)
  BY <1>5 DEF InvitationSteps, QuietStep, InvitesOrTokens,
              GovernanceLooks, CommitStep, InvitationCommits
<1>6. CASE TokenSteps(r)
  BY <1>6 DEF TokenSteps, QuietStep, InvitesOrTokens, GovernanceLooks,
              CommitStep, TokenCommits
<1>7. CASE ProfileSteps(r)
  BY <1>7 DEF ProfileSteps, QuietStep, ProfileBegins, FederationLooks,
              CommitStep, ProfileCommits
<1>8. CASE DomainSteps(r)
  BY <1>8 DEF DomainSteps, QuietStep, FederationBegins, FederationLooks,
              CommitStep, DomainCommits
<1>9. CASE SSOSteps(r)
  BY <1>9 DEF SSOSteps, QuietStep, FederationBegins, FederationLooks,
              CommitStep, SSOCommits
<1>10. CASE ConfigurationSteps(r)
  BY <1>10 DEF ConfigurationSteps, QuietStep, ProvisioningBegins,
               ProvisioningLooks, CommitStep, ConfigurationCommits
<1>11. CASE LinkSteps(r)
  BY <1>11 DEF LinkSteps, QuietStep, ProvisioningBegins,
               ProvisioningLooks, CommitStep, LinkCommits
<1>12. CASE GroupSteps(r)
  BY <1>12 DEF GroupSteps, QuietStep, ProvisioningBegins,
               ProvisioningLooks, CommitStep, GroupCommits
<1> QED BY <1>1, <1>2, <1>3, <1>4, <1>5, <1>6, <1>7, <1>8, <1>9,
           <1>10, <1>11, <1>12 DEF Steps

LEMMA StepAdvances ==
    ASSUME Sound, [Next]_vars
    PROVE  Advances
<1>1. CASE UNCHANGED vars
  <2>1. UNCHANGED <<storeVars, principals, historyVars, call>>
    BY <1>1 DEF vars, clientVars
  <2>2. Tables'
    BY <2>1, QuietTables DEF Sound
  <2>3. users' = users /\ call' = call
    BY <2>1 DEF storeVars, accountVars
  <2>4. Calls'
    <3>1. \A m : Running(m) => Running(m)'
      BY <2>3 DEF Running, Inputs, Aimed, Found, Exists
    <3> QED BY <2>3, <3>1 DEF Sound, Calls
  <2> QED BY <2>1, <2>2, <2>4, QuietAdvances DEF Sound
<1>2. CASE ClaimExpires
  BY <1>2, ClaimExpiresAdvances
<1>3. ASSUME NEW r \in Requests, Steps(r)
      PROVE  Advances
  <2>1. QuietStep(r) \/ CommitStep(r) \/ Bootstrap(r)
    BY <1>3, StepKinds
  <2>2. CASE QuietStep(r)
    BY <2>2, QuietStepsHold, QuietAdvances DEF Quiet
  <2> QED BY <2>1, <2>2, CommitAdvances, BootstrapAdvances
<1> QED BY <1>1, <1>2, <1>3 DEF Next

-----------------------------------------------------------------------------
(* The states a behaviour starts from.                                     *)

LEMMA AccountsAtStart ==
    ASSUME Init
    PROVE  /\ UserRows /\ MemberRows /\ AdminRows
           /\ invitations = [i \in InvitationIDs |-> Absent]
           /\ pats = [p \in PATIDs |-> Absent]
           /\ "Bootstrap" \notin mix => Exists(users, Founder)
           /\ "Bootstrap" \notin mix /\ mix \cap Solitary = {} =>
                Exists(users, Second)
<1> DEFINE source == IF mix \cap Directed # {} THEN HomeConfig ELSE "local"
           row == IF mix \cap Recruiting # {} THEN Absent
                  ELSE [Local("member", "active") EXCEPT !.source = source]
<1>1. IF "Bootstrap" \in mix THEN AccountsInit
      ELSE /\ Housed
           /\ IF mix \cap Solitary # {} THEN Bootstrapped(source)
              ELSE Staffed(row)
  BY DEF Init
<1> HIDE DEF source, row
<1>2. \A a : /\ DOMAIN Person(a) = {"st", "email", "password"}
             /\ Person(a).st = "enabled" /\ Person(a) # Absent
  BY DEF Person, Absent
<1>3. CASE "Bootstrap" \in mix
  BY <1>1, <1>3 DEF AccountsInit, UserRows, MemberRows, AdminRows, Exists
<1>4. CASE mix \cap Solitary # {} /\ Housed /\ Bootstrapped(source)
  <2>1. UserRows /\ Exists(users, Founder)
    BY <1>2, <1>4, StaffAssumption DEF Bootstrapped, UserRows, Exists
  <2>2. \A w \in Workspaces, u \in Users :
          memberships[w][u] # Absent => u = Founder
    BY <1>4 DEF Bootstrapped
  <2>3. MemberRows
    BY <1>4, <2>1, <2>2 DEF Bootstrapped, MemberRows
  <2>4. AdminRows /\ invitations = [i \in InvitationIDs |-> Absent]
        /\ pats = [p \in PATIDs |-> Absent]
    BY <1>4 DEF Housed, AdminRows
  <2> QED BY <1>4, <2>1, <2>3, <2>4
<1>5. CASE Housed /\ Staffed(row)
  <2>1. UserRows /\ Exists(users, Founder) /\ Exists(users, Second)
    <3>1. users = [u \in Users |-> CASE u = Founder -> Person(FounderAddress)
                                     [] u = Second -> Person(SecondAddress)
                                     [] OTHER -> Absent]
      BY <1>5 DEF Staffed
    <3> QED BY <1>2, <3>1, StaffAssumption DEF UserRows, Exists
  <2>2. \A w \in Workspaces, u \in Users :
          memberships[w][u] # Absent => u \in {Founder, Second}
    BY <1>5 DEF Staffed
  <2>3. MemberRows
    BY <1>5, <2>1, <2>2 DEF Staffed, MemberRows
  <2>4. AdminRows /\ invitations = [i \in InvitationIDs |-> Absent]
        /\ pats = [p \in PATIDs |-> Absent]
    BY <1>5 DEF Housed, AdminRows
  <2> QED BY <2>1, <2>3, <2>4
<1> QED BY <1>1, <1>3, <1>4, <1>5

LEMMA DirectoryAtStart ==
    ASSUME Init
    PROVE  LinkRows /\ ConfigRows /\ GroupRows
<1>0. /\ "Bootstrap" \notin mix => Exists(users, Founder)
      /\ "Bootstrap" \notin mix /\ mix \cap Solitary = {} =>
           Exists(users, Second)
  BY AccountsAtStart
<1>1. \/ ProvisioningInit /\ principals = {}
      \/ /\ mix \cap Directed # {} /\ principals = {HomeConfig}
         /\ \/ mix \cap Solitary # {} /\ Connected(Founder)
            \/ mix \cap Solitary = {} /\ Connected(Second)
  BY DEF Init
<1>2. CASE ProvisioningInit /\ principals = {}
  BY <1>2 DEF ProvisioningInit, LinkRows, ConfigRows, GroupRows, Exists
<1>3. CASE mix \cap Directed # {} /\ principals = {HomeConfig}
  <2>1. PICK u : Connected(u) /\ Exists(users, u)
    <3>1. "Bootstrap" \notin mix
      BY <1>3, MixAssumption DEF Init
    <3>2. mix \cap Directed # {} => ~(principals = {})
      BY <1>3
    <3> QED BY <1>0, <1>1, <1>3, <3>1, <3>2
  <2> DEFINE conf == [st |-> "enabled", ws |-> Home, policy |-> HomeRoles]
             cred == [st |-> "live", config |-> HomeConfig]
             link == [st |-> "active", user |-> u, config |-> HomeConfig]
  <2>2. /\ ConfigRow(conf)
        /\ DOMAIN cred = {"st", "config"} /\ cred.config \in ConfigIDs
        /\ DOMAIN link = {"st", "user", "config"} /\ link.user = u
    BY StaffAssumption DEF ConfigRow
  <2>3. /\ configs = [c \in ConfigIDs |-> IF c = HomeConfig THEN conf
                                          ELSE Absent]
        /\ credentials = [k \in CredentialIDs |-> IF k = HomeKey THEN cred
                                                  ELSE Absent]
        /\ links = [l \in LinkIDs |-> IF l = HomeLink THEN link ELSE Absent]
        /\ groups = [g \in GroupIDs |-> Absent]
    BY <2>1 DEF Connected
  <2> HIDE DEF conf, cred, link
  <2>4. LinkRows
    BY <2>1, <2>2, <2>3 DEF LinkRows, Exists
  <2>5. ConfigRows
    BY <1>3, <2>2, <2>3, StaffAssumption DEF ConfigRows, Exists
  <2>6. GroupRows
    BY <2>3 DEF GroupRows, Exists
  <2> QED BY <2>4, <2>5, <2>6
<1> QED BY <1>1, <1>2, <1>3

LEMMA DomainsAtStart ==
    ASSUME Init
    PROVE  DomainRows /\ spent = {}
<1>1. FederationInit \/ Federated
  BY DEF Init
<1>2. CASE FederationInit
  BY <1>2 DEF FederationInit, DomainRows, Exists
<1>3. CASE Federated
  <2> DEFINE name == DomainOf[FounderAddress]
             row == [st |-> "confirmed", ws |-> Home, name |-> name,
                     policy |-> HomePolicy]
  <2>1. name \in DomainNames
    BY StaffAssumption, DirectoryIDs
  <2>2. DOMAIN row = {"st", "ws", "name", "policy"} /\ row.name = name
    OBVIOUS
  <2>3. /\ domains = [d \in DomainIDs |-> IF d = HomeDomain THEN row
                                          ELSE Absent]
        /\ domainNames = [n \in DomainNames |-> IF n = name THEN HomeDomain
                                                ELSE None]
        /\ spent = {}
    BY <1>3 DEF Federated
  <2> HIDE DEF name, row
  <2> QED BY <2>1, <2>2, <2>3 DEF DomainRows, Exists
<1> QED BY <1>1, <1>2, <1>3

LEMMA SoundInitially == Init => Sound
<1> SUFFICES ASSUME Init PROVE Sound
  OBVIOUS
<1>1. /\ UserRows /\ MemberRows /\ AdminRows
      /\ invitations = [i \in InvitationIDs |-> Absent]
      /\ pats = [p \in PATIDs |-> Absent]
  BY AccountsAtStart
<1>2. /\ ended = {} /\ admitted = [i \in InvitationIDs |-> 0]
      /\ finished = [c \in Ceremonies |-> 0]
      /\ call = [r \in Requests |-> Idle]
  BY DEF Init
<1>3. TokenRows
  BY <1>1, <1>2 DEF TokenRows
<1>4. Absent.st # "accepted"
  BY DEF Absent
<1>5. Uses
  BY <1>1, <1>2, <1>4, DomainsAtStart DEF Uses, Exists
<1>6. Calls
  BY <1>2 DEF Calls
<1> QED BY <1>1, <1>3, <1>5, <1>6, DirectoryAtStart, DomainsAtStart
        DEF Sound, Tables

-----------------------------------------------------------------------------
(* The address records.                                                    *)

LEMMA MailIsSound == Mail => AddressesAreSound
<1> SUFFICES ASSUME Mail PROVE AddressesAreSound
  OBVIOUS
<1>1. \A e, f \in EmailIDs :
        Exists(emails, e) /\ Exists(emails, f) /\ e # f =>
          emails[e].addr # emails[f].addr
  BY DEF Mail, OneRecordEach
<1>2. ASSUME NEW a \in Addresses
      PROVE  {emails[e].user : e \in {e \in EmailIDs :
                 emails[e].st = "verified" /\ emails[e].addr = a}}
               = IF index[a] = None THEN {} ELSE {index[a]}
  <2>1. \A e \in EmailIDs :
          emails[e].st = "verified" /\ emails[e].addr = a =>
            emails[e].user \in Users /\ emails[e].user = index[a]
    <3> TAKE e \in EmailIDs
    <3> HAVE emails[e].st = "verified" /\ emails[e].addr = a
    <3>1. Exists(emails, e)
      BY DEF Exists, Absent
    <3>2. emails[e].user \in Users
      BY <3>1 DEF Mail, MailRows, MailRow
    <3> QED BY <3>1, <3>2 DEF Mail, Lookup, Leads
  <2>2. index[a] # None => \E e \in EmailIDs :
          /\ emails[e].st = "verified" /\ emails[e].addr = a
          /\ emails[e].user = index[a]
    BY DEF Mail, Lookup, Leads
  <2> QED BY <2>1, <2>2, DirectoryIDs
<1>3. ASSUME NEW u \in Registered
      PROVE  \E e \in EmailIDs :
               {f \in EmailIDs : /\ Exists(emails, f) /\ emails[f].user = u
                                /\ emails[f].primary} = {e}
  <2>1. PICK e \in EmailIDs :
          IsPrimary(e, u) /\ \A f \in EmailIDs : IsPrimary(f, u) => f = e
    BY DEF Mail, Primaries, OnePrimary, Registered
  <2>2. \A f \in EmailIDs :
          Exists(emails, f) => emails[f].primary \in BOOLEAN
    BY DEF Mail, MailRows, MailRow
  <2>3. {f \in EmailIDs : /\ Exists(emails, f) /\ emails[f].user = u
                          /\ emails[f].primary} = {e}
    BY <2>1, <2>2 DEF IsPrimary
  <2> QED BY <2>3
<1> QED BY <1>1, <1>2, <1>3 DEF AddressesAreSound

-----------------------------------------------------------------------------
(* The records after a commit.                                             *)

LEMMA InvitedStill ==
    ASSUME Mail, invitations' = invitations
    PROVE  Invited'
BY DEF Mail, Invited, Exists

LEMMA AccountsStill ==
    ASSUME users' = users
    PROVE  SameAccounts
BY DEF SameAccounts, Exists

\* A transaction on other tables.
LEMMA MailElsewhere ==
    ASSUME Mail, UNCHANGED <<accountVars, invitations>>
    PROVE  Mail'
BY MailUntouched, InvitedStill, AccountsStill DEF accountVars

LEMMA WorkspacesMail ==
    ASSUME Mail, NEW r, WorkspaceCommits(r) \/ RoleCommits(r) \/ TokenCommits(r)
    PROVE  Mail'
<1> USE DEF grantVars, storeVars
<1>1. CASE WorkspaceCommits(r)
  BY <1>1, MailElsewhere
     DEF WorkspaceCommits, CreateWorkspaceCommits, StoreCreateWorkspace,
         UpdateWorkspaceCommits, StoreUpdateWorkspace,
         SetWorkspaceDisabledCommits, StoreSetWorkspaceDisabled
<1>2. CASE RoleCommits(r)
  BY ZenonT(40), <1>2, MailElsewhere
     DEF RoleCommits, AddMembershipCommits, SetMembershipStatusCommits,
         RemoveMembershipCommits, GrantRoleCommits, SetInstanceRoleCommits,
         RemoveInstanceRoleCommits, StoreUpsertMembership,
         StoreRemoveMembership, StoreSetInstanceRole, StoreRemoveInstanceRole
<1>3. CASE TokenCommits(r)
  BY <1>3, MailElsewhere
     DEF TokenCommits, CreatePATCommits, AuthenticatePATCommits,
         RevokePATCommits, StoreCreatePAT, StoreTouchPAT, StoreRevokePAT
<1> QED BY <1>1, <1>2, <1>3

LEMMA DirectoryMail ==
    ASSUME Mail, NEW r,
           \/ DomainCommits(r) \/ ConfigurationCommits(r) \/ GroupCommits(r)
           \/ FinishSSOCommits(r) \/ FinishSSOLinkCommits(r)
           \/ UnlinkSSOCommits(r) \/ AdoptSCIMUserCommits(r)
           \/ UpdateSCIMUserCommits(r)
    PROVE  Mail'
<1> USE DEF grantVars, storeVars
<1>1. CASE DomainCommits(r)
  BY ZenonT(40), <1>1, MailElsewhere
     DEF DomainCommits, CreateWorkspaceDomainCommits,
         CreateWorkspaceDomainFails, ConfirmWorkspaceDomainCommits,
         UpdateWorkspaceDomainPolicyCommits, RemoveWorkspaceDomainCommits,
         StoreCreateWorkspaceDomain, StoreCreateWorkspaceDomainFails,
         StoreConfirmWorkspaceDomain, StoreUpdateWorkspaceDomainPolicy,
         StoreDeleteWorkspaceDomain
<1>2. CASE ConfigurationCommits(r)
  BY <1>2, MailElsewhere
     DEF ConfigurationCommits, CreateSCIMConfigurationCommits,
         RotateSCIMCredentialCommits, RevokeSCIMCredentialCommits,
         DisableSCIMConfigurationCommits, AuthenticateSCIMCommits,
         StoreCreateSCIMConfiguration, StoreSaveSCIMCredential,
         StoreRevokeSCIMCredential, StoreDisableSCIMConfiguration
<1>3. CASE GroupCommits(r)
  BY ZenonT(40), <1>3, MailElsewhere
     DEF GroupCommits, UpsertSCIMGroupCommits, DeleteSCIMGroupCommits,
         UpdateSCIMConfigurationCommits, StoreUpsertSCIMGroup,
         StoreDeleteSCIMGroup, StoreUpdateSCIMConfiguration
<1>4. CASE \/ FinishSSOCommits(r) \/ FinishSSOLinkCommits(r)
           \/ UnlinkSSOCommits(r)
  BY ZenonT(40), <1>4, MailElsewhere
     DEF FinishSSOCommits, FinishSSOLinkCommits, UnlinkSSOCommits,
         StoreTouchSSO, StoreLinkSSO, StoreUnlinkSSO
<1>5. CASE AdoptSCIMUserCommits(r) \/ UpdateSCIMUserCommits(r)
  BY ZenonT(40), <1>5, MailElsewhere
     DEF AdoptSCIMUserCommits, UpdateSCIMUserCommits, StoreAdoptSCIMUser,
         StoreUpdateSCIMUser
<1> QED BY <1>1, <1>2, <1>3, <1>4, <1>5

\* An address a call was given or found.
LEMMA CallAddress ==
    ASSUME NEW k, Inputs(k), k.op \notin Admitting
    PROVE  k.addr \in Addresses \cup {None}
BY DEF Inputs, Aimed

\* Accounts are created by an administrator, by sign-up, by an identity
\* provider and by a directory.
LEMMA NewcomersMail ==
    ASSUME Tables, Mail, NEW r, NEW k, k = call[r], Inputs(k),
           \/ CreateUserCommits(r) \/ SignUpCommits(r)
           \/ FinishSSOJITCommits(r) \/ ProvisionSCIMUserCommits(r)
    PROVE  Mail'
<1> USE DEF Commits, grantVars
<1>1. CASE CreateUserCommits(r)
  <2>1. PICK u \in Users, e \in EmailIDs, a \in Addresses :
          NewAccount(u, e, a, "verified", TRUE) /\ invitations' = invitations
    BY Zenon, <1>1 DEF CreateUserCommits, StoreCreateUser
  <2> QED BY ZenonT(40), <2>1, MailAdded, InvitedStill
<1>2. CASE SignUpCommits(r)
  <2>1. k.addr \in Addresses \cup {None}
    BY Zenon, <1>2, CallAddress DEF SignUpCommits, Admitting
  <2>2. PICK u \in Users, e \in EmailIDs, st \in {"pending", "verified"} :
          NewAccount(u, e, k.addr, st, TRUE) /\ invitations' = invitations
    BY ZenonT(40), <1>2 DEF SignUpCommits, StoreCreateSignup
  <2> QED BY ZenonT(40), <2>1, <2>2, MailAdded, InvitedStill
<1>3. CASE FinishSSOJITCommits(r)
  <2>1. k.addr \in Addresses \cup {None}
    BY Zenon, <1>3, CallAddress DEF FinishSSOJITCommits, Admitting
  <2>2. PICK u \in Users, e \in EmailIDs :
          /\ NewAccount(u, e, k.addr, "verified", FALSE)
          /\ invitations' = invitations
    BY ZenonT(40), <1>3 DEF FinishSSOJITCommits, StoreJITProvisionSSOUser
  <2> QED BY ZenonT(40), <2>1, <2>2, MailAdded, InvitedStill
<1>4. CASE ProvisionSCIMUserCommits(r)
  <2>1. k.addr \in Addresses \cup {None}
    BY Zenon, <1>4, CallAddress DEF ProvisionSCIMUserCommits, Admitting
  <2>2. PICK u \in Users, e \in EmailIDs :
          /\ NewAccount(u, e, k.addr, IF k.cfg.policy.trust THEN "verified"
                                      ELSE "pending", FALSE)
          /\ invitations' = invitations
    BY ZenonT(40), <1>4 DEF ProvisionSCIMUserCommits, StoreCreateSCIMUser
  <2>3. PICK st \in {"pending", "verified"} :
          st = IF k.cfg.policy.trust THEN "verified" ELSE "pending"
    OBVIOUS
  <2>4. NewAccount(u, e, k.addr, st, FALSE)
    BY ZenonT(40), <2>2, <2>3
  <2> QED BY ZenonT(40), <2>1, <2>2, <2>4, MailAdded, InvitedStill
<1> QED BY <1>1, <1>2, <1>3, <1>4

LEMMA InvitationsMail ==
    ASSUME Tables, Mail, NEW r, NEW k, k = call[r], Inputs(k),
           InvitationCommits(r)
    PROVE  Mail'
<1> USE DEF Commits
<1>0. /\ invitations = [i \in InvitationIDs |-> invitations[i]]
      /\ \A i \in InvitationIDs : Exists(invitations, i) =>
           /\ DOMAIN invitations[i] = {"st", "ws", "addr", "role", "user"}
           /\ invitations[i].addr \in Addresses \cup {None}
  BY DEF Tables, Uses, Mail, Invited
<1>1. CASE InviteToWorkspaceCommits(r)
  <2>1. k.addr \in Addresses \cup {None}
    BY <1>1, CallAddress DEF InviteToWorkspaceCommits, Admitting
  <2>2. PICK i \in InvitationIDs :
          StoreCreateWorkspaceInvitation(i, k.ws, k.addr, k.role)
    BY <1>1 DEF InviteToWorkspaceCommits
  <2> DEFINE m == [st |-> "pending", ws |-> k.ws, addr |-> k.addr,
                   role |-> k.role, user |-> None]
  <2>3. m.addr = k.addr
    OBVIOUS
  <2>4. invitations' = [invitations EXCEPT ![i] = m] /\ UNCHANGED accountVars
    BY <2>2 DEF StoreCreateWorkspaceInvitation
  <2> HIDE DEF m
  <2>5. Invited'
    BY <1>0, <2>1, <2>3, <2>4 DEF Invited, Exists
  <2> QED BY <2>4, <2>5, MailUntouched, AccountsStill DEF accountVars
<1>2. CASE AcceptInvitationCommits(r) \/ RevokeInvitationCommits(r)
  <2>1. PICK i : /\ invitations[i].st = "pending" /\ UNCHANGED accountVars
                 /\ \/ \E u : Accepted(i, u)
                    \/ invitations' = [invitations EXCEPT ![i].st = "revoked"]
    BY <1>2 DEF AcceptInvitationCommits, StoreAcceptWorkspaceInvitation,
                RevokeInvitationCommits, StoreRevokeWorkspaceInvitation
  <2>2. Exists(invitations, i)
    BY <2>1 DEF Exists, Absent
  <2>3. Invited'
    BY <1>0, <2>1, <2>2 DEF Invited, Accepted, Exists
  <2> QED BY <2>1, <2>3, MailUntouched, AccountsStill DEF accountVars
<1>3. CASE RegisterFromInvitationCommits(r)
  <2>1. PICK u \in Users, e \in EmailIDs : StoreRegisterInvitedUser(k.id, u, e)
    BY <1>3 DEF RegisterFromInvitationCommits
  <2>2. k.id \in InvitationIDs
    BY <1>3 DEF RegisterFromInvitationCommits, Inputs, Aimed, Admitting
  <2>3. PICK a : a = invitations[k.id].addr
    BY ZenonT(40)
  <2>4. /\ invitations[k.id].st = "pending" /\ Accepted(k.id, u)
        /\ NewAccount(u, e, a, "verified", TRUE)
    BY ZenonT(40), <2>1, <2>3 DEF StoreRegisterInvitedUser
  <2>5. Exists(invitations, k.id)
    BY Zenon, <2>4, PendingExists
  <2>6. a \in Addresses \cup {None}
    BY <1>0, <2>2, <2>3, <2>5
  <2>7. Invited'
    BY <1>0, <2>2, <2>4, <2>5 DEF Invited, Accepted, Exists
  <2> QED BY ZenonT(40), <2>4, <2>6, <2>7, MailAdded
<1> QED BY <1>1, <1>2, <1>3 DEF InvitationCommits

LEMMA AccountsMail ==
    ASSUME Tables, Mail, NoneLost, NEW r, NEW k, k = call[r], Inputs(k),
           \/ SetUserDisabledCommits(r) \/ RevokeUserCredentialsCommits(r)
           \/ UpdateUserCommits(r) \/ AnonymizeUserCommits(r)
    PROVE  Mail'
<1> USE DEF grantVars
<1>1. CASE RevokeUserCredentialsCommits(r)
  BY <1>1, MailElsewhere
     DEF RevokeUserCredentialsCommits, StoreRevokeUserCredentials
<1>2. CASE SetUserDisabledCommits(r) \/ UpdateUserCommits(r)
  <2>1. PICK u :
          /\ Exists(users, u) /\ UNCHANGED <<emails, index, invitations>>
          /\ \/ \E x : users' = [users EXCEPT ![u].st = x]
             \/ \E x : users' = [users EXCEPT ![u].email = x]
    BY <1>2 DEF SetUserDisabledCommits, StoreSetUserDisabled,
                UpdateUserCommits, StoreUpdateUser
  <2>2. \A v \in Users : v # u => users'[v] = users[v]
    BY <2>1 DEF Tables, UserRows
  <2> QED BY <2>1, <2>2, AccountsKept, MailUntouched, InvitedStill
<1>3. CASE AnonymizeUserCommits(r)
  <2>1. PICK u : StoreAnonymizeUser(u)
    BY <1>3 DEF AnonymizeUserCommits
  <2>2. Exists(users, u) /\ \A v \in Users : v # u => users'[v] = users[v]
    BY <2>1 DEF StoreAnonymizeUser, Tables, UserRows
  <2>3. \A i \in InvitationIDs : invitations'[i] \in
          {invitations[i], [invitations[i] EXCEPT !.addr = None]}
    BY <2>1 DEF StoreAnonymizeUser
  <2>4. \A i \in InvitationIDs :
          invitations[i] = Absent => invitations'[i] = Absent
    BY <2>1 DEF StoreAnonymizeUser, Exists
  <2>5. \A i \in InvitationIDs : Exists(invitations, i) =>
          /\ DOMAIN invitations[i] = {"st", "ws", "addr", "role", "user"}
          /\ invitations[i].addr \in Addresses \cup {None}
    BY DEF Tables, Uses, Mail, Invited
  <2>6. Invited'
    BY <2>3, <2>4, <2>5 DEF Invited, Exists
  <2> QED BY ZenonT(40), <2>1, <2>2, <2>6, AccountsKept, MailTombstoned
<1> QED BY <1>1, <1>2, <1>3

LEMMA RecordsMail ==
    ASSUME Tables, Mail, NoneLost, NEW r, NEW k, k = call[r], Inputs(k),
           \/ BeginEmailAdditionCommits(r) \/ ResendEmailVerificationCommits(r)
           \/ ConfirmEmailCommits(r) \/ SetPrimaryEmailCommits(r)
           \/ RemoveEmailCommits(r)
    PROVE  Mail'
<1> USE DEF Commits, grantVars
<1>1. CASE BeginEmailAdditionCommits(r)
  <2>1. k.addr \in Addresses \cup {None}
    BY ZenonT(40), <1>1, CallAddress DEF BeginEmailAdditionCommits, Admitting
  <2>2. PICK e \in EmailIDs : StoreSaveEmail(e, k.actor, k.addr)
    BY ZenonT(40), <1>1 DEF BeginEmailAdditionCommits
  <2>3. users' = users /\ invitations' = invitations
    BY <2>2 DEF StoreSaveEmail
  <2> QED BY <2>1, <2>2, <2>3, MailSaved, InvitedStill, AccountsStill
<1>2. CASE ResendEmailVerificationCommits(r)
  <2>1. StoreReissueEmailVerification(k.id)
    BY ZenonT(40), <1>2 DEF ResendEmailVerificationCommits
  <2>2. users' = users /\ invitations' = invitations
    BY <2>1 DEF StoreReissueEmailVerification
  <2> QED BY <2>1, <2>2, MailReissued, InvitedStill, AccountsStill
<1>3. CASE ConfirmEmailCommits(r)
  <2>1. StoreVerifyEmail(k.id) /\ k.id \in EmailIDs
    BY ZenonT(40), <1>3 DEF ConfirmEmailCommits, Inputs, Aimed
  <2>2. users' = users /\ invitations' = invitations
    BY <2>1 DEF StoreVerifyEmail
  <2> QED BY <2>1, <2>2, MailVerified, InvitedStill, AccountsStill
<1>4. CASE SetPrimaryEmailCommits(r)
  <2>1. StoreSetPrimaryEmail(k.actor, k.id) /\ k.id \in EmailIDs
    BY ZenonT(40), <1>4 DEF SetPrimaryEmailCommits, Inputs, Aimed
  <2>2. Exists(emails, k.id) /\ emails[k.id].user = k.actor
    BY <2>1 DEF StoreSetPrimaryEmail, Exists, Absent
  <2>3. Exists(users, k.actor)
    BY <2>1, <2>2 DEF Mail, MailRows
  <2>4. /\ invitations' = invitations
        /\ \A v \in Users : v # k.actor => users'[v] = users[v]
    BY <2>1 DEF StoreSetPrimaryEmail, Tables, UserRows
  <2>5. SameAccounts
    BY <2>3, <2>4, AccountsKept
  <2> QED BY ZenonT(40), <2>1, <2>4, <2>5, MailPrimary, InvitedStill
<1>5. CASE RemoveEmailCommits(r)
  <2>1. StoreRemoveEmail(k.actor, k.id) /\ k.id \in EmailIDs
    BY ZenonT(40), <1>5 DEF RemoveEmailCommits, Inputs, Aimed
  <2>2. users' = users /\ invitations' = invitations
    BY ZenonT(40), <2>1 DEF StoreRemoveEmail
  <2> QED BY <2>1, <2>2, MailRemoved, InvitedStill, AccountsStill
<1> QED BY <1>1, <1>2, <1>3, <1>4, <1>5

LEMMA CommitMail ==
    ASSUME Sound, Mail, NEW r \in Requests, CommitStep(r)
    PROVE  Mail'
<1>1. PICK k : k = call[r]
  OBVIOUS
<1>2. Inputs(k) /\ NoneLost /\ Tables
  BY <1>1, CommitEffect DEF Effect, Sound
<1>3. CASE \/ WorkspaceCommits(r) \/ RoleCommits(r) \/ TokenCommits(r)
           \/ DomainCommits(r) \/ ConfigurationCommits(r) \/ GroupCommits(r)
  BY <1>3, WorkspacesMail, DirectoryMail
<1>4. CASE AccountCommits(r) \/ ProfileCommits(r)
  BY <1>1, <1>2, <1>4, NewcomersMail, AccountsMail, RecordsMail
     DEF AccountCommits, ProfileCommits
<1>5. CASE InvitationCommits(r)
  BY <1>1, <1>2, <1>5, InvitationsMail
<1>6. CASE SSOCommits(r) \/ LinkCommits(r)
  BY <1>1, <1>2, <1>6, NewcomersMail, DirectoryMail
     DEF SSOCommits, LinkCommits
<1> QED BY <1>3, <1>4, <1>5, <1>6 DEF CommitStep

LEMMA StepMail ==
    ASSUME Sound, Mail, [Next]_vars
    PROVE  Mail'
<1> USE DEF storeVars, grantVars
<1>1. CASE UNCHANGED vars
  BY <1>1, MailElsewhere DEF vars
<1>2. CASE ClaimExpires
  BY <1>2, MailElsewhere DEF ClaimExpires
<1>3. ASSUME NEW r \in Requests, Steps(r)
      PROVE  Mail'
  <2>1. CASE QuietStep(r)
    <3>1. UNCHANGED storeVars
      BY <2>1, QuietStepsHold DEF Quiet
    <3> QED BY <3>1, MailElsewhere
  <2>2. CASE CommitStep(r)
    BY <2>2, CommitMail
  <2>3. CASE Bootstrap(r)
    <3>1. PICK u \in Users, e \in EmailIDs, a \in Addresses :
            NewAccount(u, e, a, "verified", TRUE) /\ invitations' = invitations
      BY Zenon, <2>3 DEF Bootstrap, StoreBootstrap
    <3> QED BY Zenon, <3>1, MailAdded, InvitedStill DEF Sound
  <2> QED BY <1>3, <2>1, <2>2, <2>3, StepKinds
<1> QED BY <1>1, <1>2, <1>3 DEF Next

LEMMA MailInitially == Init => Mail
<1> SUFFICES ASSUME Init PROVE Mail
  OBVIOUS
<1>1. Invited
  <2>1. invitations = [i \in InvitationIDs |-> Absent]
    BY AccountsAtStart
  <2> QED BY <2>1 DEF Invited, Exists
<1>2. \/ AccountsInit
      \/ \E source : Bootstrapped(source)
      \/ \E row : Staffed(row)
  BY DEF Init
<1>3. \A u, a : /\ DOMAIN Mailbox(u, a) =
                     {"st", "user", "addr", "primary", "code"}
                /\ Mailbox(u, a).st = "verified" /\ Mailbox(u, a).user = u
                /\ Mailbox(u, a).addr = a /\ Mailbox(u, a).primary = TRUE
                /\ Mailbox(u, a) # Absent /\ Person(a) # Absent
  BY DEF Mailbox, Person, Absent
<1>4. CASE AccountsInit
  <2>1. \A e \in EmailIDs : ~Exists(emails, e)
    BY <1>4 DEF AccountsInit, Exists
  <2>2. \A u \in Users : ~Exists(users, u)
    BY <1>4 DEF AccountsInit, Exists
  <2>3. Lookup
    BY <1>4, <2>1 DEF AccountsInit, Lookup, Leads, Address
  <2>4. emails = [e \in EmailIDs |-> emails[e]]
    BY <1>4 DEF AccountsInit
  <2> QED BY <1>1, <2>1, <2>2, <2>3, <2>4
          DEF Mail, MailRows, OneRecordEach, Primaries
<1>5. ASSUME NEW source, Bootstrapped(source)
      PROVE  Mail
  <2>1. PICK m : m = Mailbox(Founder, FounderAddress)
    OBVIOUS
  <2>2. /\ emails = [e \in EmailIDs |-> emails[e]]
        /\ \A e \in EmailIDs : emails[e] = IF e = FounderMail THEN m ELSE Absent
        /\ index = [a \in Address |-> index[a]]
        /\ \A a \in Addresses :
             index[a] = IF a = FounderAddress THEN Founder ELSE None
        /\ \A u \in Users : Exists(users, u) <=> u = Founder
    BY <1>3, <1>5, <2>1 DEF Bootstrapped, Address, Exists
  <2>3. MailRow(FounderMail, m) /\ m # Absent
    <3>1. /\ DOMAIN m = {"st", "user", "addr", "primary", "code"}
          /\ m.st = "verified" /\ m.user = Founder /\ m.addr = FounderAddress
          /\ m.primary = TRUE /\ m # Absent
      BY <1>3, <2>1
    <3> QED BY ZenonT(40), <3>1, StaffAssumption DEF MailRow
  <2>4. MailRows /\ OneRecordEach
    BY <1>3, <2>1, <2>2, <2>3, StaffAssumption
       DEF MailRows, OneRecordEach, Exists
  <2>5. \A e \in EmailIDs : \A a, u : Leads(e, a, u) <=>
          e = FounderMail /\ a = FounderAddress /\ u = Founder
    BY <1>3, <2>1, <2>2 DEF Leads, Exists
  <2>6. Lookup
    BY <2>2, <2>5, StaffAssumption DEF Lookup
  <2>7. \A e \in EmailIDs : \A u : IsPrimary(e, u) <=>
          e = FounderMail /\ u = Founder
    BY <1>3, <2>1, <2>2 DEF IsPrimary, Exists
  <2>8. Primaries
    BY <2>2, <2>7, StaffAssumption DEF Primaries, OnePrimary
  <2> QED BY <1>1, <2>4, <2>6, <2>8 DEF Mail
<1>6. ASSUME NEW row, Staffed(row)
      PROVE  Mail
  <2>1. PICK m, n : /\ m = Mailbox(Founder, FounderAddress)
                    /\ n = Mailbox(Second, SecondAddress)
    OBVIOUS
  <2>2. /\ emails = [e \in EmailIDs |-> emails[e]]
        /\ \A e \in EmailIDs : emails[e] = IF e = FounderMail THEN m
                                           ELSE IF e = SecondMail THEN n
                                           ELSE Absent
    BY <1>6, <2>1, StaffAssumption DEF Staffed
  <2>3. /\ index = [a \in Address |-> index[a]]
        /\ \A a \in Addresses :
             index[a] = IF a = FounderAddress THEN Founder
                        ELSE IF a = SecondAddress THEN Second ELSE None
    BY <1>6, StaffAssumption DEF Staffed, Address
  <2>4. \A u \in Users : Exists(users, u) <=> u \in {Founder, Second}
    BY <1>3, <1>6, StaffAssumption DEF Staffed, Exists
  <2>5. /\ MailRow(FounderMail, m) /\ MailRow(SecondMail, n)
        /\ m # Absent /\ n # Absent
        /\ m.user = Founder /\ m.addr = FounderAddress /\ m.st = "verified"
        /\ n.user = Second /\ n.addr = SecondAddress /\ n.st = "verified"
        /\ m.primary = TRUE /\ n.primary = TRUE
    <3>1. /\ DOMAIN m = {"st", "user", "addr", "primary", "code"}
          /\ m.st = "verified" /\ m.user = Founder /\ m.addr = FounderAddress
          /\ m.primary = TRUE /\ m # Absent
      BY <1>3, <2>1
    <3>2. /\ DOMAIN n = {"st", "user", "addr", "primary", "code"}
          /\ n.st = "verified" /\ n.user = Second /\ n.addr = SecondAddress
          /\ n.primary = TRUE /\ n # Absent
      BY <1>3, <2>1
    <3>3. MailRow(FounderMail, m) /\ MailRow(SecondMail, n)
      BY ZenonT(40), <3>1, <3>2, StaffAssumption DEF MailRow
    <3> QED BY <3>1, <3>2, <3>3
  <2>6. MailRows /\ OneRecordEach
    BY <2>2, <2>4, <2>5, StaffAssumption DEF MailRows, OneRecordEach, Exists
  <2>7. \A e \in EmailIDs : \A a, u : Leads(e, a, u) <=>
          \/ e = FounderMail /\ a = FounderAddress /\ u = Founder
          \/ e = SecondMail /\ a = SecondAddress /\ u = Second
    BY <2>2, <2>5, StaffAssumption DEF Leads, Exists
  <2>8. Lookup
    BY <2>3, <2>7, StaffAssumption DEF Lookup
  <2>9. \A e \in EmailIDs : \A u : IsPrimary(e, u) <=>
          \/ e = FounderMail /\ u = Founder
          \/ e = SecondMail /\ u = Second
    BY <2>2, <2>5, StaffAssumption DEF IsPrimary, Exists
  <2>10. Primaries
    BY <2>4, <2>9, StaffAssumption DEF Primaries, OnePrimary
  <2> QED BY <1>1, <2>6, <2>8, <2>10 DEF Mail
<1> QED BY <1>2, <1>4, <1>5, <1>6

-----------------------------------------------------------------------------
(* The theorems.                                                           *)

\* Every reachable state: rows that refer to what exists, and calls in
\* flight whose inputs and reads their commits can rely on.
THEOREM AlwaysSound == Spec => []Sound
<1>1. Sound /\ [Next]_vars => Sound'
  BY StepAdvances DEF Advances
<1> QED BY <1>1, SoundInitially, PTL DEF Spec

\* SetInstanceRole, RemoveInstanceRole, SetUserDisabled and AnonymizeUser: an
\* instance that has a root administrator keeps one, whatever roots withdraw
\* each other's role, and closing accounts leaves an enabled one.
THEOREM RootRemainsHolds == Spec => RootRemains
<1>1. Sound /\ [Next]_vars =>
        [/\ Roots # {} => Roots' # {}
         /\ EnabledRoots # {} => EnabledRoots' # {} \/ Roots' # Roots]_vars
  BY StepAdvances DEF Advances, RootsStay, EnabledStay
<1> QED BY <1>1, AlwaysSound, PTL DEF Spec, RootRemains

\* UpsertMembership, RemoveMembership, SetUserDisabled and AnonymizeUser: a
\* workspace that has an active admin keeps one, except through the commits
\* that do not ask, and closing accounts leaves it an enabled one.
THEOREM AdminsRemainHolds == Spec => AdminsRemain
<1>1. Sound /\ [Next]_vars =>
        [\A w \in Workspaces :
           /\ ActiveAdmins(w) # {} =>
                \/ ActiveAdmins(w)' # {}
                \/ \E r \in Requests : /\ Completes(r)
                                       /\ call[r].op \in Unguarded
           /\ EnabledAdmins(w) # {} =>
                \/ EnabledAdmins(w)' # {}
                \/ ActiveAdmins(w)' # ActiveAdmins(w)]_vars
  BY StepAdvances DEF Advances, AdminsStay, EnabledStay
<1> QED BY <1>1, AlwaysSound, PTL DEF Spec, AdminsRemain

\* revokeUserCredentialsLocked and StoreTouchPAT: a token whose owner lost
\* the standing it was issued under stays revoked for good.
THEOREM EndedTokensStayDeadHolds == Spec => []EndedTokensStayDead
<1>1. Sound => EndedTokensStayDead
  BY DEF Sound, Tables, TokenRows, EndedTokensStayDead
<1> QED BY <1>1, AlwaysSound, PTL

\* AcceptWorkspaceInvitation, RegisterInvitedUser and the ceremony a commit
\* consumes: invitations and SSO ceremonies succeed once at most.
THEOREM SingleUseHolds == Spec => []SingleUse
<1>1. Sound => SingleUse
  BY DEF Sound, Tables, Uses, SingleUse
<1> QED BY <1>1, AlwaysSound, PTL

\* CreateWorkspaceDomain, ConfirmWorkspaceDomain and DeleteWorkspaceDomain:
\* a claim in the table is the one its name leads to.
THEOREM ClaimsHoldTheirNamesHolds == Spec => []ClaimsHoldTheirNames
<1>1. Sound => ClaimsHoldTheirNames
  BY DEF Sound, Tables, DomainRows, ClaimsHoldTheirNames, Claimed
<1> QED BY <1>1, AlwaysSound, PTL

\* SaveEmail, VerifyEmail, SetPrimaryEmail, RemoveEmail, AnonymizeUser and
\* whatever creates an account: no two records share an address, the
\* sign-in lookup leads exactly to the owners of verified records, and an
\* account has one primary address.
THEOREM AddressesAreSoundHolds == Spec => []AddressesAreSound
<1>1. Sound /\ Mail /\ [Next]_vars => Mail'
  BY StepMail
<1>2. Mail => AddressesAreSound
  BY MailIsSound
<1> QED BY <1>1, <1>2, MailInitially, AlwaysSound, PTL DEF Spec
=============================================================================
