------------------------------ MODULE Governance ------------------------------
(***************************************************************************)
(* The Manager's tenant and instance administration: workspaces,           *)
(* memberships, workspace and instance roles, invitations, account status  *)
(* and personal access tokens, with any number of calls in flight.         *)
(***************************************************************************)
EXTENDS Directory

-----------------------------------------------------------------------------
(* Accounts.                                                               *)

\* No actor and no read: the store refuses once an account exists.
Bootstrap(r) ==
    /\ Starts(r, "Bootstrap")
    /\ \E u \in Users, e \in EmailIDs, a \in Addresses, w \in Workspaces :
         StoreBootstrap(u, e, a, w)
    /\ Returns(r)

CreateUser(r) ==
    /\ Starts(r, "CreateUser")
    /\ \E a \in Registered, w \in Tenants, role \in Roles :
         Begins(r, [Blank EXCEPT !.op = "CreateUser", !.actor = a, !.ws = w,
                                 !.role = role], May("users.write"))

CreateUserCommits(r) ==
    /\ Commits(r, "CreateUser")
    /\ \E u \in Users, e \in EmailIDs, a \in Addresses :
         StoreCreateUser(u, e, a, call[r].ws, call[r].role)
    /\ Returns(r)

\* DisableUser and EnableUser.
SetUserDisabled(r) ==
    \E op \in {"DisableUser", "EnableUser"} :
      /\ Starts(r, op)
      /\ \E a \in Registered, u \in Registered :
           Begins(r, [Blank EXCEPT !.op = op, !.actor = a, !.user = u],
                  MayAdminister("admin.users.write") \o <<"target">>)

\* An account already in the state asked for is left alone.
SetUserDisabledCommits(r) ==
    /\ \/ Commits(r, "DisableUser") /\ call[r].row.st = "enabled"
          /\ StoreSetUserDisabled(call[r].user, "disabled")
       \/ Commits(r, "EnableUser") /\ call[r].row.st = "disabled"
          /\ StoreSetUserDisabled(call[r].user, "enabled")
    /\ Returns(r)

\* One's own credentials, or anyone's as an administrator.
RevokeUserCredentials(r) ==
    /\ Starts(r, "RevokeUserCredentials")
    /\ \E a \in Registered, u \in Registered :
         Begins(r, [Blank EXCEPT !.op = "RevokeUserCredentials", !.actor = a,
                                 !.user = u],
                IF u = a THEN <<>> ELSE MayAdminister("admin.users.write"))

RevokeUserCredentialsCommits(r) ==
    /\ Commits(r, "RevokeUserCredentials")
    /\ StoreRevokeUserCredentials(call[r].user)
    /\ Returns(r)

AccountSteps(r) ==
    \/ Bootstrap(r) \/ CreateUser(r) \/ CreateUserCommits(r)
    \/ SetUserDisabled(r) \/ SetUserDisabledCommits(r)
    \/ RevokeUserCredentials(r) \/ RevokeUserCredentialsCommits(r)

-----------------------------------------------------------------------------
(* Workspaces.                                                             *)

CreateWorkspace(r) ==
    /\ Starts(r, "CreateWorkspace")
    /\ \E a \in Registered :
         Begins(r, [Blank EXCEPT !.op = "CreateWorkspace", !.actor = a],
                <<"user">>)

CreateWorkspaceCommits(r) ==
    /\ Commits(r, "CreateWorkspace")
    /\ \E w \in Workspaces : StoreCreateWorkspace(w, call[r].actor)
    /\ Returns(r)

\* The tenant's own entry point and the administrative one.
SettingsOf(adm) == IF adm THEN MayAdminister("admin.workspaces.write")
                   ELSE May("settings.write")

\* UpdateWorkspace and AdminUpdateWorkspace.
UpdateWorkspace(r) ==
    /\ Starts(r, "UpdateWorkspace")
    /\ \E a \in Registered, w \in Tenants, adm \in BOOLEAN :
         Begins(r, [Blank EXCEPT !.op = "UpdateWorkspace", !.actor = a,
                                 !.ws = w],
                SettingsOf(adm) \o <<"record">>)

\* The record read is written back with its new name.
UpdateWorkspaceCommits(r) ==
    /\ Commits(r, "UpdateWorkspace")
    /\ StoreUpdateWorkspace(call[r].ws, call[r].row)
    /\ Returns(r)

\* DisableWorkspace, EnableWorkspace and their administrative variants.
SetWorkspaceDisabled(r) ==
    \E op \in {"DisableWorkspace", "EnableWorkspace"} :
      /\ Starts(r, op)
      /\ \E a \in Registered, w \in Tenants, adm \in BOOLEAN :
           Begins(r, [Blank EXCEPT !.op = op, !.actor = a, !.ws = w],
                  SettingsOf(adm) \o <<"record">>)

\* A workspace already in the state asked for is left alone.
SetWorkspaceDisabledCommits(r) ==
    /\ \/ Commits(r, "DisableWorkspace") /\ call[r].row.st = "enabled"
          /\ StoreSetWorkspaceDisabled(call[r].ws, "disabled")
       \/ Commits(r, "EnableWorkspace") /\ call[r].row.st = "disabled"
          /\ StoreSetWorkspaceDisabled(call[r].ws, "enabled")
    /\ Returns(r)

WorkspaceSteps(r) ==
    \/ CreateWorkspace(r) \/ CreateWorkspaceCommits(r)
    \/ UpdateWorkspace(r) \/ UpdateWorkspaceCommits(r)
    \/ SetWorkspaceDisabled(r) \/ SetWorkspaceDisabledCommits(r)

-----------------------------------------------------------------------------
(* Memberships and roles.                                                  *)

\* Granting a membership takes two permissions, each checked in full.
AddMembership(r) ==
    /\ Starts(r, "AddMembership")
    /\ \E a \in Registered, w \in Tenants, u \in Registered, role \in Roles :
         Begins(r, [Blank EXCEPT !.op = "AddMembership", !.actor = a, !.ws = w,
                                 !.user = u, !.role = role],
                May("users.write") \o May("rbac.write")
                \o <<"target", "free">>)

AddMembershipCommits(r) ==
    /\ Commits(r, "AddMembership")
    /\ StoreUpsertMembership(call[r].ws, call[r].user,
                             Local(call[r].role, "active"))
    /\ Returns(r)

\* The role written back is the one of the first lookup; authorization and
\* lookups are then made again.
SetMembershipStatus(r) ==
    \E op \in {"SuspendMembership", "ReactivateMembership"} :
      /\ Starts(r, op)
      /\ \E a \in Registered, w \in Tenants, u \in Registered :
           Begins(r, [Blank EXCEPT !.op = op, !.actor = a, !.ws = w,
                                   !.user = u],
                  May("users.write") \o <<"role">> \o May("users.write")
                  \o <<"target", "local">>)

ReadsRole(r) ==
    /\ At(r, "role")
    /\ LET row == memberships[call[r].ws][call[r].user] IN
       /\ row # Absent
       /\ Continues(r, [call[r] EXCEPT !.role = row.role])

SetMembershipStatusCommits(r) ==
    /\ \/ Commits(r, "SuspendMembership") /\ call[r].row # Absent
          /\ StoreUpsertMembership(call[r].ws, call[r].user,
                                   Local(call[r].role, "suspended"))
       \/ Commits(r, "ReactivateMembership") /\ call[r].row # Absent
          /\ StoreUpsertMembership(call[r].ws, call[r].user,
                                   Local(call[r].role, "active"))
    /\ Returns(r)

RemoveMembership(r) ==
    /\ Starts(r, "RemoveMembership")
    /\ \E a \in Registered, w \in Tenants, u \in Registered :
         Begins(r, [Blank EXCEPT !.op = "RemoveMembership", !.actor = a,
                                 !.ws = w, !.user = u],
                May("users.write") \o <<"local">>)

RemoveMembershipCommits(r) ==
    /\ Commits(r, "RemoveMembership") /\ call[r].row # Absent
    /\ StoreRemoveMembership(call[r].ws, call[r].user)
    /\ Returns(r)

GrantRole(r) ==
    /\ Starts(r, "GrantRole")
    /\ \E a \in Registered, w \in Tenants, u \in Registered, role \in Roles :
         Begins(r, [Blank EXCEPT !.op = "GrantRole", !.actor = a, !.ws = w,
                                 !.user = u, !.role = role],
                May("rbac.write") \o <<"target", "local">>)

\* The status is the one read, active when there was no membership.
GrantRoleCommits(r) ==
    /\ Commits(r, "GrantRole")
    /\ StoreUpsertMembership(call[r].ws, call[r].user,
         Local(call[r].role, IF call[r].row = Absent THEN "active"
                             ELSE call[r].row.st))
    /\ Returns(r)

\* Nobody changes their own role to less, or withdraws it.
SetInstanceRole(r) ==
    /\ Starts(r, "SetInstanceRole")
    /\ \E a \in Registered, u \in Registered, role \in InstanceRoles :
         /\ u = a => role = "root"
         /\ Begins(r, [Blank EXCEPT !.op = "SetInstanceRole", !.actor = a,
                                    !.user = u, !.role = role],
                   MayAdminister("admin.instance_roles.write") \o <<"target">>)

SetInstanceRoleCommits(r) ==
    /\ Commits(r, "SetInstanceRole")
    /\ StoreSetInstanceRole(call[r].user, call[r].role)
    /\ Returns(r)

RemoveInstanceRole(r) ==
    /\ Starts(r, "RemoveInstanceRole")
    /\ \E a \in Registered : \E u \in Registered \ {a} :
         Begins(r, [Blank EXCEPT !.op = "RemoveInstanceRole", !.actor = a,
                                 !.user = u],
                MayAdminister("admin.instance_roles.write"))

RemoveInstanceRoleCommits(r) ==
    /\ Commits(r, "RemoveInstanceRole")
    /\ StoreRemoveInstanceRole(call[r].user)
    /\ Returns(r)

RoleSteps(r) ==
    \/ AddMembership(r) \/ AddMembershipCommits(r)
    \/ SetMembershipStatus(r) \/ ReadsRole(r) \/ SetMembershipStatusCommits(r)
    \/ RemoveMembership(r) \/ RemoveMembershipCommits(r)
    \/ GrantRole(r) \/ GrantRoleCommits(r)
    \/ SetInstanceRole(r) \/ SetInstanceRoleCommits(r)
    \/ RemoveInstanceRole(r) \/ RemoveInstanceRoleCommits(r)

-----------------------------------------------------------------------------
(* Invitations.                                                            *)

InviteToWorkspace(r) ==
    /\ Starts(r, "InviteToWorkspace")
    /\ \E a \in Registered, w \in Tenants, addr \in Addresses, role \in Roles :
         Begins(r, [Blank EXCEPT !.op = "InviteToWorkspace", !.actor = a,
                                 !.ws = w, !.addr = addr, !.role = role],
                May("users.write") \o <<"invitee", "free", "pending">>)

\* UserByEmail: nobody's address needs no look at a membership.
ReadsInvitee(r) ==
    /\ At(r, "invitee")
    /\ LET u == index[call[r].addr] IN
       Continues(r, [call[r] EXCEPT !.user = u,
                       !.todo = IF u = None
                                THEN <<"invitee", "pending", "commit">>
                                ELSE @])

ReadsPending(r) ==
    /\ At(r, "pending")
    /\ ~Pending(call[r].ws, call[r].addr)
    /\ Passes(r)

InviteToWorkspaceCommits(r) ==
    /\ Commits(r, "InviteToWorkspace")
    /\ \E i \in InvitationIDs :
         StoreCreateWorkspaceInvitation(i, call[r].ws, call[r].addr,
                                        call[r].role)
    /\ Returns(r)

Issued == {i \in InvitationIDs : Exists(invitations, i)}

\* usableInvitation is the two reads "invitation" and "workspace".
AcceptInvitation(r) ==
    /\ Starts(r, "AcceptInvitation")
    /\ \E a \in Registered, i \in Issued :
         Begins(r, [Blank EXCEPT !.op = "AcceptInvitation", !.actor = a,
                                 !.user = a, !.id = i],
                <<"invitation", "workspace", "owned", "free">>)

ReadsInvitation(r) ==
    /\ At(r, "invitation")
    /\ LET row == invitations[call[r].id] IN
       /\ row.st = "pending"
       /\ Continues(r, [call[r] EXCEPT !.ws = row.ws, !.addr = row.addr])

\* ownsVerifiedEmail.
ReadsOwned(r) ==
    /\ At(r, "owned")
    /\ \E e \in EmailIDs : /\ emails[e].st = "verified"
                           /\ emails[e].user = call[r].actor
                           /\ emails[e].addr = call[r].addr
    /\ Passes(r)

AcceptInvitationCommits(r) ==
    /\ Commits(r, "AcceptInvitation")
    /\ StoreAcceptWorkspaceInvitation(call[r].id, call[r].actor)
    /\ Returns(r)

RegisterFromInvitation(r) ==
    /\ Starts(r, "RegisterFromInvitation")
    /\ \E i \in Issued :
         Begins(r, [Blank EXCEPT !.op = "RegisterFromInvitation", !.id = i],
                <<"invitation", "workspace", "domain policy", "unclaimed">>)

RegisterFromInvitationCommits(r) ==
    /\ Commits(r, "RegisterFromInvitation")
    /\ \E u \in Users, e \in EmailIDs :
         StoreRegisterInvitedUser(call[r].id, u, e)
    /\ Returns(r)

RevokeInvitation(r) ==
    /\ Starts(r, "RevokeInvitation")
    /\ \E a \in Registered, i \in Issued :
         Begins(r, [Blank EXCEPT !.op = "RevokeInvitation", !.actor = a,
                                 !.id = i, !.ws = invitations[i].ws],
                May("users.write"))

RevokeInvitationCommits(r) ==
    /\ Commits(r, "RevokeInvitation")
    /\ StoreRevokeWorkspaceInvitation(call[r].ws, call[r].id)
    /\ Returns(r)

InvitationSteps(r) ==
    \/ InviteToWorkspace(r) \/ ReadsInvitee(r) \/ ReadsPending(r)
    \/ InviteToWorkspaceCommits(r)
    \/ AcceptInvitation(r) \/ ReadsInvitation(r) \/ ReadsOwned(r)
    \/ AcceptInvitationCommits(r)
    \/ RegisterFromInvitation(r) \/ RegisterFromInvitationCommits(r)
    \/ RevokeInvitation(r) \/ RevokeInvitationCommits(r)

-----------------------------------------------------------------------------
(* Personal access tokens.                                                 *)

\* Access is asked only for the workspace a token is bound to.
Access(w) == IF w = None THEN <<>> ELSE May("access")

CreatePAT(r) ==
    /\ Starts(r, "CreatePAT")
    /\ \E a \in Registered, w \in Tenants \cup {None} :
         Begins(r, [Blank EXCEPT !.op = "CreatePAT", !.actor = a, !.ws = w],
                Access(w))

CreatePATCommits(r) ==
    /\ Commits(r, "CreatePAT")
    /\ \E p \in PATIDs : StoreCreatePAT(p, call[r].actor, call[r].ws)
    /\ Returns(r)

AuthenticatePAT(r) ==
    /\ Starts(r, "AuthenticatePAT")
    /\ \E p \in Minted :
         Begins(r, [Blank EXCEPT !.op = "AuthenticatePAT", !.id = p],
                <<"token">>)

\* PATByPrefix; the owner is then read, and for a bound token its access.
ReadsToken(r) ==
    /\ At(r, "token")
    /\ LET row == pats[call[r].id] IN
       /\ row.st = "live"
       /\ Continues(r, [call[r] EXCEPT !.row = row, !.actor = row.user,
                          !.ws = row.ws,
                          !.todo = <<"token", "user">> \o Access(row.ws)
                                   \o <<"commit">>])

\* The token answers.  Within the touch interval nothing is written; nor
\* does the touch change what is modelled.
AuthenticatePATCommits(r) ==
    /\ Commits(r, "AuthenticatePAT")
    /\ StoreTouchPAT(call[r].id, call[r].row)
    /\ Returns(r)

RevokePAT(r) ==
    /\ Starts(r, "RevokePAT")
    /\ \E p \in Minted :
         Begins(r, [Blank EXCEPT !.op = "RevokePAT", !.actor = pats[p].user,
                                 !.id = p, !.user = pats[p].user], <<>>)

\* The token must be bound to the workspace whose permission is held.
RevokeWorkspacePAT(r) ==
    /\ Starts(r, "RevokePAT")
    /\ \E a \in Registered, p \in Minted :
         /\ pats[p].ws # None
         /\ Begins(r, [Blank EXCEPT !.op = "RevokePAT", !.actor = a,
                                    !.ws = pats[p].ws, !.id = p,
                                    !.user = pats[p].user],
                   May("credentials.manage"))

RevokePATCommits(r) ==
    /\ Commits(r, "RevokePAT")
    /\ StoreRevokePAT(call[r].id, call[r].user)
    /\ Returns(r)

TokenSteps(r) ==
    \/ CreatePAT(r) \/ CreatePATCommits(r)
    \/ AuthenticatePAT(r) \/ ReadsToken(r) \/ AuthenticatePATCommits(r)
    \/ RevokePAT(r) \/ RevokeWorkspacePAT(r) \/ RevokePATCommits(r)
=============================================================================
