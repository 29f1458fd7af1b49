------------------------------- MODULE PgTenancy ------------------------------
(***************************************************************************)
(* Statements of the PostgreSQL store on offices, memberships,             *)
(* invitations, domains and linked identities.                             *)
(***************************************************************************)
EXTENDS PgFactors

-----------------------------------------------------------------------------
(* Offices.                                                                *)

\* The singleton row of the instance.
ClaimBootstrap(t) ==
    /\ Runs(t, "ClaimBootstrap")
    /\ Inserts(t, <<"instance", 0>>, [st |-> "claimed"])

LockRootAdministrators(t) ==
    /\ Runs(t, "LockRootAdministrators")
    /\ Updates(t, In(t, Rows(t, "admins"), "role", "root"), Same)

IsRoot(t) == In(t, Own(t, "admins"), "role", "root") # {}

\* Disabling looks at the enabled roots, changing a role at all of them.
GetInstanceAdministrator(t) ==
    /\ Runs(t, "GetInstanceAdministrator")
    /\ Selects(t, tx[t].op = "RemoveInstanceRole" => Own(t, "admins") # {},
               CASE \/ ~IsRoot(t)
                    \/ tx[t].op = "SetInstanceRole" /\ Arg(t).val = "root"
                      -> <<>>
                 [] IsRoot(t) /\ tx[t].op \in {"SetUserDisabled",
                                             "AnonymizeUser"}
                      -> Do(<<"CountEnabledRootAdministrators">>)
                 [] OTHER -> Do(<<"CountRootAdministrators">>))

CountRootAdministrators(t) ==
    /\ Runs(t, "CountRootAdministrators")
    /\ Selects(t, Cardinality(In(t, Rows(t, "admins"), "role", "root")) > 1,
               <<>>)

Enabled(t, u) == ~View(t, <<"users", u>>).disabled

CountEnabledRootAdministrators(t) ==
    /\ Runs(t, "CountEnabledRootAdministrators")
    /\ Selects(t, Cardinality({k \in In(t, Rows(t, "admins"), "role", "root") :
                                 Enabled(t, View(t, k).user)}) > 1, <<>>)

UpsertInstanceAdministrator(t) ==
    LET row == [user |-> Arg(t).user,
                role |-> IF tx[t].op = "Bootstrap" THEN "root"
                         ELSE Arg(t).val]
    IN  /\ Runs(t, "UpsertInstanceAdministrator")
        /\ Upserts(t, <<"admins", Arg(t).user>>, row, LAMBDA r : row, <<>>)

DeleteInstanceAdministrator(t) ==
    /\ Runs(t, "DeleteInstanceAdministrator")
    /\ UpdatesOne(t, Own(t, "admins"), Gone)

-----------------------------------------------------------------------------
(* Workspaces and memberships.                                             *)

Administers(row) == row.role = "admin" /\ row.st = "active"

\* The enabled accounts that administer the workspace.
Administrators(t, w) ==
    {k \in In(t, Rows(t, "memberships"), "ws", w) :
       Administers(View(t, k)) /\ Enabled(t, View(t, k).user)}

InsertWorkspace(t) ==
    /\ Runs(t, "InsertWorkspace")
    /\ Inserts(t, <<"workspaces", Arg(t).ws>>, [disabled |-> FALSE])

GetWorkspace(t) ==
    /\ Runs(t, "GetWorkspace")
    /\ Selects(t, The(t, "workspaces", Arg(t).ws) # {}, <<>>)

SetWorkspaceDisabled(t) ==
    /\ Runs(t, "SetWorkspaceDisabled")
    /\ UpdatesOne(t, The(t, "workspaces", Arg(t).ws),
                  LAMBDA r : [r EXCEPT !.disabled = Arg(t).val])

\* Bug: the workspaces are read without their locks.
ReadsAdminWorkspaces(t) ==
    /\ Runs(t, "LockUserAdminWorkspaces")
    /\ Selects(t, TRUE, <<>>)

LockUserAdminWorkspaces(t) ==
    /\ Runs(t, "LockUserAdminWorkspaces")
    /\ Updates(t, {<<"workspaces", View(t, k).ws>> :
                     k \in {k \in Own(t, "memberships") :
                              Administers(View(t, k))}}, Same)

CountWorkspacesOrphanedByUserDisable(t) ==
    /\ Runs(t, "CountWorkspacesOrphanedByUserDisable")
    /\ Selects(t, \A k \in Own(t, "memberships") :
                    Administers(View(t, k))
                    => Administrators(t, View(t, k).ws) \ {k} # {}, <<>>)

LockWorkspace(t) ==
    /\ Runs(t, "LockWorkspace")
    /\ UpdatesOne(t, The(t, "workspaces", Arg(t).ws), Same)

Membership(t) == <<"memberships", <<Arg(t).ws, Arg(t).user>>>>

\* Whether the change takes the office away decides if it is counted.
GetMembership(t) ==
    LET row == View(t, Membership(t))
    IN  /\ Runs(t, "GetMembership")
        /\ Selects(t, tx[t].op = "RemoveMembership" => row # Absent,
                   IF row # Absent /\ Administers(row)
                      /\ ~(tx[t].op = "UpsertMembership"
                           /\ Administers(Arg(t).val))
                   THEN Do(<<"CountActiveWorkspaceAdministrators">>)
                   ELSE <<>>)

CountActiveWorkspaceAdministrators(t) ==
    /\ Runs(t, "CountActiveWorkspaceAdministrators")
    /\ Selects(t, Cardinality(Administrators(t, Arg(t).ws)) > 1, <<>>)

UpsertMembership(t) ==
    LET row == [user |-> Arg(t).user, ws |-> Arg(t).ws,
                role |-> Arg(t).val.role, st |-> Arg(t).val.st]
    IN  /\ Runs(t, "UpsertMembership")
        /\ Upserts(t, Membership(t), row, LAMBDA r : row, <<>>)

DeleteMembership(t) ==
    /\ Runs(t, "DeleteMembership")
    /\ UpdatesOne(t, Rows(t, "memberships") \cap {Membership(t)}, Gone)

-----------------------------------------------------------------------------
(* Invitations, domains and linked identities.                             *)

\* workspace_invitations_pending_idx admits one pending invitation an
\* address and workspace.
InsertWorkspaceInvitation(t) ==
    LET k == <<"invitations", Arg(t).id>>
    IN  /\ Runs(t, "InsertWorkspaceInvitation")
        /\ Unique(t, k, LAMBDA r : /\ r.ws = Arg(t).ws
                                   /\ r.addr = Arg(t).val
                                   /\ r.st = "open")
        /\ Inserts(t, k, [ws |-> Arg(t).ws, addr |-> Arg(t).val,
                          st |-> "open", by |-> None])

AcceptWorkspaceInvitation(t) ==
    /\ Runs(t, "AcceptWorkspaceInvitation")
    /\ UpdatesOne(t, In(t, The(t, "invitations", Arg(t).id), "st", "open"),
                  LAMBDA r : Stamped(t, r, "used"))

RevokeWorkspaceInvitation(t) ==
    /\ Runs(t, "RevokeWorkspaceInvitation")
    /\ UpdatesOne(t, In(t, In(t, The(t, "invitations", Arg(t).id),
                              "ws", Arg(t).ws), "st", "open"),
                  LAMBDA r : Stamped(t, r, "revoked"))

\* Only a claim that is stale and unconfirmed yields to a new one.
DeleteStaleWorkspaceDomainClaim(t) ==
    /\ Runs(t, "DeleteStaleWorkspaceDomainClaim")
    /\ Updates(t, In(t, In(t, Rows(t, "domains"), "name", Arg(t).val),
                     "st", "stale"), Gone)

InsertWorkspaceDomain(t) ==
    LET k == <<"domains", Arg(t).id>>
    IN  /\ Runs(t, "InsertWorkspaceDomain")
        /\ Unique(t, k, LAMBDA r : r.name = Arg(t).val)
        /\ Inserts(t, k, [name |-> Arg(t).val, ws |-> Arg(t).ws,
                          st |-> "claimed", policy |-> None])

GetWorkspaceDomain(t) ==
    /\ Runs(t, "GetWorkspaceDomain")
    /\ Selects(t, The(t, "domains", Arg(t).id) # {}, <<>>)

ConfirmWorkspaceDomain(t) ==
    /\ Runs(t, "ConfirmWorkspaceDomain")
    /\ UpdatesOne(t, In(t, The(t, "domains", Arg(t).id), "st", "claimed")
                     \cup In(t, The(t, "domains", Arg(t).id), "st", "stale"),
                  LAMBDA r : [r EXCEPT !.st = "confirmed"])

UpdateWorkspaceDomainPolicy(t) ==
    /\ Runs(t, "UpdateWorkspaceDomainPolicy")
    /\ UpdatesOne(t, In(t, The(t, "domains", Arg(t).id), "st", "confirmed"),
                  LAMBDA r : [r EXCEPT !.policy = Arg(t).val])

DeleteWorkspaceDomain(t) ==
    /\ Runs(t, "DeleteWorkspaceDomain")
    /\ UpdatesOne(t, The(t, "domains", Arg(t).id), Gone)

\* The key stands for provider configuration, issuer and subject.
InsertSSOIdentity(t) ==
    /\ Runs(t, "InsertSSOIdentity")
    /\ Inserts(t, <<"identities", Arg(t).id>>, [user |-> Arg(t).user])

TouchSSOIdentity(t) ==
    /\ Runs(t, "TouchSSOIdentity")
    /\ UpdatesOne(t, The(t, "identities", Arg(t).id)
                     \cap Own(t, "identities"), Same)

CountUserAuthenticationMethods(t) ==
    /\ Runs(t, "CountUserAuthenticationMethods")
    /\ Selects(t, Cardinality(Own(t, "passwords") \cup Own(t, "passkeys")
                              \cup Own(t, "identities")) > 1, <<>>)

DeleteSSOIdentity(t) ==
    /\ Runs(t, "DeleteSSOIdentity")
    /\ UpdatesOne(t, The(t, "identities", Arg(t).id)
                     \cap Own(t, "identities"), Gone)

TenancyStatements(t) ==
    \/ ClaimBootstrap(t) \/ LockRootAdministrators(t)
    \/ GetInstanceAdministrator(t) \/ CountRootAdministrators(t)
    \/ CountEnabledRootAdministrators(t) \/ UpsertInstanceAdministrator(t)
    \/ DeleteInstanceAdministrator(t) \/ InsertWorkspace(t) \/ GetWorkspace(t)
    \/ SetWorkspaceDisabled(t) \/ LockUserAdminWorkspaces(t)
    \/ CountWorkspacesOrphanedByUserDisable(t) \/ LockWorkspace(t)
    \/ GetMembership(t) \/ CountActiveWorkspaceAdministrators(t)
    \/ UpsertMembership(t) \/ DeleteMembership(t)
    \/ InsertWorkspaceInvitation(t) \/ AcceptWorkspaceInvitation(t)
    \/ RevokeWorkspaceInvitation(t) \/ DeleteStaleWorkspaceDomainClaim(t)
    \/ InsertWorkspaceDomain(t) \/ GetWorkspaceDomain(t)
    \/ ConfirmWorkspaceDomain(t) \/ UpdateWorkspaceDomainPolicy(t)
    \/ DeleteWorkspaceDomain(t) \/ InsertSSOIdentity(t) \/ TouchSSOIdentity(t)
    \/ CountUserAuthenticationMethods(t) \/ DeleteSSOIdentity(t)
=============================================================================
