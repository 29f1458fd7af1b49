------------------------------- MODULE Directory ------------------------------
(***************************************************************************)
(* What the Manager's calls on the directory tables share: a call in       *)
(* flight, the reads it has still to make before its transaction, and the  *)
(* authorization checks of rbac.go, admin.go and lifecycle.go.             *)
(*                                                                         *)
(* A handler is the sequence of store reads that precede its commit.  Each *)
(* read is a step of its own, so anything may happen between two of them   *)
(* and between the last one and the commit; what a read returned is kept   *)
(* in the call when a later step uses it.  Refused ends a call at any of   *)
(* its steps: it covers the checks that only refuse (step-up, assurance    *)
(* level, the binding and scopes of the presented credential, validation,  *)
(* expiry, cooldowns), a failing store and a caller who goes away.         *)
(***************************************************************************)
EXTENDS FederationStore, ProvisioningStore

CONSTANTS
    Requests,       \* concurrent calls
    Mixes,          \* the sets of operations an instance may run
    Grants          \* the compiled role catalog: permissions of each role

Permissions == {"access", "settings.write", "users.write", "rbac.write",
                "credentials.manage"}

\* admin holds every permission and every role includes member's.
ASSUME GrantsAssumption ==
    /\ Grants \in [Roles -> SUBSET Permissions]
    /\ Grants["admin"] = Permissions
    /\ \A role \in Roles : "access" \in Grants[role]

VARIABLES
    mix,            \* the operations of this behaviour
    call,           \* the calls in flight
    begun,          \* SSO continuations clients hold, by ceremony
    principals,     \* configurations a SCIM client has authenticated for
    admitted,       \* history: memberships installed through each invitation
    finished,       \* history: successful completions of each ceremony
    ended,          \* history: tokens whose owner lost its standing since
    computed,       \* history: links whose role follows from their groups
    raced           \* history: configurations with a lost update

clientVars == <<begun, principals>>
historyVars == <<admitted, finished, ended, computed, raced>>
vars == <<storeVars, mix, call, clientVars, historyVars>>

\* defaultAdminPermissions, the permissions the modelled operations ask for.
AdminPermissions == {"admin.users.write", "admin.workspaces.write",
                     "admin.instance_roles.write"}
AdminGrants == [role \in InstanceRoles |->
    CASE role = "root" -> AdminPermissions
      [] role = "support" -> {"admin.users.write"}
      [] OTHER -> {}]

\* The inputs of a call, what it read and the reads it has yet to make.
\* stale: another call has written directory state since this one began.
Blank == [op |-> "none", actor |-> None, ws |-> None, user |-> None,
          role |-> None, addr |-> None, id |-> None, to |-> None,
          row |-> None, ceremony |-> None, subject |-> None, config |-> None,
          cfg |-> None, seen |-> {}, left |-> {}, rows |-> <<>>,
          stale |-> FALSE, todo |-> <<"idle">>]
Idle == Blank

\* Identifiers are random and learnt from an answer: a call names rows that
\* exist.
Registered == {u \in Users : Exists(users, u)}
Tenants == {w \in Workspaces : Exists(workspaces, w)}
Minted == {p \in PATIDs : Exists(pats, p)}

-----------------------------------------------------------------------------
(* The life of a call.                                                     *)

At(r, step) == Head(call[r].todo) = step

\* Whether an operation may start, and its start with the inputs in k.
Starts(r, op) == op \in mix /\ At(r, "idle")
Begins(r, k, reads) ==
    /\ call' = [call EXCEPT ![r] = [k EXCEPT !.todo = reads \o <<"commit">>]]
    /\ UNCHANGED <<storeVars, mix, clientVars, historyVars>>

Commits(r, op) == call[r].op = op /\ At(r, "commit")

\* A read succeeds and the call goes on as k.
Continues(r, k) ==
    /\ call' = [call EXCEPT ![r] = [k EXCEPT !.todo = Tail(@)]]
    /\ UNCHANGED <<storeVars, mix, clientVars, historyVars>>
Passes(r) == Continues(r, call[r])

\* One read for each element of a set.
Each(step, set) == [i \in 1..Cardinality(set) |-> step]
Remembers(r, row) == Continues(r, [call[r] EXCEPT !.row = row])

Refused(r) ==
    /\ ~At(r, "idle")
    /\ call' = [call EXCEPT ![r] = Idle]
    /\ UNCHANGED <<storeVars, mix, clientVars, historyVars>>

-----------------------------------------------------------------------------
(* What a commit leaves in the histories.                                  *)

\* These write memberships without touching the tokens bound to them.
KeepsTokens == {"AdoptSCIMUser", "ReplaceSCIMUser", "UpsertSCIMGroup",
                "DeleteSCIMGroup", "UpdateSCIMConfiguration"}

\* The transactions that write a membership without asking whether it was a
\* workspace's last active admin's.
Unguarded == {"AcceptInvitation", "DeprovisionSCIMUser"} \cup KeepsTokens

\* The owner of a token loses the standing it was issued under: the account
\* is disabled, the membership it is bound to is suspended or removed, or
\* the workspace is disabled while the owner has a row in it.
LosesStanding(op, p) ==
    LET u == pats[p].user
        w == pats[p].ws IN
    \/ Enabled(u) /\ users'[u].st = "disabled"
    \/ /\ w # None
       /\ \/ /\ op \notin KeepsTokens
             /\ memberships[w][u].st = "active"
             /\ memberships'[w][u].st # "active"
          \/ /\ op = "DisableWorkspace"
             /\ memberships[w][u] # Absent
             /\ workspaces[w].st = "enabled" /\ workspaces'[w].st = "disabled"

\* The commit changes what the calls of a directory read and write.
Overtakes == \/ memberships' # memberships \/ configs' # configs
             \/ links' # links \/ groups' # groups

Configured == {c \in ConfigIDs : Exists(configs, c)}

\* Recomputing every link of the configuration forgets those it skipped.
Recomputed(k) ==
    CASE k.op = "UpdateSCIMConfiguration" ->
           {l \in LinkIDs :
              /\ Exists(links, l)
              /\ IF links[l].config = k.config
                 THEN links[l].user \in DOMAIN k.rows ELSE l \in computed}
      [] k.op \in {"UpsertSCIMGroup", "DeleteSCIMGroup"} ->
           computed \cup {l \in LinkIDs : /\ Exists(links, l)
                                          /\ links[l].config = k.config
                                          /\ links[l].user \in DOMAIN k.rows}
      [] k.op = "ProvisionSCIMUser" ->
           computed \cup {l \in LinkIDs : links[l] # links'[l]}
      [] OTHER -> computed

Counted(history, id) == [history EXCEPT ![id] = @ + 1]

Notes(k) ==
    /\ admitted' = IF k.op \in {"AcceptInvitation", "RegisterFromInvitation"}
                   THEN Counted(admitted, k.id) ELSE admitted
    /\ finished' = IF k.ceremony # None THEN Counted(finished, k.ceremony)
                   ELSE finished
    /\ ended' = ended \cup {p \in Minted : LosesStanding(k.op, p)}
    /\ computed' = Recomputed(k)
    /\ raced' = IF k.stale /\ Overtakes
                THEN raced \cup {c \in Configured : configs[c].ws = k.ws}
                ELSE raced

\* The end of a commit, after its transaction.
Ends(r) ==
    /\ call' = [q \in Requests |->
                  IF q = r THEN Idle
                  ELSE IF ~At(q, "idle") /\ Configured # {} /\ Overtakes
                  THEN [call[q] EXCEPT !.stale = TRUE]
                  ELSE call[q]]
    /\ Notes(call[r])
    /\ UNCHANGED mix
Returns(r) == Ends(r) /\ UNCHANGED clientVars

-----------------------------------------------------------------------------
(* authorizeWorkspaceMutation and AuthorizePermission: the account, the    *)
(* workspace, then the membership.                                         *)

May(permission) == <<"user", "workspace", permission>>

ReadsUser(r) ==
    /\ At(r, "user")
    /\ Exists(users, call[r].actor) /\ Enabled(call[r].actor)
    /\ Passes(r)

\* A disabled workspace accepts the operation that restores it, no other.
ReadsWorkspace(r) ==
    /\ At(r, "workspace")
    /\ \/ workspaces[call[r].ws].st = "enabled"
       \/ workspaces[call[r].ws].st = "disabled"
          /\ call[r].op = "EnableWorkspace"
    /\ Passes(r)

allows(w, u, permission) ==
    /\ memberships[w][u].st = "active"
    /\ permission \in Grants[memberships[w][u].role]

ReadsMembership(r) ==
    /\ Head(call[r].todo) \in Permissions
    /\ allows(call[r].ws, call[r].actor, Head(call[r].todo))
    /\ Passes(r)

-----------------------------------------------------------------------------
(* AuthorizeAdmin: the account, then its instance role.                    *)

MayAdminister(permission) == <<"user", permission>>

ReadsInstanceRole(r) ==
    /\ Head(call[r].todo) \in AdminPermissions
    /\ admins[call[r].actor] # None
    /\ Head(call[r].todo) \in AdminGrants[admins[call[r].actor]]
    /\ Passes(r)

-----------------------------------------------------------------------------
(* The reads of the row a call is about.                                   *)

\* UserByID of the account named, which must exist.
ReadsTarget(r) ==
    /\ At(r, "target")
    /\ Exists(users, call[r].user)
    /\ Remembers(r, users[call[r].user])

\* Membership of the account named, which must be local or missing.
ReadsLocal(r) ==
    /\ At(r, "local")
    /\ LET row == memberships[call[r].ws][call[r].user] IN
       /\ row # Absent => row.source = "local"
       /\ Remembers(r, row)

\* Membership of the account named, which must be missing.
ReadsFree(r) ==
    /\ At(r, "free")
    /\ memberships[call[r].ws][call[r].user] = Absent
    /\ Passes(r)

\* WorkspaceByID.
ReadsRecord(r) ==
    /\ At(r, "record")
    /\ Exists(workspaces, call[r].ws)
    /\ Remembers(r, workspaces[call[r].ws])

\* UserByEmail finds nobody.
ReadsUnclaimed(r) ==
    /\ At(r, "unclaimed")
    /\ index[call[r].addr] = None
    /\ Passes(r)

\* domainRequiresSSO: a domain that enforces SSO refuses.
ReadsDomainPolicy(r) ==
    /\ At(r, "domain policy")
    /\ ~RequiresSSO(DomainOf[call[r].addr])
    /\ Passes(r)

Checks(r) == ReadsUser(r) \/ ReadsWorkspace(r) \/ ReadsMembership(r)
             \/ ReadsInstanceRole(r)
Lookups(r) == ReadsTarget(r) \/ ReadsLocal(r) \/ ReadsFree(r)
              \/ ReadsRecord(r) \/ ReadsUnclaimed(r)
              \/ ReadsDomainPolicy(r)
=============================================================================
