------------------------------ MODULE Provisioning ----------------------------
(***************************************************************************)
(* The Manager's SCIM configurations, directory users and groups.  A       *)
(* change of a group or of a configuration recomputes the roles of the     *)
(* links it affects from reads it makes one after the other, and then      *)
(* writes the memberships it read back with the new roles.                 *)
(***************************************************************************)
EXTENDS Directory

-----------------------------------------------------------------------------
(* Configurations and credentials.                                         *)

\* requireSCIMAdmin: the configuration, enabled or not, then the permission
\* in its workspace.
MayProvision == <<"configuration">> \o May("rbac.write")

ReadsConfiguration(r) ==
    /\ At(r, "configuration")
    /\ Exists(configs, call[r].config)
    /\ Continues(r, [call[r] EXCEPT !.cfg = configs[call[r].config],
                                    !.ws = configs[call[r].config].ws])

CreateSCIMConfiguration(r) ==
    /\ Starts(r, "CreateSCIMConfiguration")
    /\ \E a \in Registered, w \in Tenants :
         Begins(r, [Blank EXCEPT !.op = "CreateSCIMConfiguration", !.actor = a,
                                 !.ws = w], May("rbac.write"))

CreateSCIMConfigurationCommits(r) ==
    /\ Commits(r, "CreateSCIMConfiguration")
    /\ \E c \in ConfigIDs, k \in CredentialIDs, policy \in RolePolicies :
         StoreCreateSCIMConfiguration(c, k, call[r].ws, policy)
    /\ Returns(r)

\* Rotation adds a credential; the others stay.
RotateSCIMCredential(r) ==
    /\ Starts(r, "RotateSCIMCredential")
    /\ \E a \in Registered, c \in Configured :
         Begins(r, [Blank EXCEPT !.op = "RotateSCIMCredential", !.actor = a,
                                 !.config = c], MayProvision)

RotateSCIMCredentialCommits(r) ==
    /\ Commits(r, "RotateSCIMCredential")
    /\ \E k \in CredentialIDs : StoreSaveSCIMCredential(k, call[r].config)
    /\ Returns(r)

Keys == {k \in CredentialIDs : Exists(credentials, k)}

RevokeSCIMCredential(r) ==
    /\ Starts(r, "RevokeSCIMCredential")
    /\ \E a \in Registered, k \in Keys :
         Begins(r, [Blank EXCEPT !.op = "RevokeSCIMCredential", !.actor = a,
                      !.config = credentials[k].config, !.id = k],
                MayProvision)

RevokeSCIMCredentialCommits(r) ==
    /\ Commits(r, "RevokeSCIMCredential")
    /\ StoreRevokeSCIMCredential(call[r].config, call[r].id)
    /\ Returns(r)

DisableSCIMConfiguration(r) ==
    /\ Starts(r, "DisableSCIMConfiguration")
    /\ \E a \in Registered, c \in Configured :
         Begins(r, [Blank EXCEPT !.op = "DisableSCIMConfiguration",
                                 !.actor = a, !.config = c], MayProvision)

DisableSCIMConfigurationCommits(r) ==
    /\ Commits(r, "DisableSCIMConfiguration")
    /\ StoreDisableSCIMConfiguration(call[r].config)
    /\ Returns(r)

AuthenticateSCIM(r) ==
    /\ Starts(r, "AuthenticateSCIM")
    /\ \E k \in Keys :
         Begins(r, [Blank EXCEPT !.op = "AuthenticateSCIM", !.id = k,
                                 !.config = credentials[k].config],
                <<"credential", "workspace">>)

\* SCIMConfigurationByCredentialPrefix: both records in one read.
ReadsCredential(r) ==
    /\ At(r, "credential")
    /\ credentials[call[r].id].st = "live"
    /\ configs[call[r].config].st = "enabled"
    /\ Continues(r, [call[r] EXCEPT !.ws = configs[call[r].config].ws])

\* The touch changes nothing modelled; the client holds a principal.
AuthenticateSCIMCommits(r) ==
    /\ Commits(r, "AuthenticateSCIM")
    /\ UNCHANGED storeVars
    /\ principals' = principals \cup {call[r].config}
    /\ Ends(r)
    /\ UNCHANGED begun

ConfigurationSteps(r) ==
    \/ ReadsConfiguration(r)
    \/ CreateSCIMConfiguration(r) \/ CreateSCIMConfigurationCommits(r)
    \/ RotateSCIMCredential(r) \/ RotateSCIMCredentialCommits(r)
    \/ RevokeSCIMCredential(r) \/ RevokeSCIMCredentialCommits(r)
    \/ DisableSCIMConfiguration(r) \/ DisableSCIMConfigurationCommits(r)
    \/ AuthenticateSCIM(r) \/ ReadsCredential(r) \/ AuthenticateSCIMCommits(r)

-----------------------------------------------------------------------------
(* Directory users.                                                        *)

\* scimConfigurationForPrincipal: the configuration must still be enabled.
ReadsProvisioner(r) ==
    /\ At(r, "provisioner")
    /\ configs[call[r].config].st = "enabled"
    /\ Continues(r, [call[r] EXCEPT !.cfg = configs[call[r].config],
                                    !.ws = configs[call[r].config].ws])

\* What Active asks for, and the membership status it means.
Activity == {"active", "inactive"}
Status(st) == IF st = "active" THEN "active" ELSE "suspended"

ProvisionSCIMUser(r) ==
    /\ Starts(r, "ProvisionSCIMUser")
    /\ \E c \in principals, a \in Addresses, st \in Activity :
         Begins(r, [Blank EXCEPT !.op = "ProvisionSCIMUser", !.config = c,
                                 !.addr = a, !.to = st], <<"provisioner">>)

ProvisionSCIMUserCommits(r) ==
    /\ Commits(r, "ProvisionSCIMUser")
    /\ \E l \in LinkIDs, u \in Users, e \in EmailIDs :
         StoreCreateSCIMUser(l, call[r].config, u, e, call[r].addr,
           IF call[r].cfg.policy.trust THEN "verified" ELSE "pending",
           [st |-> Status(call[r].to), role |-> call[r].cfg.policy.default,
            source |-> call[r].config], call[r].to)
    /\ Returns(r)

AdoptSCIMUser(r) ==
    /\ Starts(r, "AdoptSCIMUser")
    /\ \E a \in Registered, u \in Registered, c \in Configured,
          st \in Activity :
         Begins(r, [Blank EXCEPT !.op = "AdoptSCIMUser", !.actor = a,
                                 !.user = u, !.config = c, !.to = st],
                MayProvision \o <<"target", "local">>)

\* The membership keeps its role.
AdoptSCIMUserCommits(r) ==
    /\ Commits(r, "AdoptSCIMUser") /\ call[r].row # Absent
    /\ \E l \in LinkIDs :
         StoreAdoptSCIMUser(l, call[r].config, call[r].user,
           [call[r].row EXCEPT !.source = call[r].config,
                               !.st = Status(call[r].to)], call[r].to)
    /\ Returns(r)

Linking(c) == {l \in LinkIDs : Exists(links, l) /\ links[l].config = c}

ReplaceSCIMUser(r) ==
    /\ Starts(r, "ReplaceSCIMUser")
    /\ \E c \in principals, st \in Activity : \E l \in Linking(c) :
         Begins(r, [Blank EXCEPT !.op = "ReplaceSCIMUser", !.config = c,
                                 !.id = l, !.to = st],
                <<"provisioner", "link", "managed">>)

DeprovisionSCIMUser(r) ==
    /\ Starts(r, "DeprovisionSCIMUser")
    /\ \E c \in principals : \E l \in Linking(c) :
         Begins(r, [Blank EXCEPT !.op = "DeprovisionSCIMUser", !.config = c,
                                 !.id = l, !.to = "deprovisioned"],
                <<"provisioner", "link", "managed">>)

\* Deprovisioning a deprovisioned user is done.
ReadsLink(r) ==
    /\ At(r, "link")
    /\ call[r].op = "DeprovisionSCIMUser" =>
         links[call[r].id].st # "deprovisioned"
    /\ Continues(r, [call[r] EXCEPT !.user = links[call[r].id].user])

Managed(c, w, u) == memberships[w][u] # Absent /\ memberships[w][u].source = c

ReadsManaged(r) ==
    /\ At(r, "managed")
    /\ Managed(call[r].config, call[r].ws, call[r].user)
    /\ Remembers(r, memberships[call[r].ws][call[r].user])

\* commitSCIMUserUpdate.
UpdateSCIMUserCommits(r) ==
    /\ Commits(r, "ReplaceSCIMUser") \/ Commits(r, "DeprovisionSCIMUser")
    /\ StoreUpdateSCIMUser(call[r].id, call[r].ws, call[r].to,
         [call[r].row EXCEPT !.st = Status(call[r].to)],
         call[r].op = "DeprovisionSCIMUser")
    /\ Returns(r)

LinkSteps(r) ==
    \/ ReadsProvisioner(r)
    \/ ProvisionSCIMUser(r) \/ ProvisionSCIMUserCommits(r)
    \/ AdoptSCIMUser(r) \/ AdoptSCIMUserCommits(r)
    \/ ReplaceSCIMUser(r) \/ DeprovisionSCIMUser(r)
    \/ ReadsLink(r) \/ ReadsManaged(r) \/ UpdateSCIMUserCommits(r)

-----------------------------------------------------------------------------
(* Groups and the roles they give.                                         *)

\* The mappings of policy that apply to link l through the groups, given as
\* a set of rows, and those of the highest priority.
Mapped(policy, gs, l) ==
    {policy.map[g.ext] : g \in {g \in gs : /\ l \in g.members /\ g.ext # None
                                           /\ policy.map[g.ext] # None}}
Highest(ms) == {m \in ms : \A n \in ms : n.priority <= m.priority}

\* scimRoleForUser: the roles left; two are ambiguous and refused.  A tie
\* below the highest priority is refused or not depending on the order of
\* the groups: Refused covers it.
Candidates(policy, gs, l) ==
    LET ms == Mapped(policy, gs, l) IN
    IF ms = {} THEN {policy.default} ELSE {m.role : m \in Highest(ms)}

LiveGroups(c) == {g \in GroupIDs : groups[g].st = "live"
                                   /\ groups[g].config = c}

\* A new group takes an identifier no other call has taken.
UpsertSCIMGroup(r) ==
    /\ Starts(r, "UpsertSCIMGroup")
    /\ \E c \in principals, g \in GroupIDs, x \in Externals \cup {None} :
         \E ls \in SUBSET Linking(c) :
           LET row == [st |-> "live", config |-> c, ext |-> x, members |-> ls]
               new == ~Exists(groups, g) IN
           /\ new => \A q \in Requests : call[q].id # g
           /\ ~new => groups[g].config = c
           /\ Begins(r, [Blank EXCEPT !.op = "UpsertSCIMGroup", !.config = c,
                           !.id = g, !.to = row,
                           !.row = [row EXCEPT !.members = {}], !.left = ls],
                     <<"provisioner">> \o (IF new THEN <<>> ELSE <<"group">>)
                     \o Each("member", ls) \o <<"groups">>)

DeleteSCIMGroup(r) ==
    /\ Starts(r, "DeleteSCIMGroup")
    /\ \E c \in principals, g \in GroupIDs :
         /\ Exists(groups, g) /\ groups[g].config = c
         /\ Begins(r, [Blank EXCEPT !.op = "DeleteSCIMGroup", !.config = c,
                                    !.id = g],
                   <<"provisioner", "group", "groups">>)

ReadsGroup(r) ==
    /\ At(r, "group")
    /\ groups[call[r].id].st = "live"
    /\ Remembers(r, groups[call[r].id])

\* The members of the input are read one by one.
ReadsMember(r) ==
    /\ At(r, "member")
    /\ \E l \in call[r].left :
         /\ links[l].st # "deprovisioned"
         /\ Continues(r, [call[r] EXCEPT !.left = @ \ {l}])

\* Bug: only the new members are recomputed.
AffectedNow(k) == IF k.op = "DeleteSCIMGroup" THEN k.row.members
                  ELSE k.to.members

\* The former members and the new ones.
Affected(k) == IF k.op = "DeleteSCIMGroup" THEN k.row.members
               ELSE k.row.members \cup k.to.members

\* What is left of a call once it knows the links it affects.
Recomputes(k, ls) == [k EXCEPT !.left = ls,
                        !.todo = <<"known">> \o Each("affected", ls)
                                 \o <<"commit">>]

\* allSCIMGroups, with the change of a group applied.
ReadsGroups(r) ==
    /\ At(r, "groups")
    /\ LET k == call[r]
           others == {groups[g] : g \in LiveGroups(k.config) \ {k.id}} IN
       Continues(r,
         CASE k.op = "UpdateSCIMConfiguration" -> [k EXCEPT !.seen = others]
           [] k.op = "UpsertSCIMGroup" ->
                Recomputes([k EXCEPT !.seen = others \cup {k.to}],
                           Affected(k))
           [] k.op = "DeleteSCIMGroup" ->
                Recomputes([k EXCEPT !.seen = others], Affected(k)))

UpdateSCIMConfiguration(r) ==
    /\ Starts(r, "UpdateSCIMConfiguration")
    /\ \E a \in Registered, c \in Configured, policy \in RolePolicies :
         Begins(r, [Blank EXCEPT !.op = "UpdateSCIMConfiguration", !.actor = a,
                      !.config = c, !.to = policy],
                MayProvision \o <<"groups", "links">>)

\* allSCIMUsers lists the links that are not deprovisioned.
ReadsLinks(r) ==
    /\ At(r, "links")
    /\ Continues(r, Recomputes(call[r],
         {l \in Linking(call[r].config) : links[l].st # "deprovisioned"}))

\* The policy the roles are computed from.
PolicyOf(k) == IF k.op = "UpdateSCIMConfiguration" THEN k.to
               ELSE k.cfg.policy

\* The membership of each affected link is read, one by one, and kept with
\* its new role.
ReadsAffected(r) ==
    /\ At(r, "affected")
    /\ \E l \in call[r].left :
         LET k == call[r]
             u == links[l].user IN
         \E role \in Candidates(PolicyOf(k), k.seen, l) :
           /\ Candidates(PolicyOf(k), k.seen, l) = {role}
           /\ Managed(k.config, k.ws, u)
           /\ Continues(r, [k EXCEPT
                !.left = @ \ {l},
                !.rows = [v \in DOMAIN @ \cup {u} |->
                            IF v = u
                            THEN [memberships[k.ws][u] EXCEPT !.role = role]
                            ELSE @[v]]])

UpsertSCIMGroupCommits(r) ==
    /\ Commits(r, "UpsertSCIMGroup")
    /\ StoreUpsertSCIMGroup(call[r].id, call[r].to, call[r].ws, call[r].rows)
    /\ Returns(r)

DeleteSCIMGroupCommits(r) ==
    /\ Commits(r, "DeleteSCIMGroup")
    /\ StoreDeleteSCIMGroup(call[r].id, call[r].row, call[r].ws, call[r].rows)
    /\ Returns(r)

UpdateSCIMConfigurationCommits(r) ==
    /\ Commits(r, "UpdateSCIMConfiguration")
    /\ StoreUpdateSCIMConfiguration(call[r].config,
         [call[r].cfg EXCEPT !.policy = call[r].to], call[r].rows)
    /\ Returns(r)

GroupSteps(r) ==
    \/ UpsertSCIMGroup(r) \/ DeleteSCIMGroup(r) \/ ReadsGroup(r)
    \/ ReadsMember(r) \/ ReadsGroups(r)
    \/ UpdateSCIMConfiguration(r) \/ ReadsLinks(r) \/ ReadsAffected(r)
    \/ UpsertSCIMGroupCommits(r) \/ DeleteSCIMGroupCommits(r)
    \/ UpdateSCIMConfigurationCommits(r)
=============================================================================
