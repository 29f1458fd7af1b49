--------------------------- MODULE TenancyInvariant ---------------------------
(***************************************************************************)
(* The inductive invariant behind the proofs about Tenancy: what the       *)
(* tables hold (Tables), what a call in flight has left to do and relies   *)
(* on (Calls), how the address records fit together (Mail), and what a     *)
(* transaction may do to the tables (Effect).                              *)
(***************************************************************************)
EXTENDS Directory

-----------------------------------------------------------------------------
(* The tables: rows have their fields, and refer to what exists.           *)

UserRows ==
    /\ users = [u \in Users |-> users[u]]
    /\ \A u \in Users : Exists(users, u) =>
         /\ DOMAIN users[u] = {"st", "email", "password"}
         /\ users[u].st \in {"enabled", "disabled"}

\* Nobody is a member before having an account.
MemberRows ==
    /\ memberships = [w \in Workspaces |-> memberships[w]]
    /\ \A w \in Workspaces :
         /\ memberships[w] = [u \in Users |-> memberships[w][u]]
         /\ \A u \in Users : memberships[w][u] # Absent => Exists(users, u)

AdminRows == admins = [u \in Users |-> admins[u]]

LinkRows ==
    /\ links = [l \in LinkIDs |-> links[l]]
    /\ \A l \in LinkIDs : Exists(links, l) =>
         /\ DOMAIN links[l] = {"st", "user", "config"}
         /\ links[l].user \in Users => Exists(users, links[l].user)

ConfigRow(row) == DOMAIN row = {"st", "ws", "policy"} /\ row.ws \in Workspaces
ConfigRows ==
    /\ configs = [c \in ConfigIDs |-> configs[c]]
    /\ \A c \in ConfigIDs : Exists(configs, c) => ConfigRow(configs[c])
    /\ credentials = [k \in CredentialIDs |-> credentials[k]]
    /\ \A k \in CredentialIDs : Exists(credentials, k) =>
         /\ DOMAIN credentials[k] = {"st", "config"}
         /\ credentials[k].config \in ConfigIDs
    /\ principals \subseteq ConfigIDs

GroupRow(row) == DOMAIN row = {"st", "config", "ext", "members"}
                 /\ row.members \subseteq LinkIDs
GroupRows ==
    /\ groups = [g \in GroupIDs |-> groups[g]]
    /\ \A g \in GroupIDs : Exists(groups, g) => GroupRow(groups[g])

\* Every claim holds its name.
DomainRows ==
    /\ domains = [d \in DomainIDs |-> domains[d]]
    /\ domainNames = [n \in DomainNames |-> domainNames[n]]
    /\ \A d \in DomainIDs : Exists(domains, d) =>
         /\ DOMAIN domains[d] = {"st", "ws", "name", "policy"}
         /\ domains[d].name \in DomainNames
         /\ domainNames[domains[d].name] = d

\* Tokens that ended stay dead.
TokenRows ==
    /\ pats \in [PATIDs -> PAT \cup {Absent}]
    /\ ended \subseteq PATIDs
    /\ \A p \in ended : pats[p].st = "revoked"

\* Each invitation and each ceremony counts for what it was used.
Uses ==
    /\ invitations = [i \in InvitationIDs |-> invitations[i]]
    /\ \A i \in InvitationIDs : Exists(invitations, i) =>
         DOMAIN invitations[i] = {"st", "ws", "addr", "role", "user"}
    /\ admitted = [i \in InvitationIDs |->
                     IF invitations[i].st = "accepted" THEN 1 ELSE 0]
    /\ finished = [c \in Ceremonies |-> IF c \in spent THEN 1 ELSE 0]

Tables == /\ UserRows /\ MemberRows /\ AdminRows /\ LinkRows /\ ConfigRows
          /\ GroupRows /\ DomainRows /\ TokenRows /\ Uses

-----------------------------------------------------------------------------
(* The calls: what is left to do is reads that the operation makes, and a  *)
(* commit.                                                                 *)

Fields == {"op", "actor", "ws", "user", "role", "addr", "id", "to", "row",
           "ceremony", "subject", "config", "cfg", "seen", "left", "rows",
           "stale", "todo"}

Authority == {"user", "workspace", "commit"} \cup Permissions
             \cup AdminPermissions
Recomputation == {"groups", "links", "known", "affected"}
Elsewhere == {"target", "local", "free", "record", "unclaimed",
              "domain policy", "role", "invitee", "pending", "owned", "token",
              "verification", "domain", "configuration", "credential",
              "provisioner"}
Ordinary == Authority \cup Elsewhere

\* Two operations find out what they are about, and two which address.
Searching == {"ResendEmailVerification", "FinishSSO"}
Finding == {"pending address", "identity", "joinable"}
Admitting == {"AcceptInvitation", "RegisterFromInvitation"}
Anywhere == Elsewhere \cup Finding \cup {"invitation"}

Regrouping == {"UpsertSCIMGroup", "DeleteSCIMGroup"}
Recomputing == {"UpdateSCIMConfiguration"} \cup Regrouping
Updating == {"ReplaceSCIMUser", "DeprovisionSCIMUser"}

Reads(op) ==
    CASE op \in {"CreatePAT", "CreateWorkspaceDomain",
                 "CreateSCIMConfiguration"} -> Authority
      [] op \in Updating -> {"provisioner", "link", "managed", "commit"}
      [] op \in Regrouping ->
           {"provisioner", "group", "member", "commit"} \cup Recomputation
      [] op = "UpdateSCIMConfiguration" ->
           Authority \cup {"configuration"} \cup Recomputation
      [] op \in Searching -> Ordinary \cup Finding
      [] op \in Admitting -> Ordinary \cup {"invitation"}
      [] OTHER -> Ordinary

\* The operations that name a configuration.
Configuring == {"RotateSCIMCredential", "RevokeSCIMCredential",
                "DisableSCIMConfiguration", "AuthenticateSCIM",
                "ProvisionSCIMUser", "AdoptSCIMUser"}
               \cup Updating \cup Recomputing

Ready(S) == {s \in Seq(S) : Len(s) > 0 /\ s[Len(s)] = "commit"}

\* The record and the address a call is about.
Aimed(k) ==
    /\ k.op \in {"ConfirmEmail", "SetPrimaryEmail", "RemoveEmail"} =>
         k.id \in EmailIDs
    /\ k.op = "RemoveWorkspaceDomain" => k.id \in DomainIDs
    /\ k.op \in Admitting => k.id \in InvitationIDs
    /\ k.op \notin Admitting => k.addr \in Addresses \cup {None}

\* What the inputs of a call, and what it read, refer to.
Inputs(k) ==
    /\ Aimed(k)
    /\ k.op = "CreatePAT" => k.actor \in Users /\ k.ws \in Everywhere
    /\ k.op = "CreateWorkspaceDomain" => k.id \in DomainNames
    /\ k.op = "CreateSCIMConfiguration" => k.ws \in Workspaces
    /\ k.op \in Configuring => k.config \in ConfigIDs
    /\ k.op \in Updating => k.id \in LinkIDs
    /\ k.op \in Regrouping => k.id \in GroupIDs
    /\ k.ceremony # None => k.op = "FinishSSO"

\* A call that recomputes roles knows the workspace once it has read the
\* configuration, and the members once it has read the group; it found the
\* accounts it has rows for.
Unread == {<<"provisioner", "group", "groups", "commit">>,
           <<"group", "groups", "commit">>}

Found(k) ==
    /\ k.op = "UpsertSCIMGroup" => GroupRow(k.row) /\ GroupRow(k.to)
    /\ k.op = "DeleteSCIMGroup" => k.todo \in Unread \/ GroupRow(k.row)
    /\ k.op \in Regrouping =>
         Head(k.todo) = "provisioner" \/ k.ws \in Workspaces
    /\ k.op = "UpdateSCIMConfiguration" =>
         \/ Head(k.todo) = "configuration"
         \/ k.ws \in Workspaces /\ ConfigRow(k.cfg) /\ k.cfg.ws = k.ws
    /\ \A u \in DOMAIN k.rows : u \in Users => Exists(users, u)

Running(k) == /\ DOMAIN k = Fields /\ k.todo \in Ready(Reads(k.op))
              /\ Inputs(k) /\ Found(k)

Calls == /\ call = [r \in Requests |-> call[r]]
         /\ \A r \in Requests : call[r] = Idle \/ Running(call[r])

\* The inductive invariant.
Sound == Tables /\ Calls

-----------------------------------------------------------------------------
(* What a commit does, table by table.                                     *)

NoneLost == \A u \in Users : Exists(users, u) => Exists(users, u)'

RootsStay == Roots # {} => Roots' # {}
AdminsStay == \A w \in Workspaces : ActiveAdmins(w) # {} =>
                                      ActiveAdmins(w)' # {}

\* Nobody loses the standing a token was issued under.
AccountsStand == \A u \in Users : Enabled(u) => users'[u].st # "disabled"
MembersStand == \A w \in Workspaces, u \in Users :
    memberships[w][u].st = "active" => memberships'[w][u].st = "active"

\* Tokens only end, and do when their owner's standing does.
TokensFollow(op) ==
    /\ pats' \in [PATIDs -> PAT \cup {Absent}]
    /\ \A p \in PATIDs : pats[p].st = "revoked" => pats'[p].st = "revoked"
    /\ \A p \in Minted : LosesStanding(op, p) => pats'[p].st = "revoked"

InvitationRows ==
    /\ invitations = [i \in InvitationIDs |-> invitations[i]]
    /\ \A i \in InvitationIDs : Exists(invitations, i) =>
         DOMAIN invitations[i] = {"st", "ws", "addr", "role", "user"}

\* The accepted invitations are those that were, and id when accepts.
Admits(accepts, id) ==
    \A i \in InvitationIDs :
      /\ accepts /\ i = id => /\ invitations[i].st = "pending"
                              /\ invitations'[i].st = "accepted"
      /\ ~(accepts /\ i = id) => (invitations'[i].st = "accepted" <=>
                                  invitations[i].st = "accepted")

Spending(k) == IF k.op = "FinishSSO" THEN Spends(k.ceremony)
               ELSE UNCHANGED spent

Rows == /\ UserRows /\ MemberRows /\ AdminRows /\ LinkRows /\ ConfigRows
        /\ GroupRows /\ DomainRows /\ InvitationRows

\* One account changed, which was dispensable.
Closing == \E u : /\ Dispensable(u)
                  /\ \A v \in Users \ {u} : users'[v] = users[v]

Effect(k) ==
    /\ Rows' /\ NoneLost /\ RootsStay
    /\ AccountsStand \/ Closing
    /\ k.op \in Unguarded \/ AdminsStay
    /\ TokensFollow(k.op)
    /\ Admits(k.op \in Admitting, k.id)
    /\ Spending(k)

-----------------------------------------------------------------------------
(* The address records: what AddressesAreSound needs to be inductive.      *)

\* An anonymized account's record has a tombstone made from its own
\* identifier for address, and no other record's.
MailRow(e, row) ==
    /\ DOMAIN row = {"st", "user", "addr", "primary", "code"}
    /\ row.st \in {"pending", "verified"} /\ row.user \in Users
    /\ row.addr \in Addresses \cup {None, Tombstone(e)}
    /\ row.primary \in BOOLEAN

\* Records are of accounts that exist.
MailRows ==
    /\ emails = [e \in EmailIDs |-> emails[e]]
    /\ \A e \in EmailIDs : Exists(emails, e) =>
         MailRow(e, emails[e]) /\ Exists(users, emails[e].user)

OneRecordEach ==
    \A e, f \in EmailIDs :
      Exists(emails, e) /\ Exists(emails, f) /\ e # f =>
        emails[e].addr # emails[f].addr

\* The lookup leads to the owner of a verified record, and from every one.
Leads(e, a, u) == /\ Exists(emails, e) /\ emails[e].st = "verified"
                  /\ emails[e].addr = a /\ emails[e].user = u
Lookup ==
    /\ index = [a \in Address |-> index[a]]
    /\ \A a \in Addresses : index[a] # None =>
         \E e \in EmailIDs : Leads(e, a, index[a])
    /\ \A e \in EmailIDs, a \in Addresses, u \in Users :
         Leads(e, a, u) => index[a] = u

IsPrimary(e, u) == /\ Exists(emails, e) /\ emails[e].user = u
                   /\ emails[e].primary = TRUE
OnePrimary(u) == \E e \in EmailIDs :
    IsPrimary(e, u) /\ \A f \in EmailIDs : IsPrimary(f, u) => f = e
Primaries == \A u \in Users : Exists(users, u) => OnePrimary(u)

\* Nobody is invited under a tombstone.
Invited == \A i \in InvitationIDs :
    Exists(invitations, i) => invitations[i].addr \in Addresses \cup {None}

Mail == MailRows /\ OneRecordEach /\ Lookup /\ Primaries /\ Invited
=============================================================================
