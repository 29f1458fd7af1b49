-------------------------------- MODULE Tenancy -------------------------------
(***************************************************************************)
(* Tenant and instance administration, accounts and their addresses,       *)
(* domains and SSO, and SCIM provisioning over the same tables, with any   *)
(* number of calls in flight.  A behaviour runs one mix of operations from *)
(* the state its first members ask for.                                    *)
(***************************************************************************)
EXTENDS Governance, Profiles, Federation, Provisioning

CONSTANTS
    Founder, Second,        \* accounts of a staffed instance
    FounderMail, SecondMail,
    FounderAddress, SecondAddress,
    Home,                   \* its workspace
    HomeDomain, HomePolicy, \* its confirmed domain
    HomeConfig, HomeKey,    \* its SCIM configuration
    HomeRoles,              \* the role policy of that configuration
    HomeLink                \* an account in that directory

ASSUME StaffAssumption ==
    /\ {Founder, Second} \subseteq Users /\ Founder # Second
    /\ {FounderMail, SecondMail} \subseteq EmailIDs /\ FounderMail # SecondMail
    /\ {FounderAddress, SecondAddress} \subseteq Addresses
    /\ FounderAddress # SecondAddress
    /\ Home \in Workspaces /\ HomeDomain \in DomainIDs
    /\ HomePolicy \in DomainPolicies
    /\ HomeConfig \in ConfigIDs /\ HomeKey \in CredentialIDs
    /\ HomeLink \in LinkIDs /\ HomeRoles \in RolePolicies

\* The tables, the calls, what clients hold and the histories keep their
\* types.
TypeOK ==
    /\ StoreTypeOK
    /\ mix \in Mixes
    /\ \A r \in Requests :
         /\ DOMAIN call[r] = DOMAIN Blank
         /\ call[r].actor \in Users \cup {None}
         /\ call[r].user \in Users \cup {None}
         /\ call[r].ws \in Workspaces \cup {None}
         /\ call[r].addr \in Address \cup {None}
         /\ call[r].row \in User \cup Workspace \cup Membership \cup PAT
                            \cup Domain \cup Group \cup {Absent, None}
         /\ call[r].cfg \in Config \cup {None}
         /\ \A u \in DOMAIN call[r].rows : call[r].rows[u] \in Membership
         /\ call[r] # Idle => call[r].op \in mix
         /\ call[r].todo \in Seq(STRING) \ {<<>>}
    /\ begun \in [Ceremonies ->
                    [op: {"login", "link", "step-up"}, provider: Providers,
                     user: Users \cup {None}] \cup {Absent}]
    /\ principals \subseteq ConfigIDs
    /\ admitted \in [InvitationIDs -> Nat]
    /\ finished \in [Ceremonies -> Nat]
    /\ ended \subseteq PATIDs
    /\ computed \subseteq LinkIDs
    /\ raced \subseteq ConfigIDs

-----------------------------------------------------------------------------
(* The state a behaviour starts from: nothing; an instance that was        *)
(* bootstrapped; or one staffed with a second account as well, which may   *)
(* have left the workspace.                                                *)
(* In it a domain may have been confirmed and given a policy, or a         *)
(* directory connected that has adopted the last account.                  *)

Person(addr) == [st |-> "enabled", email |-> addr, password |-> TRUE]
Mailbox(u, addr) == [st |-> "verified", user |-> u, addr |-> addr,
                     primary |-> TRUE, code |-> 0]

\* source: who manages the membership of the last account.
Bootstrapped(source) ==
    /\ users = [u \in Users |-> IF u = Founder THEN Person(FounderAddress)
                                ELSE Absent]
    /\ emails = [e \in EmailIDs |-> IF e = FounderMail
                                    THEN Mailbox(Founder, FounderAddress)
                                    ELSE Absent]
    /\ index = [a \in Address |-> IF a = FounderAddress THEN Founder ELSE None]
    /\ memberships = [w \in Workspaces |-> [u \in Users |->
                        IF <<w, u>> = <<Home, Founder>>
                        THEN [Local("admin", "active") EXCEPT
                                !.source = source]
                        ELSE Absent]]

\* row: the membership of the second account.
Staffed(row) ==
    /\ users = [u \in Users |-> CASE u = Founder -> Person(FounderAddress)
                                  [] u = Second -> Person(SecondAddress)
                                  [] OTHER -> Absent]
    /\ emails = [e \in EmailIDs |->
                   CASE e = FounderMail -> Mailbox(Founder, FounderAddress)
                     [] e = SecondMail -> Mailbox(Second, SecondAddress)
                     [] OTHER -> Absent]
    /\ index = [a \in Address |-> CASE a = FounderAddress -> Founder
                                    [] a = SecondAddress -> Second
                                    [] OTHER -> None]
    /\ memberships = [w \in Workspaces |-> [u \in Users |->
                        CASE <<w, u>> = <<Home, Founder>> ->
                               Local("admin", "active")
                          [] <<w, u>> = <<Home, Second>> -> row
                          [] OTHER -> Absent]]

\* What both have in common.
Housed ==
    /\ workspaces = [w \in Workspaces |->
                       IF w = Home THEN [st |-> "enabled"] ELSE Absent]
    /\ admins = [u \in Users |-> IF u = Founder THEN "root" ELSE None]
    /\ invitations = [i \in InvitationIDs |-> Absent]
    /\ pats = [p \in PATIDs |-> Absent]

Federated ==
    LET name == DomainOf[FounderAddress] IN
    /\ domains = [d \in DomainIDs |->
                    IF d = HomeDomain
                    THEN [st |-> "confirmed", ws |-> Home, name |-> name,
                          policy |-> HomePolicy]
                    ELSE Absent]
    /\ domainNames = [n \in DomainNames |->
                        IF n = name THEN HomeDomain ELSE None]
    /\ identities = [i \in IdentityIDs |-> Absent]
    /\ spent = {}

Connected(u) ==
    /\ configs = [c \in ConfigIDs |->
                    IF c = HomeConfig
                    THEN [st |-> "enabled", ws |-> Home,
                          policy |-> HomeRoles]
                    ELSE Absent]
    /\ credentials = [k \in CredentialIDs |->
                        IF k = HomeKey
                        THEN [st |-> "live", config |-> HomeConfig]
                        ELSE Absent]
    /\ links = [l \in LinkIDs |->
                  IF l = HomeLink
                  THEN [st |-> "active", user |-> u, config |-> HomeConfig]
                  ELSE Absent]
    /\ groups = [g \in GroupIDs |-> Absent]
    /\ groupKeys = [c \in ConfigIDs |-> [x \in Externals |-> None]]

\* The operations of a mix that need a directory to work on, those that need
\* an account outside the workspace, and those one account is enough for.
Directed == {"ProvisionSCIMUser", "AdoptSCIMUser", "DeprovisionSCIMUser",
             "UpsertSCIMGroup"}
Recruiting == {"AddMembership", "AcceptInvitation"}
Solitary == {"CreateWorkspaceDomain", "CreateSCIMConfiguration",
             "UpdateSCIMConfiguration"}

\* An instance with a directory was bootstrapped before.
ASSUME MixAssumption ==
    \A m \in Mixes : "Bootstrap" \in m => m \cap Directed = {}

Init ==
    /\ mix \in Mixes
    /\ LET alone == mix \cap Solitary # {}
           directed == mix \cap Directed # {}
           source == IF directed THEN HomeConfig ELSE "local" IN
       /\ IF "Bootstrap" \in mix THEN AccountsInit
          ELSE /\ Housed
               /\ IF alone THEN Bootstrapped(source)
                  ELSE Staffed(IF mix \cap Recruiting # {} THEN Absent
                               ELSE [Local("member", "active") EXCEPT
                                       !.source = source])
       /\ IF directed THEN /\ Connected(IF alone THEN Founder ELSE Second)
                           /\ principals = {HomeConfig}
          ELSE ProvisioningInit /\ principals = {}
    /\ IF "FinishSSO" \in mix THEN Federated ELSE FederationInit
    /\ call = [r \in Requests |-> Idle]
    /\ begun = [c \in Ceremonies |-> Absent]
    /\ admitted = [i \in InvitationIDs |-> 0]
    /\ finished = [c \in Ceremonies |-> 0]
    /\ ended = {}
    /\ computed = {}
    /\ raced = {}

Steps(r) ==
    \/ Checks(r) \/ Lookups(r) \/ Refused(r)
    \/ AccountSteps(r) \/ WorkspaceSteps(r) \/ RoleSteps(r)
    \/ InvitationSteps(r) \/ TokenSteps(r)
    \/ ProfileSteps(r)
    \/ DomainSteps(r) \/ SSOSteps(r)
    \/ ConfigurationSteps(r) \/ LinkSteps(r) \/ GroupSteps(r)

Next == (\E r \in Requests : Steps(r)) \/ ClaimExpires

Spec == Init /\ [][Next]_vars

-----------------------------------------------------------------------------
(* Governance.                                                             *)

EnabledRoots == {u \in Roots : Enabled(u)}
EnabledAdmins(w) == {u \in ActiveAdmins(w) : Enabled(u)}

\* An instance that has a root administrator keeps one, whatever roots change
\* or withdraw each other's role concurrently, and no disabling or erasing of
\* accounts takes its last enabled one.  One whose first account came from a
\* sign-up never has one: Bootstrap then refuses.
RootRemains ==
    [][/\ Roots # {} => Roots' # {}
       /\ EnabledRoots # {} => EnabledRoots' # {} \/ Roots' # Roots]_vars

\* The step is the commit of r's call.
Completes(r) == At(r, "commit") /\ call'[r] = Idle

\* The guards of the memory store, which counts memberships when one is
\* written and enabled accounts when one is disabled.  A workspace with an
\* active admin, enabled or not, keeps one through every membership and role
\* operation except the unguarded ones; and a workspace with an enabled one
\* keeps it through the disabling and erasing of accounts, in whatever order
\* admins suspend, demote and disable each other.  What is left when the two
\* combine is EnabledAdminsRemain.
AdminsRemain ==
    [][\A w \in Workspaces :
         /\ ActiveAdmins(w) # {} =>
              \/ ActiveAdmins(w)' # {}
              \/ \E r \in Requests : /\ Completes(r)
                                     /\ call[r].op \in Unguarded
         /\ EnabledAdmins(w) # {} =>
              \/ EnabledAdmins(w)' # {}
              \/ ActiveAdmins(w)' # ActiveAdmins(w)]_vars

\* ADR-011 for an instance without a directory: a workspace that has an
\* enabled, active admin always keeps one, so that the tenant cannot be
\* orphaned.  RemoveMembership and UpsertMembership of the memory store count
\* the memberships of disabled accounts and let the last enabled admin go.
EnabledAdminsRemain ==
    [][\A w \in Workspaces :
         EnabledAdmins(w) # {} => EnabledAdmins(w)' # {}]_vars

\* ADR-011 and TENANT-003 for an instance without a directory: a workspace
\* that has an active admin always keeps one, whatever its account.  An
\* invitation accepted over a membership granted meanwhile demotes its holder
\* without that guard.
ActiveAdminsRemain ==
    [][\A w \in Workspaces :
         ActiveAdmins(w) # {} => ActiveAdmins(w)' # {}]_vars

\* A token that existed when its owner was disabled, suspended, removed or
\* deprovisioned, or its workspace disabled, stays revoked, whatever is
\* restored later and whatever authentication of it was under way.
EndedTokensStayDead == \A p \in ended : pats[p].st = "revoked"

-----------------------------------------------------------------------------
(* What is used once, and what is held by one.                             *)

\* An invitation admits one member, once, and never after it was revoked;
\* an SSO ceremony succeeds once however often its answer is replayed, even
\* when one replay signs in what another has just provisioned.
SingleUse ==
    /\ \A i \in InvitationIDs :
         admitted[i] = IF invitations[i].st = "accepted" THEN 1 ELSE 0
    /\ \A c \in Ceremonies : finished[c] <= 1

\* An address is in one record; sign-in finds an account by it exactly when
\* the account has verified it; and every account has one primary address.
\* Sign-ups, invitations, the directory, just-in-time provisioning and an
\* account's own additions all compete for addresses.
AddressesAreSound ==
    /\ \A e, f \in EmailIDs :
         Exists(emails, e) /\ Exists(emails, f) /\ e # f =>
           emails[e].addr # emails[f].addr
    /\ \A a \in Addresses :
         {emails[e].user : e \in {e \in EmailIDs : emails[e].st = "verified"
                                                  /\ emails[e].addr = a}}
           = IF index[a] = None THEN {} ELSE {index[a]}
    /\ \A u \in Registered :
         \E e \in EmailIDs :
           {f \in EmailIDs : /\ Exists(emails, f) /\ emails[f].user = u
                            /\ emails[f].primary} = {e}

\* A claim in the table is the one its name leads to: a name has one claim,
\* and a claim whose reservation lapsed and was taken cannot come back
\* through a confirmation that was under way.
ClaimsHoldTheirNames == \A d \in Claimed : domainNames[domains[d].name] = d

-----------------------------------------------------------------------------
(* The directory as the source of truth.                                   *)

\* SCIM-004 and ADR-011: no local mutation overwrites a membership that a
\* directory manages, so it keeps its source.  GrantRole checks the source of
\* the membership it reads and writes a local one later, over whatever an
\* adoption installed in between.
ManagedByOneSource ==
    [][\A w \in Workspaces, u \in Users :
         memberships[w][u] # Absent /\ memberships[w][u].source # "local" =>
           /\ memberships'[w][u] # Absent
           /\ memberships'[w][u].source = memberships[w][u].source]_vars

\* As long as no two changes of a directory overlapped, the membership of
\* each of its users is suspended once the user is deprovisioned, and once
\* computed it has the role that the user's groups give it.  Anonymizing an
\* account ends its links and leaves its memberships.
DirectoryHolds ==
    \A l \in LinkIDs :
      LET c == links[l].config
          u == links[l].user
          w == configs[c].ws IN
      Exists(links, l) /\ c \notin raced =>
        /\ links[l].st = "deprovisioned" /\ users[u].email \in Addresses =>
             memberships[w][u].st = "suspended"
        /\ l \in computed =>
             /\ Managed(c, w, u)
             /\ {memberships[w][u].role} =
                  Candidates(configs[c].policy,
                             {groups[g] : g \in LiveGroups(c)}, l)
=============================================================================
