---------------------------- MODULE TenancyEffects ----------------------------
(***************************************************************************)
(* What the transactions of Tenancy's store do to its tables, for any sets *)
(* of accounts, workspaces, tokens and concurrent calls: a commit with     *)
(* such an effect keeps the inductive invariant of TenancyCalls.           *)
(***************************************************************************)
EXTENDS TenancyInvariant, TLAPS

-----------------------------------------------------------------------------
(* A commit with the effects of its operation keeps the invariant.         *)

\* The end of a call marks others as stale and changes nothing else of them.
LEMMA OthersGoOn ==
    ASSUME Calls, NEW r \in Requests, Ends(r), NoneLost
    PROVE  Calls'
<1>1. \A m : Running(m) => Running(m)'
  BY Zenon DEF Running, Inputs, Aimed, Found, NoneLost
<1>2. ASSUME NEW m, Running(m)
      PROVE  Running([m EXCEPT !.stale = TRUE])
  <2> DEFINE n == [m EXCEPT !.stale = TRUE]
  <2>1. DOMAIN m = Fields
    BY <1>2 DEF Running
  <2>2. /\ DOMAIN n = Fields /\ n.todo = m.todo /\ n.op = m.op /\ n.ws = m.ws
        /\ n.cfg = m.cfg /\ n.rows = m.rows /\ n.row = m.row /\ n.to = m.to
        /\ n.actor = m.actor /\ n.id = m.id /\ n.config = m.config
        /\ n.ceremony = m.ceremony /\ n.addr = m.addr
    BY <2>1 DEF Fields
  <2> HIDE DEF n
  <2>3. Running(n)
    BY <1>2, <2>2 DEF Running, Inputs, Aimed, Found
  <2> QED BY <2>3 DEF n
<1>3. ASSUME NEW q \in Requests
      PROVE  call'[q] = Idle \/ Running(call'[q])
  <2>1. call'[q] \in {Idle, [call[q] EXCEPT !.stale = TRUE], call[q]}
    BY DEF Ends
  <2>2. CASE call'[q] = [call[q] EXCEPT !.stale = TRUE] /\ call'[q] # call[q]
             /\ q # r
    <3>1. ~At(q, "idle")
      BY <2>2 DEF Ends
    <3>2. Running(call[q])
      BY <3>1 DEF Calls, Idle, Blank, At
    <3> QED BY <2>2, <3>2, <1>2
  <2>3. CASE q = r
    BY <2>3 DEF Ends
  <2> QED BY Zenon, <2>1, <2>2, <2>3 DEF Calls
<1>4. call' = [q \in Requests |-> call'[q]]
  BY DEF Ends
<1>5. \A q \in Requests : (call[q] = Idle \/ Running(call[q]))'
  <2> TAKE q \in Requests
  <2>1. PICK m : m = call'[q]
    OBVIOUS
  <2>2. m = Idle \/ Running(m)
    BY <2>1, <1>3
  <2>3. CASE m = Idle
    BY <2>1, <2>3
  <2>4. CASE Running(m)
    <3>1. Running(m)'
      BY <2>4, <1>1
    <3>2. Running(call[q])'
      BY <2>1, <3>1 DEF Running, Inputs, Aimed, Found, Exists
    <3> QED BY <3>2
  <2> QED BY <2>2, <2>3, <2>4
<1> QED BY <1>4, <1>5 DEF Calls

\* A commit with this effect keeps the invariant.
LEMMA CommitHolds ==
    ASSUME Sound, NEW r \in Requests, NEW k, k = call[r], Inputs(k), Ends(r),
           Effect(k)
    PROVE  Sound'
<1>1. Calls'
  BY OthersGoOn DEF Sound, Effect
<1>2. Notes(k)
  BY DEF Ends
<1>3. TokenRows'
  <2>1. ended' = ended \cup {p \in Minted : LosesStanding(k.op, p)}
    BY <1>2 DEF Notes
  <2>2. TokensFollow(k.op)
    BY DEF Effect
  <2>3. ended' \subseteq PATIDs
    BY <2>1 DEF Sound, Tables, TokenRows, Minted
  <2>4. \A p \in ended' : pats'[p].st = "revoked"
    BY <2>1, <2>2 DEF Sound, Tables, TokenRows, TokensFollow, Minted
  <2> QED BY <2>2, <2>3, <2>4 DEF TokenRows, TokensFollow
<1>4. admitted' = [i \in InvitationIDs |->
                     IF invitations'[i].st = "accepted" THEN 1 ELSE 0]
  <2>1. admitted = [i \in InvitationIDs |->
                      IF invitations[i].st = "accepted" THEN 1 ELSE 0]
    BY DEF Sound, Tables, Uses
  <2>2. CASE k.op \in Admitting
    <3>1. admitted' = Counted(admitted, k.id)
      BY Zenon, <1>2, <2>2 DEF Notes, Admitting
    <3>2. Admits(TRUE, k.id)
      BY Zenon, <2>2 DEF Effect, Admits
    <3> QED BY <2>1, <3>1, <3>2 DEF Counted, Admits
  <2>3. CASE k.op \notin Admitting
    <3>1. admitted' = admitted
      BY <1>2, <2>3 DEF Notes, Admitting
    <3>2. Admits(FALSE, k.id)
      BY <2>3 DEF Effect, Admits
    <3> QED BY Zenon, <2>1, <3>1, <3>2 DEF Admits
  <2> QED BY <2>2, <2>3
<1>5. finished' = [c \in Ceremonies |-> IF c \in spent' THEN 1 ELSE 0]
  <2>1. finished = [c \in Ceremonies |-> IF c \in spent THEN 1 ELSE 0]
    BY DEF Sound, Tables, Uses
  <2>2. CASE k.op = "FinishSSO"
    <3>1. k.ceremony \notin spent /\ spent' = spent \cup {k.ceremony}
      BY <2>2 DEF Effect, Spending, Spends
    <3>2. CASE k.ceremony = None
      <4>1. finished' = finished
        BY Zenon, <1>2, <3>2 DEF Notes
      <4> QED BY <2>1, <3>1, <3>2, <4>1, DirectoryIDs
    <3>3. CASE k.ceremony # None
      <4>1. finished' = Counted(finished, k.ceremony)
        BY Zenon, <1>2, <3>3 DEF Notes
      <4> QED BY <2>1, <3>1, <4>1 DEF Counted
    <3> QED BY <3>2, <3>3
  <2>3. CASE k.op # "FinishSSO"
    <3>1. k.ceremony = None
      BY <2>3 DEF Inputs
    <3>2. finished' = finished /\ spent' = spent
      BY Zenon, <1>2, <2>3, <3>1 DEF Notes, Effect, Spending
    <3> QED BY <2>1, <3>2
  <2> QED BY <2>2, <2>3
<1>6. Tables'
  BY <1>3, <1>4, <1>5 DEF Effect, Rows, Tables, Uses, InvitationRows
<1> QED BY <1>1, <1>6 DEF Sound

-----------------------------------------------------------------------------
(* What a transaction leaves alone.                                        *)

LEMMA LeftAlone ==
    ASSUME Tables
    PROVE  /\ users' = users => UserRows' /\ NoneLost /\ AccountsStand
           /\ memberships' = memberships /\ NoneLost =>
                MemberRows' /\ MembersStand /\ AdminsStay
           /\ admins' = admins => AdminRows' /\ RootsStay
           /\ links' = links /\ NoneLost => LinkRows'
           /\ configs' = configs /\ credentials' = credentials
              /\ principals' = principals => ConfigRows'
           /\ groups' = groups => GroupRows'
           /\ domains' = domains /\ domainNames' = domainNames => DomainRows'
           /\ invitations' = invitations =>
                InvitationRows' /\ \A id : Admits(FALSE, id)
<1> USE DEF Tables
<1>1. users' = users => UserRows' /\ NoneLost /\ AccountsStand
  BY DEF UserRows, NoneLost, AccountsStand, Enabled, Exists
<1>2. memberships' = memberships /\ NoneLost =>
        MemberRows' /\ MembersStand /\ AdminsStay
  <2> SUFFICES ASSUME memberships' = memberships, NoneLost
               PROVE  MemberRows' /\ MembersStand /\ AdminsStay
    OBVIOUS
  <2>1. MemberRows'
    BY DEF MemberRows, NoneLost
  <2>2. MembersStand
    BY DEF MembersStand
  <2>3. AdminsStay
    BY DEF AdminsStay, ActiveAdmins, ActiveAdmin
  <2> QED BY <2>1, <2>2, <2>3
<1>3. admins' = admins => AdminRows' /\ RootsStay
  BY DEF AdminRows, RootsStay, Roots
<1>4. links' = links /\ NoneLost => LinkRows'
  BY DEF LinkRows, NoneLost, Exists
<1>5. configs' = configs /\ credentials' = credentials
      /\ principals' = principals => ConfigRows'
  BY DEF ConfigRows, ConfigRow, Exists
<1>6. groups' = groups => GroupRows'
  BY DEF GroupRows, GroupRow, Exists
<1>7. domains' = domains /\ domainNames' = domainNames => DomainRows'
  BY DEF DomainRows, Exists
<1>8. invitations' = invitations =>
        InvitationRows' /\ \A id : Admits(FALSE, id)
  BY DEF InvitationRows, Admits, Uses, Exists
<1> QED BY Zenon, <1>1, <1>2, <1>3, <1>4, <1>5, <1>6, <1>7, <1>8

\* Where nobody loses standing, tokens need only not come back.
LEMMA StandingTokens ==
    ASSUME Tables, AccountsStand, MembersStand, NEW op,
           op # "DisableWorkspace",
           pats' \in [PATIDs -> PAT \cup {Absent}],
           \A p \in PATIDs : pats[p].st = "revoked" => pats'[p].st = "revoked"
    PROVE  TokensFollow(op)
<1>1. ASSUME NEW p \in Minted PROVE ~LosesStanding(op, p)
  <2>1. pats[p] \in PAT
    BY <1>1 DEF Minted, Exists, Tables, TokenRows
  <2>2. pats[p].user \in Users /\ pats[p].ws \in Workspaces \cup {None}
    BY <2>1 DEF PAT
  <2> QED BY <2>2 DEF LosesStanding, AccountsStand, MembersStand
<1> QED BY <1>1 DEF TokensFollow

LEMMA SameTokens ==
    ASSUME Tables, AccountsStand, MembersStand, NEW op,
           op # "DisableWorkspace", pats' = pats
    PROVE  TokensFollow(op)
BY StandingTokens DEF Tables, TokenRows

\* revokeUserCredentialsLocked.
LEMMA RevokedTokens ==
    ASSUME Tables, NEW us, NEW ws, pats' = RevokedFor(us, ws)
    PROVE  /\ pats' \in [PATIDs -> PAT \cup {Absent}]
           /\ \A p \in PATIDs :
                pats[p].st = "revoked" => pats'[p].st = "revoked"
           /\ \A p \in Minted : pats[p].user \in us /\ pats[p].ws \in ws =>
                                  pats'[p].st = "revoked"
<1>1. ASSUME NEW p \in PATIDs
      PROVE  /\ pats'[p] \in PAT \cup {Absent}
             /\ pats[p].st = "revoked" => pats'[p].st = "revoked"
             /\ p \in Minted /\ pats[p].user \in us /\ pats[p].ws \in ws =>
                  pats'[p].st = "revoked"
  <2>1. pats[p] \in PAT \cup {Absent}
    BY DEF Tables, TokenRows
  <2>2. CASE pats[p] \in PAT
    <3>1. [pats[p] EXCEPT !.st = "revoked"] \in PAT
          /\ [pats[p] EXCEPT !.st = "revoked"].st = "revoked"
      BY <2>2 DEF PAT
    <3>2. pats'[p] = pats[p] \/ pats'[p] = [pats[p] EXCEPT !.st = "revoked"]
      BY DEF RevokedFor
    <3>3. p \in Minted /\ pats[p].user \in us /\ pats[p].ws \in ws =>
            pats'[p] = [pats[p] EXCEPT !.st = "revoked"]
      BY DEF RevokedFor, Minted
    <3> QED BY Zenon, <2>1, <3>1, <3>2, <3>3
  <2>3. CASE pats[p] = Absent
    <3>1. pats'[p] = Absent
      BY <2>3 DEF RevokedFor, Exists
    <3> QED BY <2>3, <3>1 DEF Minted, Exists
  <2> QED BY <2>1, <2>2, <2>3
<1>2. pats' = [p \in PATIDs |-> pats'[p]]
  BY DEF RevokedFor
<1>3. Minted \subseteq PATIDs
  BY DEF Minted
<1> QED BY <1>1, <1>2, <1>3

\* A transaction on other tables than memberships, offices, invitations and
\* tokens.
LEMMA OtherTables ==
    ASSUME Tables, NEW k, UNCHANGED <<memberships, admins, pats, invitations>>,
           UserRows', NoneLost, AccountsStand, LinkRows', ConfigRows',
           GroupRows', DomainRows', Spending(k), k.op \notin Admitting,
           k.op # "DisableWorkspace"
    PROVE  Effect(k)
<1>1. MemberRows' /\ MembersStand /\ AdminsStay
  BY LeftAlone
<1>2. AdminRows' /\ RootsStay /\ InvitationRows' /\ Admits(FALSE, k.id)
  BY Zenon, LeftAlone
<1>3. Admits(k.op \in Admitting, k.id)
  BY <1>2 DEF Admits
<1>4. TokensFollow(k.op)
  BY <1>1, SameTokens
<1>5. Rows'
  BY <1>1, <1>2 DEF Rows
<1> QED BY <1>1, <1>2, <1>3, <1>4, <1>5 DEF Effect

\* A transaction on none of the tables above at all.
LEMMA AllAlone ==
    ASSUME Tables, NEW k, Spending(k), k.op \notin Admitting,
           k.op # "DisableWorkspace",
           UNCHANGED <<users, memberships, admins, pats, invitations, domains,
                       domainNames, configs, credentials, links, groups,
                       principals>>
    PROVE  Effect(k)
BY LeftAlone, OtherTables

LEMMA AddressEffects ==
    ASSUME Tables, NEW k, UNCHANGED principals, k.op \notin Admitting,
           k.op # "DisableWorkspace", k.op # "FinishSSO",
           \/ \E e, u, a : StoreSaveEmail(e, u, a)
           \/ \E e : StoreReissueEmailVerification(e) \/ StoreVerifyEmail(e)
           \/ \E e, u : StoreRemoveEmail(u, e)
           \/ \E p, row : StoreTouchPAT(p, row)
           \/ \E w, row : StoreUpdateWorkspace(w, row)
           \/ \E u, i : StoreUnlinkSSO(u, i)
    PROVE  Effect(k)
<1> USE DEF accountVars, tenantVars, grantVars, directoryVars, federationVars,
            scimVars, groupVars, storeVars
<1>1. UNCHANGED <<users, memberships, admins, pats, invitations, domains,
                  domainNames, configs, credentials, links, groups, spent>>
  <2>1. CASE \/ \E e, u, a : StoreSaveEmail(e, u, a)
             \/ \E e : StoreReissueEmailVerification(e) \/ StoreVerifyEmail(e)
    BY <2>1 DEF StoreSaveEmail, StoreReissueEmailVerification,
                StoreVerifyEmail
  <2>2. CASE \/ \E e, u : StoreRemoveEmail(u, e)
             \/ \E p, row : StoreTouchPAT(p, row)
    BY <2>2 DEF StoreRemoveEmail, StoreTouchPAT
  <2>3. CASE \/ \E w, row : StoreUpdateWorkspace(w, row)
             \/ \E u, i : StoreUnlinkSSO(u, i)
    BY <2>3 DEF StoreUpdateWorkspace, StoreUnlinkSSO
  <2> QED BY <2>1, <2>2, <2>3
<1>2. Spending(k)
  BY <1>1 DEF Spending
<1> QED BY <1>1, <1>2, AllAlone

LEMMA CeremonyEffects ==
    ASSUME Tables, NEW k, UNCHANGED principals, k.op = "FinishSSO",
           \/ \E i, u, p, s : StoreLinkSSO(i, u, p, s, k.ceremony)
           \/ \E i, u : StoreTouchSSO(i, u, k.ceremony)
    PROVE  Effect(k)
<1> USE DEF accountVars, tenantVars, grantVars, scimVars, groupVars
<1>1. /\ UNCHANGED <<users, memberships, admins, pats, invitations, domains,
                     domainNames, configs, credentials, links, groups>>
      /\ Spends(k.ceremony)
  BY DEF StoreLinkSSO, StoreTouchSSO
<1>2. Spending(k)
  BY <1>1 DEF Spending
<1> QED BY <1>1, <1>2, AllAlone DEF Admitting

\* The projected address of an account changes, and not its status.
LEMMA ProjectionEffects ==
    ASSUME Tables, NEW k, UNCHANGED principals, k.op \notin Admitting,
           k.op # "DisableWorkspace", k.op # "FinishSSO",
           \/ \E e, u : StoreSetPrimaryEmail(u, e)
           \/ \E u, row : StoreUpdateUser(u, row)
    PROVE  Effect(k)
<1> USE DEF accountVars, tenantVars, grantVars, directoryVars, federationVars,
            scimVars, groupVars
<1>1. /\ UNCHANGED <<memberships, admins, pats, invitations, domains,
                     domainNames, configs, credentials, links, groups, spent>>
      /\ \E u, a : users' = [users EXCEPT ![u].email = a]
  BY Zenon DEF StoreSetPrimaryEmail, StoreUpdateUser
<1>2. PICK u, a : users' = [users EXCEPT ![u].email = a]
  BY Zenon, <1>1
<1>3. UserRows
  BY DEF Tables
<1>4. ASSUME NEW v \in Users
      PROVE  /\ Exists(users, v) => Exists(users, v)'
             /\ Enabled(v) => users'[v].st # "disabled"
             /\ Exists(users, v)' =>
                  /\ DOMAIN users'[v] = {"st", "email", "password"}
                  /\ users'[v].st \in {"enabled", "disabled"}
  <2>1. CASE v = u
    <3>1. users'[v] = [users[v] EXCEPT !.email = a]
      BY <1>2, <1>3, <2>1 DEF UserRows
    <3>2. CASE Exists(users, v)
      <4>1. DOMAIN users[v] = {"st", "email", "password"}
            /\ users[v].st \in {"enabled", "disabled"}
        BY <1>3, <3>2 DEF UserRows
      <4>2. /\ DOMAIN users'[v] = {"st", "email", "password"}
            /\ users'[v].st = users[v].st
        BY <3>1, <4>1
      <4>3. users'[v] # Absent
        BY <4>1, <4>2 DEF Absent
      <4> QED BY <4>1, <4>2, <4>3 DEF Exists, Enabled
    <3>3. CASE ~Exists(users, v)
      <4>1. users'[v] = Absent
        BY <3>1, <3>3 DEF Exists, Absent
      <4> QED BY <3>3, <4>1 DEF Exists, Enabled, Absent
    <3> QED BY <3>2, <3>3
  <2>2. CASE v # u
    <3>1. users'[v] = users[v]
      BY <1>2, <1>3, <2>2 DEF UserRows
    <3> QED BY <1>3, <3>1 DEF UserRows, Exists, Enabled
  <2> QED BY <2>1, <2>2
<1>5. users' = [v \in Users |-> users'[v]]
  BY <1>2, <1>3 DEF UserRows
<1>6. UserRows' /\ NoneLost /\ AccountsStand
  BY <1>4, <1>5 DEF UserRows, NoneLost, AccountsStand
<1>7. Spending(k)
  BY <1>1 DEF Spending
<1>8. LinkRows' /\ ConfigRows' /\ GroupRows' /\ DomainRows'
  BY <1>1, <1>6, LeftAlone
<1> QED BY <1>1, <1>6, <1>7, <1>8, OtherTables

-----------------------------------------------------------------------------
(* Domain claims.                                                          *)

DomainRow(row, d, names) ==
    /\ DOMAIN row = {"st", "ws", "name", "policy"}
    /\ row.name \in DomainNames /\ names[row.name] = d

\* A claim changes its status or its policy.
LEMMA ClaimUpdated ==
    ASSUME DomainRows, domainNames' = domainNames, NEW d, NEW f, NEW x,
           Exists(domains, d),
           \/ f = "st" /\ domains' = [domains EXCEPT ![d].st = x]
           \/ f = "policy" /\ domains' = [domains EXCEPT ![d].policy = x]
    PROVE  DomainRows'
<1>1. domains' = [c \in DomainIDs |-> domains'[c]]
      /\ \A c \in DomainIDs \ {d} : domains'[c] = domains[c]
  BY DEF DomainRows
<1>2. ASSUME d \in DomainIDs, Exists(domains, d)'
      PROVE  DomainRow(domains'[d], d, domainNames)
  <2>1. domains'[d] = [domains[d] EXCEPT !.st = x]
        \/ domains'[d] = [domains[d] EXCEPT !.policy = x]
    BY <1>2 DEF DomainRows
  <2>2. /\ DOMAIN domains[d] = {"st", "ws", "name", "policy"}
        /\ domains[d].name \in DomainNames
        /\ domainNames[domains[d].name] = d
    BY <1>2 DEF DomainRows
  <2>3. /\ DOMAIN domains'[d] = {"st", "ws", "name", "policy"}
        /\ domains'[d].name = domains[d].name
    BY <2>1, <2>2
  <2> QED BY <2>2, <2>3 DEF DomainRow
<1>3. domainNames' = [n \in DomainNames |-> domainNames'[n]]
  BY DEF DomainRows
<1> QED BY <1>1, <1>2, <1>3 DEF DomainRows, DomainRow, Exists

LEMMA ClaimTaken ==
    ASSUME DomainRows, NEW d \in DomainIDs, NEW w, NEW n \in DomainNames,
           StoreCreateWorkspaceDomain(d, w, n)
    PROVE  DomainRows'
<1> DEFINE row == [st |-> "fresh", ws |-> w, name |-> n, policy |-> NoPolicy]
<1>1. domains' = [Evicted(n) EXCEPT ![d] = row]
      /\ domainNames' = [domainNames EXCEPT ![n] = d]
  BY DEF StoreCreateWorkspaceDomain
<1>2. DOMAIN row = {"st", "ws", "name", "policy"} /\ row.name = n
  OBVIOUS
<1> HIDE DEF row
<1>3. \A m \in DomainNames :
        domainNames'[m] = IF m = n THEN d ELSE domainNames[m]
  BY <1>1 DEF DomainRows
<1>4. Evicted(n) = [c \in DomainIDs |-> Evicted(n)[c]]
      /\ \A c \in DomainIDs : \/ Evicted(n)[c] = Absent
                              \/ c # domainNames[n]
                                 /\ Evicted(n)[c] = domains[c]
  BY Zenon, DirectoryIDs DEF DomainRows, Evicted
<1>5. \A c \in DomainIDs : domains'[c] = IF c = d THEN row ELSE Evicted(n)[c]
  BY <1>1, <1>4
<1>6. ASSUME NEW c \in DomainIDs, domains'[c] # Absent
      PROVE  DomainRow(domains'[c], c, domainNames')
  <2>1. CASE c = d
    BY <2>1, <1>2, <1>3, <1>5 DEF DomainRow
  <2>2. CASE c # d
    <3>1. domains'[c] = domains[c] /\ c # domainNames[n]
      BY <1>4, <1>5, <1>6, <2>2
    <3>2. DomainRow(domains[c], c, domainNames)
      BY <3>1, <1>6 DEF DomainRows, DomainRow, Exists
    <3> QED BY <3>1, <3>2, <1>3 DEF DomainRow
  <2> QED BY <2>1, <2>2
<1>7. domains' = [c \in DomainIDs |-> domains'[c]]
      /\ domainNames' = [m \in DomainNames |-> domainNames'[m]]
  BY <1>1, <1>4 DEF DomainRows
<1> QED BY <1>6, <1>7 DEF DomainRows, DomainRow, Exists

LEMMA ClaimEvicted ==
    ASSUME DomainRows, NEW n, domains' = Evicted(n), domainNames' = domainNames
    PROVE  DomainRows'
<1>1. domains' = [c \in DomainIDs |-> domains'[c]]
      /\ \A c \in DomainIDs : domains'[c] \in {Absent, domains[c]}
  BY Zenon DEF DomainRows, Evicted
<1> QED BY <1>1 DEF DomainRows, Exists

\* The name is freed, and no other claim held it.
LEMMA ClaimDropped ==
    ASSUME DomainRows, NEW d \in DomainIDs, StoreDeleteWorkspaceDomain(d)
    PROVE  DomainRows'
<1>1. /\ domains' = [domains EXCEPT ![d] = Absent]
      /\ domainNames' = [domainNames EXCEPT ![domains[d].name] = None]
      /\ Exists(domains, d)
  BY DEF StoreDeleteWorkspaceDomain
<1>2. domains' = [c \in DomainIDs |-> domains'[c]]
      /\ domainNames' = [m \in DomainNames |-> domainNames'[m]]
  BY <1>1 DEF DomainRows
<1>3. ASSUME NEW c \in DomainIDs, domains'[c] # Absent
      PROVE  DomainRow(domains'[c], c, domainNames')
  <2>1. c # d /\ domains'[c] = domains[c]
    BY <1>1, <1>3 DEF DomainRows
  <2>2. DomainRow(domains[c], c, domainNames)
    BY <2>1, <1>3 DEF DomainRows, DomainRow, Exists
  <2>3. DomainRow(domains[d], d, domainNames)
    BY <1>1 DEF DomainRows, DomainRow, Exists
  <2>4. domains[c].name # domains[d].name
    BY <2>1, <2>2, <2>3 DEF DomainRow
  <2>5. domainNames'[domains[c].name] = domainNames[domains[c].name]
    BY <1>1, <2>2, <2>4 DEF DomainRow, DomainRows
  <2> QED BY <2>1, <2>2, <2>5 DEF DomainRow
<1> QED BY <1>2, <1>3 DEF DomainRows, DomainRow, Exists

LEMMA ClaimEffects ==
    ASSUME Tables, NEW k, UNCHANGED principals, k.op \notin Admitting,
           k.op # "DisableWorkspace", k.op # "FinishSSO",
           \/ \E d \in DomainIDs, n \in DomainNames : \E w :
                StoreCreateWorkspaceDomain(d, w, n)
           \/ \E n, w : StoreCreateWorkspaceDomainFails(w, n)
           \/ \E d : StoreConfirmWorkspaceDomain(d)
           \/ \E d, p : StoreUpdateWorkspaceDomainPolicy(d, p)
           \/ \E d \in DomainIDs : StoreDeleteWorkspaceDomain(d)
    PROVE  Effect(k)
<1> USE DEF accountVars, tenantVars, grantVars, scimVars, groupVars
<1>1. UNCHANGED <<users, memberships, admins, pats, invitations, configs,
                  credentials, links, groups, spent>>
  BY DEF StoreCreateWorkspaceDomain, StoreCreateWorkspaceDomainFails,
         StoreConfirmWorkspaceDomain, StoreUpdateWorkspaceDomainPolicy,
         StoreDeleteWorkspaceDomain
<1>2. DomainRows
  BY DEF Tables
<1>3. DomainRows'
  <2>1. CASE \E d \in DomainIDs, n \in DomainNames : \E w :
               StoreCreateWorkspaceDomain(d, w, n)
    BY <1>2, <2>1, ClaimTaken
  <2>2. CASE \E n, w : StoreCreateWorkspaceDomainFails(w, n)
    BY <1>2, <2>2, ClaimEvicted DEF StoreCreateWorkspaceDomainFails
  <2>3. CASE \E d : StoreConfirmWorkspaceDomain(d)
    <3>1. PICK d : StoreConfirmWorkspaceDomain(d)
      BY <2>3
    <3>2. Exists(domains, d)
      BY <3>1 DEF StoreConfirmWorkspaceDomain, Exists, Absent
    <3>3. /\ domains' = [domains EXCEPT ![d].st = "confirmed"]
          /\ domainNames' = domainNames
      BY <3>1 DEF StoreConfirmWorkspaceDomain
    <3> QED BY Zenon, <1>2, <3>2, <3>3, ClaimUpdated
  <2>4. CASE \E d, p : StoreUpdateWorkspaceDomainPolicy(d, p)
    <3>1. PICK d, p : StoreUpdateWorkspaceDomainPolicy(d, p)
      BY <2>4
    <3>2. Exists(domains, d)
      BY <3>1 DEF StoreUpdateWorkspaceDomainPolicy, Exists, Absent
    <3>3. /\ domains' = [domains EXCEPT ![d].policy = p]
          /\ domainNames' = domainNames
      BY <3>1 DEF StoreUpdateWorkspaceDomainPolicy
    <3> QED BY Zenon, <1>2, <3>2, <3>3, ClaimUpdated
  <2>5. CASE \E d \in DomainIDs : StoreDeleteWorkspaceDomain(d)
    BY <1>2, <2>5, ClaimDropped
  <2> QED BY <2>1, <2>2, <2>3, <2>4, <2>5
<1>4. Spending(k)
  BY <1>1 DEF Spending
<1>5. UserRows' /\ NoneLost /\ AccountsStand
  BY <1>1, LeftAlone
<1>6. LinkRows' /\ ConfigRows' /\ GroupRows'
  BY <1>1, <1>5, LeftAlone
<1> QED BY <1>1, <1>3, <1>4, <1>5, <1>6, OtherTables

-----------------------------------------------------------------------------
(* SCIM configurations and their credentials.                              *)

CredentialRow(row) == DOMAIN row = {"st", "config"} /\ row.config \in ConfigIDs

LEMMA ConfigurationCreated ==
    ASSUME Tables, UNCHANGED principals, NEW c \in ConfigIDs, NEW k,
           NEW w \in Workspaces, NEW p, StoreCreateSCIMConfiguration(c, k, w, p)
    PROVE  ConfigRows'
<1> DEFINE row == [st |-> "enabled", ws |-> w, policy |-> p]
           key == [st |-> "live", config |-> c]
<1>1. ConfigRow(row) /\ CredentialRow(key)
  BY DEF ConfigRow, CredentialRow
<1>2. /\ configs' = [configs EXCEPT ![c] = row]
      /\ credentials' = [credentials EXCEPT ![k] = key]
  BY DEF StoreCreateSCIMConfiguration
<1> HIDE DEF row, key
<1>3. ConfigRows
  BY DEF Tables
<1>4. \A d \in ConfigIDs : configs'[d] \in {row, configs[d]}
  BY <1>2, <1>3 DEF ConfigRows
<1>5. \A d \in CredentialIDs : credentials'[d] \in {key, credentials[d]}
  BY <1>2, <1>3 DEF ConfigRows
<1>6. /\ configs' = [d \in ConfigIDs |-> configs'[d]]
      /\ credentials' = [d \in CredentialIDs |-> credentials'[d]]
  BY <1>2, <1>3 DEF ConfigRows
<1>7. \A d \in ConfigIDs : configs'[d] # Absent => ConfigRow(configs'[d])
  BY <1>1, <1>3, <1>4 DEF ConfigRows, Exists
<1>8. \A d \in CredentialIDs : credentials'[d] # Absent =>
                                 CredentialRow(credentials'[d])
  BY <1>1, <1>3, <1>5 DEF ConfigRows, Exists, CredentialRow
<1> QED BY <1>3, <1>6, <1>7, <1>8 DEF ConfigRows, ConfigRow, CredentialRow,
                                      Exists

LEMMA CredentialSaved ==
    ASSUME Tables, UNCHANGED principals, NEW c \in ConfigIDs, NEW k,
           StoreSaveSCIMCredential(k, c)
    PROVE  ConfigRows'
<1> DEFINE key == [st |-> "live", config |-> c]
<1>1. CredentialRow(key)
  BY DEF CredentialRow
<1>2. /\ configs' = configs
      /\ credentials' = [credentials EXCEPT ![k] = key]
  BY DEF StoreSaveSCIMCredential
<1> HIDE DEF key
<1>3. ConfigRows
  BY DEF Tables
<1>5. \A d \in CredentialIDs : credentials'[d] \in {key, credentials[d]}
  BY <1>2, <1>3 DEF ConfigRows
<1>6. credentials' = [d \in CredentialIDs |-> credentials'[d]]
  BY <1>2, <1>3 DEF ConfigRows
<1>8. \A d \in CredentialIDs : credentials'[d] # Absent =>
                                 CredentialRow(credentials'[d])
  BY <1>1, <1>3, <1>5 DEF ConfigRows, Exists, CredentialRow
<1> QED BY <1>2, <1>3, <1>6, <1>8 DEF ConfigRows, ConfigRow, CredentialRow,
                                      Exists

\* Revoking marks credentials that exist.
LEMMA CredentialsMarked ==
    ASSUME ConfigRows, NEW ks,
           \A k \in ks : k \in CredentialIDs => Exists(credentials, k),
           \A k \in CredentialIDs :
             credentials'[k] = IF k \in ks
                               THEN [credentials[k] EXCEPT !.st = "revoked"]
                               ELSE credentials[k]
    PROVE  \A k \in CredentialIDs : credentials'[k] # Absent =>
                                      CredentialRow(credentials'[k])
<1> SUFFICES ASSUME NEW k \in CredentialIDs, credentials'[k] # Absent
             PROVE  CredentialRow(credentials'[k])
  OBVIOUS
<1>1. CASE k \in ks
  <2>1. /\ DOMAIN credentials[k] = {"st", "config"}
        /\ credentials[k].config \in ConfigIDs
    BY <1>1 DEF ConfigRows
  <2>2. credentials'[k] = [credentials[k] EXCEPT !.st = "revoked"]
    BY <1>1
  <2> QED BY <2>1, <2>2 DEF CredentialRow
<1>2. CASE k \notin ks
  BY Zenon, <1>2 DEF ConfigRows, CredentialRow, Exists
<1> QED BY <1>1, <1>2

LEMMA CredentialsRevoked ==
    ASSUME Tables, UNCHANGED principals,
           \/ \E c, k : StoreRevokeSCIMCredential(c, k)
           \/ \E c : StoreDisableSCIMConfiguration(c)
    PROVE  ConfigRows'
<1>1. ConfigRows
  BY DEF Tables
<1>2. CASE \E c, k : StoreRevokeSCIMCredential(c, k)
  <2>1. PICK c, k : StoreRevokeSCIMCredential(c, k)
    BY <1>2
  <2>2. /\ configs' = configs /\ Exists(credentials, k)
        /\ credentials' = [credentials EXCEPT ![k].st = "revoked"]
    BY <2>1 DEF StoreRevokeSCIMCredential
  <2>3. \A d \in CredentialIDs :
          credentials'[d] = IF d \in {k}
                            THEN [credentials[d] EXCEPT !.st = "revoked"]
                            ELSE credentials[d]
    BY <1>1, <2>2 DEF ConfigRows
  <2>4. credentials' = [d \in CredentialIDs |-> credentials'[d]]
    BY <1>1, <2>2 DEF ConfigRows
  <2>5. \A d \in CredentialIDs : credentials'[d] # Absent =>
                                   CredentialRow(credentials'[d])
    BY Zenon, <1>1, <2>2, <2>3, CredentialsMarked
  <2> QED BY <1>1, <2>2, <2>4, <2>5 DEF ConfigRows, ConfigRow, CredentialRow,
                                        Exists
<1>3. CASE \E c : StoreDisableSCIMConfiguration(c)
  <2>1. PICK c : StoreDisableSCIMConfiguration(c)
    BY <1>3
  <2> DEFINE ks == {k \in CredentialIDs : Exists(credentials, k)
                                          /\ credentials[k].config = c}
  <2>2. /\ configs' = [configs EXCEPT ![c].st = "disabled"]
        /\ Exists(configs, c)
        /\ credentials' = [k \in CredentialIDs |->
             IF k \in ks THEN [credentials[k] EXCEPT !.st = "revoked"]
             ELSE credentials[k]]
    BY <2>1 DEF StoreDisableSCIMConfiguration
  <2>3. \A k \in ks : Exists(credentials, k)
    OBVIOUS
  <2> HIDE DEF ks
  <2>4. \A d \in CredentialIDs : credentials'[d] # Absent =>
                                   CredentialRow(credentials'[d])
    BY <1>1, <2>2, <2>3, CredentialsMarked
  <2>5. credentials' = [d \in CredentialIDs |-> credentials'[d]]
    BY <2>2
  <2>6. configs' = [d \in ConfigIDs |-> configs'[d]]
    BY Zenon, <1>1, <2>2 DEF ConfigRows
  <2>7. ASSUME NEW d \in ConfigIDs, configs'[d] # Absent
        PROVE  ConfigRow(configs'[d])
    <3>1. CASE d = c
      <4>1. configs'[d] = [configs[d] EXCEPT !.st = "disabled"]
        BY <1>1, <2>2, <3>1 DEF ConfigRows
      <4>2. ConfigRow(configs[d])
        BY <1>1, <2>2, <3>1 DEF ConfigRows
      <4> QED BY <4>1, <4>2 DEF ConfigRow
    <3>2. CASE d # c
      <4>1. configs'[d] = configs[d]
        BY <1>1, <2>2, <3>2 DEF ConfigRows
      <4> QED BY <1>1, <2>7, <4>1 DEF ConfigRows, Exists
    <3> QED BY <3>1, <3>2
  <2> QED BY <1>1, <2>4, <2>5, <2>6, <2>7
          DEF ConfigRows, ConfigRow, CredentialRow, Exists
<1> QED BY <1>2, <1>3

LEMMA ConfigurationEffects ==
    ASSUME Tables, NEW k, k.op \notin Admitting,
           k.op # "DisableWorkspace", k.op # "FinishSSO",
           \/ /\ UNCHANGED principals
              /\ \/ \E c \in ConfigIDs, w \in Workspaces : \E x, p :
                      StoreCreateSCIMConfiguration(c, x, w, p)
                 \/ \E c \in ConfigIDs : \E x : StoreSaveSCIMCredential(x, c)
                 \/ \E c, x : StoreRevokeSCIMCredential(c, x)
                 \/ \E c : StoreDisableSCIMConfiguration(c)
           \/ /\ UNCHANGED storeVars
              /\ \E c \in ConfigIDs : principals' = principals \cup {c}
    PROVE  Effect(k)
<1> USE DEF accountVars, tenantVars, grantVars, federationVars, groupVars,
            storeVars, directoryVars, scimVars
<1>1. UNCHANGED <<users, memberships, admins, pats, invitations, domains,
                  domainNames, links, groups, spent>>
  BY DEF StoreCreateSCIMConfiguration, StoreSaveSCIMCredential,
         StoreRevokeSCIMCredential, StoreDisableSCIMConfiguration
<1>2. ConfigRows'
  <2>1. CASE UNCHANGED storeVars
             /\ \E c \in ConfigIDs : principals' = principals \cup {c}
    BY <2>1 DEF Tables, ConfigRows, ConfigRow, Exists
  <2> QED BY <2>1, ConfigurationCreated, CredentialSaved, CredentialsRevoked
<1>4. Spending(k)
  BY <1>1 DEF Spending
<1>5. UserRows' /\ NoneLost /\ AccountsStand
  BY <1>1, LeftAlone
<1>6. LinkRows' /\ DomainRows' /\ GroupRows'
  BY <1>1, <1>5, LeftAlone
<1> QED BY <1>1, <1>2, <1>4, <1>5, <1>6, OtherTables

-----------------------------------------------------------------------------
(* Accounts: their status, and the tokens that end with it.                *)

LEMMA AccountUpdated ==
    ASSUME Tables, NEW u, Exists(users, u), NEW st \in {"enabled", "disabled"},
           \/ users' = [users EXCEPT ![u].st = st]
           \/ \E a : users' = [users EXCEPT ![u].st = st, ![u].email = a]
    PROVE  /\ UserRows' /\ NoneLost
           /\ \A v \in Users \ {u} : users'[v] = users[v]
           /\ st = "enabled" => AccountsStand
<1>1. UserRows
  BY DEF Tables
<1>2. users' = [v \in Users |-> users'[v]]
      /\ \A v \in Users \ {u} : users'[v] = users[v]
  BY <1>1 DEF UserRows
<1>3. ASSUME u \in Users
      PROVE  /\ DOMAIN users'[u] = {"st", "email", "password"}
             /\ users'[u].st = st
  <2>1. DOMAIN users[u] = {"st", "email", "password"}
    BY Zenon, <1>1, <1>3 DEF UserRows
  <2>2. \/ users'[u] = [users[u] EXCEPT !.st = st]
        \/ \E a : users'[u] = [users[u] EXCEPT !.st = st, !.email = a]
    BY Zenon, <1>1, <1>3 DEF UserRows
  <2> QED BY Zenon, <2>1, <2>2
<1>4. u \in Users => users'[u] # Absent
  BY <1>3 DEF Absent
<1>5. UserRows'
  BY <1>1, <1>2, <1>3 DEF UserRows, Exists
<1>6. NoneLost
  BY <1>2, <1>4 DEF NoneLost, Exists
<1>7. ASSUME st = "enabled" PROVE AccountsStand
  BY <1>2, <1>3, <1>7 DEF AccountsStand, Enabled
<1> QED BY <1>2, <1>5, <1>6, <1>7

LEMMA TokensOfAccount ==
    ASSUME Tables, NEW u, NEW op, op # "DisableWorkspace", MembersStand,
           \A v \in Users \ {u} : users'[v] = users[v],
           pats' = RevokedFor({u}, Everywhere)
    PROVE  TokensFollow(op)
<1>1. /\ pats' \in [PATIDs -> PAT \cup {Absent}]
      /\ \A p \in PATIDs : pats[p].st = "revoked" => pats'[p].st = "revoked"
      /\ \A p \in Minted : pats[p].user \in {u} /\ pats[p].ws \in Everywhere
                             => pats'[p].st = "revoked"
  BY Zenon, RevokedTokens
<1>2. ASSUME NEW p \in Minted, LosesStanding(op, p)
      PROVE  pats[p].user = u /\ pats[p].ws \in Everywhere
  <2>1. pats[p] \in PAT
    BY <1>2 DEF Minted, Exists, Tables, TokenRows
  <2>2. pats[p].user \in Users /\ pats[p].ws \in Workspaces \cup {None}
    BY <2>1 DEF PAT
  <2>3. Enabled(pats[p].user) /\ users'[pats[p].user].st = "disabled"
    BY Zenon, <1>2, <2>2 DEF LosesStanding, MembersStand
  <2>4. pats[p].user = u
    BY <2>2, <2>3 DEF Enabled
  <2> QED BY <2>2, <2>4 DEF Everywhere
<1> QED BY Zenon, <1>1, <1>2 DEF TokensFollow

LEMMA StatusEffects ==
    ASSUME Tables, NEW k, UNCHANGED principals, k.op \notin Admitting,
           k.op # "DisableWorkspace", k.op # "FinishSSO", NEW u,
           \/ StoreSetUserDisabled(u, "disabled")
           \/ StoreSetUserDisabled(u, "enabled")
           \/ StoreRevokeUserCredentials(u)
    PROVE  Effect(k)
<1> USE DEF accountVars, tenantVars, grantVars, federationVars, groupVars,
            directoryVars, scimVars
<1>1. /\ UNCHANGED <<memberships, admins, invitations, domains, domainNames,
                     configs, credentials, links, groups, spent>>
      /\ Exists(users, u)
      /\ \/ users' = users \/ users' = [users EXCEPT ![u].st = "enabled"]
         \/ users' = [users EXCEPT ![u].st = "disabled"] /\ Dispensable(u)
      /\ \/ pats' = RevokedFor({u}, Everywhere)
         \/ pats' = pats /\ users' = [users EXCEPT ![u].st = "enabled"]
  BY DEF StoreSetUserDisabled, StoreRevokeUserCredentials
<1>2. /\ UserRows' /\ NoneLost
      /\ \A v \in Users \ {u} : users'[v] = users[v]
      /\ pats' = pats => AccountsStand \/ pats' = RevokedFor({u}, Everywhere)
  <2>1. CASE users' = users
    BY <1>1, <2>1, LeftAlone
  <2>2. CASE users' = [users EXCEPT ![u].st = "enabled"]
    BY Zenon, <1>1, <2>2, AccountUpdated
  <2>3. CASE users' = [users EXCEPT ![u].st = "disabled"]
             /\ pats' = RevokedFor({u}, Everywhere)
    BY Zenon, <1>1, <2>3, AccountUpdated
  <2> QED BY <1>1, <2>1, <2>2, <2>3
<1>3. MemberRows' /\ MembersStand /\ AdminsStay
  BY <1>1, <1>2, LeftAlone
<1>4. TokensFollow(k.op)
  <2>1. CASE pats' = RevokedFor({u}, Everywhere)
    BY Zenon, <1>2, <1>3, <2>1, TokensOfAccount
  <2>2. CASE pats' = pats /\ pats' # RevokedFor({u}, Everywhere)
    BY <1>2, <1>3, <2>2, SameTokens
  <2> QED BY <1>1, <2>1, <2>2
<1>5. /\ AdminRows' /\ RootsStay /\ LinkRows' /\ ConfigRows' /\ GroupRows'
      /\ DomainRows' /\ InvitationRows' /\ Admits(FALSE, k.id)
  BY Zenon, <1>1, <1>2, LeftAlone
<1>6. Spending(k) /\ Admits(k.op \in Admitting, k.id)
  BY <1>1, <1>5 DEF Spending, Admits
<1>7. AccountsStand \/ Closing
  <2>1. CASE users' = users
    BY <2>1, LeftAlone
  <2>2. CASE users' = [users EXCEPT ![u].st = "enabled"]
    BY Zenon, <1>1, <2>2, AccountUpdated
  <2>3. CASE Dispensable(u)
    BY Zenon, <1>2, <2>3 DEF Closing
  <2> QED BY <1>1, <2>1, <2>2, <2>3
<1> QED BY Zenon, <1>2, <1>3, <1>4, <1>5, <1>6, <1>7 DEF Effect, Rows

\* The rows of invitations and links that name the account are marked.
LEMMA Anonymized ==
    ASSUME Tables, NEW u, StoreAnonymizeUser(u), NoneLost
    PROVE  InvitationRows' /\ Admits(FALSE, u) /\ LinkRows'
<1>1. /\ invitations' = [i \in InvitationIDs |->
                           IF Exists(invitations, i) /\ invitations[i].user = u
                           THEN [invitations[i] EXCEPT !.addr = None]
                           ELSE invitations[i]]
      /\ links' = [l \in LinkIDs |-> IF Exists(links, l) /\ links[l].user = u
                     THEN [links[l] EXCEPT !.st = "deprovisioned"]
                     ELSE links[l]]
  BY DEF StoreAnonymizeUser
<1>2. ASSUME NEW i \in InvitationIDs
      PROVE  /\ invitations'[i] # Absent =>
                  DOMAIN invitations'[i] = {"st", "ws", "addr", "role", "user"}
             /\ invitations'[i].st = invitations[i].st
  <2>1. CASE Exists(invitations, i) /\ invitations[i].user = u
    <3>1. DOMAIN invitations[i] = {"st", "ws", "addr", "role", "user"}
      BY <2>1 DEF Tables, Uses
    <3>2. invitations'[i] = [invitations[i] EXCEPT !.addr = None]
      BY <1>1, <2>1
    <3> QED BY <3>1, <3>2
  <2>2. CASE ~(Exists(invitations, i) /\ invitations[i].user = u)
    BY <1>1, <2>2 DEF Tables, Uses, Exists
  <2> QED BY <2>1, <2>2
<1>3. ASSUME NEW l \in LinkIDs, links'[l] # Absent
      PROVE  /\ DOMAIN links'[l] = {"st", "user", "config"}
             /\ links'[l].user \in Users => users'[links'[l].user] # Absent
  <2>1. CASE Exists(links, l) /\ links[l].user = u
    <3>1. /\ DOMAIN links[l] = {"st", "user", "config"}
          /\ links[l].user \in Users => Exists(users, links[l].user)
      BY <2>1 DEF Tables, LinkRows
    <3>2. links'[l] = [links[l] EXCEPT !.st = "deprovisioned"]
      BY <1>1, <2>1
    <3>3. DOMAIN links'[l] = {"st", "user", "config"}
          /\ links'[l].user = links[l].user
      BY <3>1, <3>2
    <3> QED BY <3>1, <3>3 DEF NoneLost, Exists
  <2>2. CASE ~(Exists(links, l) /\ links[l].user = u)
    <3>1. links'[l] = links[l]
      BY <1>1, <2>2
    <3> QED BY <1>3, <3>1 DEF Tables, LinkRows, NoneLost, Exists
  <2> QED BY <2>1, <2>2
<1>4. InvitationRows'
  BY <1>1, <1>2 DEF InvitationRows, Exists
<1>5. Admits(FALSE, u)
  BY <1>2 DEF Admits
<1>6. LinkRows'
  BY <1>1, <1>3 DEF LinkRows, Exists
<1> QED BY Zenon, <1>4, <1>5, <1>6

LEMMA AnonymizeEffect ==
    ASSUME Tables, NEW k, UNCHANGED principals, k.op \notin Admitting,
           k.op # "DisableWorkspace", k.op # "FinishSSO", NEW u,
           StoreAnonymizeUser(u)
    PROVE  Effect(k)
<1> USE DEF accountVars, tenantVars, grantVars, federationVars, groupVars,
            directoryVars, scimVars
<1>1. /\ UNCHANGED <<memberships, admins, domains, domainNames, configs,
                     credentials, groups, spent>>
      /\ Exists(users, u)
      /\ \E a : users' = [users EXCEPT ![u].st = "disabled", ![u].email = a]
      /\ pats' = RevokedFor({u}, Everywhere)
  <2>1. UNCHANGED <<memberships, admins, domains, domainNames, configs,
                    credentials, groups, spent>>
        /\ Exists(users, u) /\ pats' = RevokedFor({u}, Everywhere)
    BY DEF StoreAnonymizeUser
  <2> DEFINE own == {e \in EmailIDs : Exists(emails, e) /\ emails[e].user = u}
             a == IF \E e \in own : emails[e].primary
                  THEN Tombstone(CHOOSE e \in own : emails[e].primary)
                  ELSE users[u].email
  <2>2. users' = [users EXCEPT ![u].st = "disabled",
                    ![u].email = IF \E e \in own : emails[e].primary
                                 THEN Tombstone(CHOOSE e \in own :
                                                  emails[e].primary)
                                 ELSE @]
    BY DEF StoreAnonymizeUser
  <2>3. users' = [users EXCEPT ![u].st = "disabled", ![u].email = a]
    BY <2>2
  <2> HIDE DEF a
  <2> QED BY Zenon, <2>1, <2>3
<1>2. /\ UserRows' /\ NoneLost
      /\ \A v \in Users \ {u} : users'[v] = users[v]
  BY Zenon, <1>1, AccountUpdated
<1>3. MemberRows' /\ MembersStand /\ AdminsStay
  BY <1>1, <1>2, LeftAlone
<1>4. TokensFollow(k.op)
  BY ZenonT(40), <1>1, <1>2, <1>3, TokensOfAccount
<1>5. /\ AdminRows' /\ RootsStay /\ ConfigRows' /\ GroupRows' /\ DomainRows'
  BY <1>1, LeftAlone
<1>6. InvitationRows' /\ Admits(FALSE, u) /\ LinkRows'
  BY Zenon, <1>2, Anonymized
<1>7. Spending(k) /\ Admits(k.op \in Admitting, k.id)
  BY <1>1, <1>6 DEF Spending, Admits
<1>8. Closing
  BY Zenon, <1>2 DEF StoreAnonymizeUser, Closing
<1> QED BY <1>2, <1>3, <1>4, <1>5, <1>6, <1>7, <1>8 DEF Effect, Rows

-----------------------------------------------------------------------------
(* Offices, tokens, invitations and workspaces.                            *)

LEMMA OfficeEffects ==
    ASSUME Tables, NEW k, UNCHANGED principals, k.op \notin Admitting,
           k.op # "DisableWorkspace", k.op # "FinishSSO", NEW u,
           \/ \E role : StoreSetInstanceRole(u, role)
           \/ StoreRemoveInstanceRole(u)
    PROVE  Effect(k)
<1> USE DEF accountVars, tenantVars, grantVars, federationVars, groupVars,
            directoryVars, scimVars
<1>1. UNCHANGED <<users, memberships, pats, invitations, domains, domainNames,
                  configs, credentials, links, groups, spent>>
  BY DEF StoreSetInstanceRole, StoreRemoveInstanceRole
<1>2. PICK role : /\ admins' = [admins EXCEPT ![u] = role]
                  /\ role = "root" \/ (u \in Roots => Roots \ {u} # {})
  BY DEF StoreSetInstanceRole, StoreRemoveInstanceRole
<1>3. AdminRows' /\ \A v \in Users \ {u} : admins'[v] = admins[v]
  BY <1>2 DEF Tables, AdminRows
<1>4. RootsStay
  <2>1. ASSUME NEW v \in Roots, v # u PROVE v \in Roots'
    BY <1>3, <2>1 DEF Roots
  <2>2. CASE u \in Roots /\ role = "root"
    <3>1. admins'[u] = "root" /\ u \in Users
      BY <1>2, <2>2 DEF Roots, Tables, AdminRows
    <3> QED BY <3>1 DEF Roots, RootsStay
  <2>3. CASE u \in Roots /\ Roots \ {u} # {}
    BY <2>1, <2>3 DEF RootsStay
  <2>4. CASE u \notin Roots
    BY <2>1, <2>4 DEF RootsStay
  <2> QED BY <1>2, <2>2, <2>3, <2>4
<1>5. UserRows' /\ NoneLost /\ AccountsStand
  BY <1>1, LeftAlone
<1>6. /\ MemberRows' /\ MembersStand /\ AdminsStay /\ LinkRows' /\ ConfigRows'
      /\ GroupRows' /\ DomainRows' /\ InvitationRows' /\ Admits(FALSE, k.id)
  BY ZenonT(40), <1>1, <1>5, LeftAlone
<1>7. TokensFollow(k.op)
  BY <1>1, <1>5, <1>6, SameTokens
<1>8. Spending(k) /\ Admits(k.op \in Admitting, k.id)
  BY <1>1, <1>6 DEF Spending, Admits
<1> QED BY <1>3, <1>4, <1>5, <1>6, <1>7, <1>8 DEF Effect, Rows

LEMMA TokenEffects ==
    ASSUME Tables, NEW k, UNCHANGED principals, k.op \notin Admitting,
           k.op # "DisableWorkspace", k.op # "FinishSSO", NEW p,
           \/ \E u \in Users, w \in Everywhere : StoreCreatePAT(p, u, w)
           \/ \E u : StoreRevokePAT(p, u)
    PROVE  Effect(k)
<1> USE DEF accountVars, tenantVars, grantVars, federationVars, groupVars,
            directoryVars, scimVars
<1>1. UNCHANGED <<users, memberships, admins, invitations, domains,
                  domainNames, configs, credentials, links, groups, spent>>
  BY DEF StoreCreatePAT, StoreRevokePAT
<1>2. pats \in [PATIDs -> PAT \cup {Absent}]
  BY DEF Tables, TokenRows
<1>3. /\ pats' \in [PATIDs -> PAT \cup {Absent}]
      /\ \A q \in PATIDs : pats[q].st = "revoked" => pats'[q].st = "revoked"
  <2>1. CASE \E u \in Users, w \in Everywhere : StoreCreatePAT(p, u, w)
    <3>1. PICK u \in Users, w \in Everywhere : StoreCreatePAT(p, u, w)
      BY <2>1
    <3> DEFINE row == [st |-> "live", user |-> u, ws |-> w]
    <3>2. row \in PAT
      BY DEF PAT, Everywhere
    <3>3. ~Exists(pats, p) /\ pats' = [pats EXCEPT ![p] = row]
      BY <3>1 DEF StoreCreatePAT
    <3> HIDE DEF row
    <3>4. pats[p].st # "revoked"
      BY <3>3 DEF Exists, Absent
    <3> QED BY Zenon, <1>2, <3>2, <3>3, <3>4
  <2>2. CASE \E u : StoreRevokePAT(p, u)
    <3>1. Exists(pats, p) /\ pats' = [pats EXCEPT ![p].st = "revoked"]
      BY <2>2 DEF StoreRevokePAT
    <3>2. ASSUME p \in PATIDs
          PROVE  /\ pats'[p] \in PAT
                 /\ pats'[p].st = "revoked"
      <4>1. pats[p] \in PAT
        BY <1>2, <3>1, <3>2 DEF Exists
      <4>2. pats'[p] = [pats[p] EXCEPT !.st = "revoked"]
        BY <1>2, <3>1, <3>2
      <4> QED BY <4>1, <4>2 DEF PAT
    <3>3. /\ pats' = [q \in PATIDs |-> pats'[q]]
          /\ \A q \in PATIDs \ {p} : pats'[q] = pats[q]
      BY Zenon, <1>2, <3>1
    <3> QED BY <1>2, <3>2, <3>3
  <2> QED BY Zenon, <2>1, <2>2
<1>5. UserRows' /\ NoneLost /\ AccountsStand
  BY <1>1, LeftAlone
<1>6. /\ MemberRows' /\ MembersStand /\ AdminsStay /\ LinkRows' /\ ConfigRows'
      /\ GroupRows' /\ DomainRows' /\ InvitationRows' /\ Admits(FALSE, k.id)
      /\ AdminRows' /\ RootsStay
  BY ZenonT(40), <1>1, <1>5, LeftAlone
<1>7. TokensFollow(k.op)
  BY Zenon, <1>3, <1>5, <1>6, StandingTokens
<1>8. Spending(k) /\ Admits(k.op \in Admitting, k.id)
  BY Zenon, <1>1, <1>6 DEF Spending, Admits
<1> QED BY <1>5, <1>6, <1>7, <1>8 DEF Effect, Rows

LEMMA InvitationEffects ==
    ASSUME Tables, NEW k, UNCHANGED principals, k.op \notin Admitting,
           k.op # "DisableWorkspace", k.op # "FinishSSO", NEW i, NEW w,
           \/ \E a, role : StoreCreateWorkspaceInvitation(i, w, a, role)
           \/ StoreRevokeWorkspaceInvitation(w, i)
    PROVE  Effect(k)
<1> USE DEF accountVars, tenantVars, grantVars, federationVars, groupVars,
            directoryVars, scimVars
<1>1. UNCHANGED <<users, memberships, admins, pats, domains, domainNames,
                  configs, credentials, links, groups, spent>>
  BY DEF StoreCreateWorkspaceInvitation, StoreRevokeWorkspaceInvitation
<1>2. Uses
  BY DEF Tables
<1>3. /\ invitations' = [j \in InvitationIDs |-> invitations'[j]]
      /\ \A j \in InvitationIDs \ {i} : invitations'[j] = invitations[j]
  BY <1>2 DEF StoreCreateWorkspaceInvitation, StoreRevokeWorkspaceInvitation,
              Uses
<1>4. ASSUME i \in InvitationIDs
      PROVE  /\ DOMAIN invitations'[i] = {"st", "ws", "addr", "role", "user"}
             /\ invitations'[i].st # "accepted"
             /\ invitations[i].st # "accepted"
  <2>1. CASE \E a, role : StoreCreateWorkspaceInvitation(i, w, a, role)
    <3>1. PICK a, role : StoreCreateWorkspaceInvitation(i, w, a, role)
      BY <2>1
    <3>2. ~Exists(invitations, i)
          /\ invitations'[i] = [st |-> "pending", ws |-> w, addr |-> a,
                                role |-> role, user |-> None]
      BY <1>2, <1>4, <3>1 DEF StoreCreateWorkspaceInvitation, Uses
    <3>3. invitations[i].st # "accepted"
      BY <3>2 DEF Exists, Absent
    <3> QED BY <3>2, <3>3
  <2>2. CASE StoreRevokeWorkspaceInvitation(w, i)
    <3>1. invitations[i].st = "pending"
          /\ invitations'[i] = [invitations[i] EXCEPT !.st = "revoked"]
      BY <1>2, <1>4, <2>2 DEF StoreRevokeWorkspaceInvitation, Uses
    <3>2. Exists(invitations, i)
      BY <3>1 DEF Exists, Absent
    <3>3. DOMAIN invitations[i] = {"st", "ws", "addr", "role", "user"}
      BY <1>2, <1>4, <3>2 DEF Uses
    <3> QED BY <3>1, <3>3
  <2> QED BY <2>1, <2>2
<1>5. InvitationRows' /\ Admits(FALSE, k.id)
  BY <1>2, <1>3, <1>4 DEF InvitationRows, Admits, Uses, Exists
<1>6. UserRows' /\ NoneLost /\ AccountsStand
  BY <1>1, LeftAlone
<1>7. /\ MemberRows' /\ MembersStand /\ AdminsStay /\ LinkRows' /\ ConfigRows'
      /\ GroupRows' /\ DomainRows' /\ AdminRows' /\ RootsStay
  BY <1>1, <1>6, LeftAlone
<1>8. TokensFollow(k.op)
  BY <1>1, <1>6, <1>7, SameTokens
<1>9. Spending(k) /\ Admits(k.op \in Admitting, k.id)
  BY Zenon, <1>1, <1>5 DEF Spending, Admits
<1> QED BY <1>5, <1>6, <1>7, <1>8, <1>9 DEF Effect, Rows

\* Disabling a workspace ends the tokens bound to it of its members.
LEMMA WorkspaceEffects ==
    ASSUME Tables, NEW k, UNCHANGED principals, k.op \notin Admitting,
           k.op # "FinishSSO", NEW w,
           \/ /\ k.op = "DisableWorkspace"
              /\ StoreSetWorkspaceDisabled(w, "disabled")
           \/ /\ k.op # "DisableWorkspace"
              /\ StoreSetWorkspaceDisabled(w, "enabled")
    PROVE  Effect(k)
<1> USE DEF accountVars, tenantVars, grantVars, federationVars, groupVars,
            directoryVars, scimVars
<1>1. UNCHANGED <<users, memberships, admins, invitations, domains,
                  domainNames, configs, credentials, links, groups, spent>>
  BY DEF StoreSetWorkspaceDisabled
<1>2. UserRows' /\ NoneLost /\ AccountsStand
  BY <1>1, LeftAlone
<1>3. /\ MemberRows' /\ MembersStand /\ AdminsStay /\ LinkRows' /\ ConfigRows'
      /\ GroupRows' /\ DomainRows' /\ AdminRows' /\ RootsStay
      /\ InvitationRows' /\ Admits(FALSE, k.id)
  BY Zenon, <1>1, <1>2, LeftAlone
<1>4. TokensFollow(k.op)
  <2>1. CASE k.op # "DisableWorkspace"
    <3>1. pats' = pats
      BY <2>1 DEF StoreSetWorkspaceDisabled
    <3> QED BY <1>2, <1>3, <2>1, <3>1, SameTokens
  <2>2. CASE k.op = "DisableWorkspace"
    <3> DEFINE rows == {u \in Users : memberships[w][u] # Absent}
    <3>1. pats' = RevokedFor(rows, {w})
          /\ Exists(workspaces, w)
          /\ workspaces' = [workspaces EXCEPT ![w].st = "disabled"]
      BY <2>2 DEF StoreSetWorkspaceDisabled
    <3>2. ASSUME NEW p \in Minted, LosesStanding(k.op, p)
          PROVE  pats[p].user \in rows /\ pats[p].ws \in {w}
      <4>1. pats[p] \in PAT
        BY <3>2 DEF Minted, Exists, Tables, TokenRows
      <4>2. pats[p].user \in Users /\ pats[p].ws \in Workspaces \cup {None}
        BY <4>1 DEF PAT
      <4>3. /\ memberships[pats[p].ws][pats[p].user] # Absent
            /\ workspaces[pats[p].ws].st = "enabled"
            /\ workspaces'[pats[p].ws].st = "disabled"
        BY Zenon, <3>2, <4>2, <1>2, <1>3
           DEF LosesStanding, AccountsStand, MembersStand
      <4>4. pats[p].ws = w
        BY <3>1, <4>3
      <4> QED BY Zenon, <4>2, <4>3, <4>4
    <3> HIDE DEF rows
    <3> QED BY ZenonT(40), <3>1, <3>2, RevokedTokens DEF TokensFollow
  <2> QED BY <2>1, <2>2
<1>5. Spending(k) /\ Admits(k.op \in Admitting, k.id)
  BY Zenon, <1>1, <1>3 DEF Spending, Admits
<1> QED BY <1>2, <1>3, <1>4, <1>5 DEF Effect, Rows

-----------------------------------------------------------------------------
(* Memberships.                                                            *)

LEMMA OneMember ==
    ASSUME Tables, NEW w, NEW u, NEW row, Joins(w, u, row)
    PROVE  /\ memberships' = [v \in Workspaces |-> memberships'[v]]
           /\ \A v \in Workspaces :
                memberships'[v] = [x \in Users |-> memberships'[v][x]]
           /\ \A v \in Workspaces, x \in Users :
                memberships'[v][x] = IF v = w /\ x = u THEN row
                                     ELSE memberships[v][x]
BY ZenonT(40) DEF Tables, MemberRows, Joins

LEMMA MemberKnown ==
    ASSUME Tables, NEW w, NEW u, NEW row, Joins(w, u, row), NoneLost,
           u \in Users /\ row # Absent => Exists(users, u)'
    PROVE  MemberRows'
BY OneMember DEF Tables, MemberRows, NoneLost

\* An admin is left when the row replaced was not the last active admin's.
LEMMA AdminSpared ==
    ASSUME Tables, NEW w, NEW u, NEW row, Joins(w, u, row),
           \/ row.st = "active" /\ row.role = "admin"
           \/ ActiveAdmin(w, u) => ActiveAdmins(w) \ {u} # {}
    PROVE  AdminsStay
<1> SUFFICES ASSUME NEW v \in Workspaces, ActiveAdmins(v) # {}
             PROVE  ActiveAdmins(v)' # {}
  BY DEF AdminsStay
<1>1. PICK a \in ActiveAdmins(v) : v = w => \/ a # u
                                            \/ row.st = "active"
                                               /\ row.role = "admin"
  BY DEF ActiveAdmins
<1>2. a \in Users /\ ActiveAdmin(v, a)
  BY DEF ActiveAdmins
<1>3. memberships'[v][a] = IF v = w /\ a = u THEN row ELSE memberships[v][a]
  BY <1>2, OneMember
<1>4. memberships'[v][a].st = "active" /\ memberships'[v][a].role = "admin"
  BY <1>1, <1>2, <1>3 DEF ActiveAdmin
<1>5. a \in ActiveAdmins(v)'
  BY Zenon, <1>2, <1>4 DEF ActiveAdmins, ActiveAdmin
<1> QED BY <1>5

LEMMA TokensOfMember ==
    ASSUME Tables, NEW w, NEW u, NEW row, Joins(w, u, row), NEW op,
           op # "DisableWorkspace", AccountsStand,
           \/ pats' = RevokedFor({u}, {w})
           \/ pats' = pats /\ (op \in KeepsTokens \/ row.st = "active")
    PROVE  TokensFollow(op)
<1>1. ASSUME NEW p \in Minted, LosesStanding(op, p)
      PROVE  pats[p].user = u /\ pats[p].ws = w /\ op \notin KeepsTokens
             /\ row.st # "active"
  <2>1. pats[p] \in PAT
    BY <1>1 DEF Minted, Exists, Tables, TokenRows
  <2>2. pats[p].user \in Users /\ pats[p].ws \in Workspaces \cup {None}
    BY <2>1 DEF PAT
  <2>3. /\ op \notin KeepsTokens /\ pats[p].ws # None
        /\ memberships[pats[p].ws][pats[p].user].st = "active"
        /\ memberships'[pats[p].ws][pats[p].user].st # "active"
    BY Zenon, <1>1, <2>2 DEF LosesStanding, AccountsStand
  <2> QED BY <2>2, <2>3, OneMember
<1>2. CASE pats' = RevokedFor({u}, {w})
  BY ZenonT(40), <1>1, <1>2, RevokedTokens DEF TokensFollow
<1>3. CASE pats' = pats /\ (op \in KeepsTokens \/ row.st = "active")
  BY <1>1, <1>3 DEF TokensFollow, Tables, TokenRows
<1> QED BY <1>2, <1>3

\* UpsertMembership, RemoveMembership and CreateWorkspace.
LEMMA MembershipEffects ==
    ASSUME Tables, NEW k, UNCHANGED principals, k.op \notin Admitting,
           k.op # "FinishSSO", k.op # "DisableWorkspace", NEW w, NEW u,
           \/ \E row : StoreUpsertMembership(w, u, row)
           \/ StoreRemoveMembership(w, u)
           \/ w \in Workspaces /\ StoreCreateWorkspace(w, u)
    PROVE  Effect(k)
<1> USE DEF accountVars, tenantVars, grantVars, federationVars, groupVars,
            directoryVars, scimVars
<1>1. UNCHANGED <<users, admins, invitations, domains, domainNames, configs,
                  credentials, links, groups, spent>>
  BY Zenon DEF StoreUpsertMembership, StoreRemoveMembership,
               StoreCreateWorkspace
<1>2. UserRows' /\ NoneLost /\ AccountsStand
  BY <1>1, LeftAlone
<1>3. PICK row : /\ Joins(w, u, row)
                 /\ row # Absent => Exists(users, u)
                 /\ \/ row.st = "active" /\ row.role = "admin"
                    \/ ActiveAdmin(w, u) => ActiveAdmins(w) \ {u} # {}
                 /\ \/ pats' = RevokedFor({u}, {w})
                    \/ pats' = pats /\ row.st = "active"
  <2>1. CASE \E row : StoreUpsertMembership(w, u, row)
    BY <2>1 DEF StoreUpsertMembership, SparesAdmin
  <2>2. CASE StoreRemoveMembership(w, u)
    BY Zenon, <2>2 DEF StoreRemoveMembership
  <2>3. CASE StoreCreateWorkspace(w, u)
    <3>1. Local("admin", "active").st = "active"
          /\ Local("admin", "active").role = "admin"
      BY DEF Local
    <3> QED BY <2>3, <3>1 DEF StoreCreateWorkspace
  <2> QED BY ZenonT(40), <2>1, <2>2, <2>3
<1>4. MemberRows'
  BY Zenon, <1>1, <1>2, <1>3, MemberKnown DEF Exists
<1>5. AdminsStay
  BY <1>3, AdminSpared
<1>6. TokensFollow(k.op)
  BY <1>2, <1>3, TokensOfMember
<1>7. /\ LinkRows' /\ ConfigRows' /\ GroupRows' /\ DomainRows' /\ AdminRows'
      /\ RootsStay /\ InvitationRows' /\ Admits(FALSE, k.id)
  BY ZenonT(40), <1>1, <1>2, LeftAlone
<1>8. Spending(k) /\ Admits(k.op \in Admitting, k.id)
  BY <1>1, <1>7 DEF Spending, Admits
<1> QED BY <1>2, <1>4, <1>5, <1>6, <1>7, <1>8 DEF Effect, Rows

\* The invitation is accepted, and no other one changes.
LEMMA PendingExists ==
    ASSUME NEW i, invitations[i].st = "pending"
    PROVE  Exists(invitations, i)
BY DEF Exists, Absent

LEMMA InvitationAccepted ==
    ASSUME Tables, NEW i \in InvitationIDs, NEW u, Accepted(i, u),
           invitations[i].st = "pending"
    PROVE  InvitationRows' /\ Admits(TRUE, i)
<1>1. Uses
  BY DEF Tables
<1>2. /\ invitations' = [j \in InvitationIDs |-> invitations'[j]]
      /\ \A j \in InvitationIDs \ {i} : invitations'[j] = invitations[j]
      /\ invitations'[i] = [invitations[i] EXCEPT !.st = "accepted",
                                                  !.user = u]
  BY <1>1 DEF Accepted, Uses
<1>3. Exists(invitations, i)
  BY DEF Exists, Absent
<1>4. DOMAIN invitations[i] = {"st", "ws", "addr", "role", "user"}
  BY <1>1, <1>3 DEF Uses
<1>5. /\ DOMAIN invitations'[i] = {"st", "ws", "addr", "role", "user"}
      /\ invitations'[i].st = "accepted"
  BY <1>2, <1>4
<1>6. InvitationRows'
  <2>1. \A j \in InvitationIDs : invitations'[j] # Absent =>
          DOMAIN invitations'[j] = {"st", "ws", "addr", "role", "user"}
    <3> TAKE j \in InvitationIDs
    <3>1. CASE j = i
      BY <1>5, <3>1
    <3>2. CASE j # i
      <4>1. invitations'[j] = invitations[j]
        BY <1>2, <3>2
      <4> QED BY <1>1, <4>1 DEF Uses, Exists
    <3> QED BY <3>1, <3>2
  <2> QED BY <1>2, <2>1 DEF InvitationRows, Exists
<1>7. Admits(TRUE, i)
  BY ZenonT(40), <1>2, <1>5 DEF Admits
<1> QED BY Zenon, <1>6, <1>7

LEMMA AcceptEffect ==
    ASSUME Tables, NEW k, UNCHANGED principals, k.op = "AcceptInvitation",
           k.id \in InvitationIDs, NEW u,
           StoreAcceptWorkspaceInvitation(k.id, u)
    PROVE  Effect(k)
<1> USE DEF accountVars, tenantVars, grantVars, federationVars, groupVars,
            directoryVars, scimVars
<1>1. UNCHANGED <<users, admins, domains, domainNames, configs, credentials,
                  links, groups, spent, pats>>
  BY Zenon DEF StoreAcceptWorkspaceInvitation
<1>2. UserRows' /\ NoneLost /\ AccountsStand
  BY <1>1, LeftAlone
<1>3. PICK w, row : Joins(w, u, row) /\ row.st = "active"
  <2>1. \A role : Local(role, "active").st = "active"
    BY DEF Local
  <2> QED BY <2>1 DEF StoreAcceptWorkspaceInvitation
<1>4. MemberRows'
  BY Zenon, <1>1, <1>2, <1>3, MemberKnown
     DEF Exists, StoreAcceptWorkspaceInvitation
<1>5. TokensFollow(k.op)
  BY Zenon, <1>1, <1>2, <1>3, TokensOfMember
<1>6. InvitationRows' /\ Admits(TRUE, k.id)
  BY Zenon, InvitationAccepted DEF StoreAcceptWorkspaceInvitation
<1>7. /\ LinkRows' /\ ConfigRows' /\ GroupRows' /\ DomainRows' /\ AdminRows'
      /\ RootsStay
  BY <1>1, <1>2, LeftAlone
<1>8. Spending(k) /\ Admits(k.op \in Admitting, k.id)
  BY Zenon, <1>1, <1>6 DEF Spending, Admits, Admitting
<1>9. k.op \in Unguarded
  BY DEF Unguarded
<1> QED BY <1>2, <1>4, <1>5, <1>6, <1>7, <1>8, <1>9 DEF Effect, Rows

-----------------------------------------------------------------------------
(* New accounts: nobody was a member before having one.                    *)

LEMMA Newcomer ==
    ASSUME Tables, NEW u \in Users, NEW e, NEW a, NEW st, NEW pw,
           NewAccount(u, e, a, st, pw), NEW w, NEW row, Joins(w, u, row)
    PROVE  /\ UserRows' /\ NoneLost /\ AccountsStand
           /\ MemberRows' /\ MembersStand /\ AdminsStay
<1> DEFINE new == [st |-> "enabled", email |-> a, password |-> pw]
<1>1. ~Exists(users, u) /\ users' = [users EXCEPT ![u] = new]
  BY Zenon DEF NewAccount
<1>2. /\ DOMAIN new = {"st", "email", "password"} /\ new.st = "enabled"
      /\ new # Absent
  BY Zenon DEF Absent
<1> HIDE DEF new
<1>3. UserRows
  BY DEF Tables
<1>4. /\ users' = [v \in Users |-> users'[v]]
      /\ \A v \in Users : users'[v] = IF v = u THEN new ELSE users[v]
  BY <1>1, <1>3 DEF UserRows
<1>5. UserRows'
  <2>1. \A v \in Users : users'[v] # Absent =>
          /\ DOMAIN users'[v] = {"st", "email", "password"}
          /\ users'[v].st \in {"enabled", "disabled"}
    BY <1>2, <1>3, <1>4 DEF UserRows, Exists
  <2> QED BY <1>4, <2>1 DEF UserRows, Exists
<1>6. NoneLost /\ Exists(users, u)'
  BY <1>2, <1>4 DEF NoneLost, Exists
<1>7. AccountsStand
  BY <1>2, <1>4 DEF AccountsStand, Enabled
<1>8. MemberRows'
  BY <1>6, MemberKnown
<1>9. \A v \in Workspaces : memberships[v][u] = Absent
  BY <1>1 DEF Tables, MemberRows
<1>10. \A v \in Workspaces : memberships[v][u].st # "active"
  <2>1. Absent.st # "active"
    BY DEF Absent
  <2> QED BY <1>9, <2>1
<1>11. MembersStand
  BY <1>10, OneMember DEF MembersStand
<1>12. AdminsStay
  <2> SUFFICES ASSUME NEW v \in Workspaces, ActiveAdmins(v) # {}
               PROVE  ActiveAdmins(v)' # {}
    BY DEF AdminsStay
  <2>1. PICK x \in Users : ActiveAdmin(v, x)
    BY DEF ActiveAdmins
  <2>2. x # u
    BY Zenon, <1>10, <2>1 DEF ActiveAdmin
  <2>3. memberships'[v][x] = memberships[v][x]
    BY <2>2, OneMember
  <2>4. x \in ActiveAdmins(v)'
    BY <2>1, <2>3 DEF ActiveAdmins, ActiveAdmin
  <2> QED BY <2>4
<1> QED BY <1>5, <1>6, <1>7, <1>8, <1>11, <1>12

LEMMA NewcomerEffects ==
    ASSUME Tables, NEW k, UNCHANGED principals, k.op \notin Admitting,
           k.op # "DisableWorkspace", NEW u \in Users, NEW e, NEW a,
           \/ /\ k.op # "FinishSSO"
              /\ \E w, role : StoreCreateUser(u, e, a, w, role)
           \/ k.op # "FinishSSO" /\ \E w, st : StoreCreateSignup(u, e, a, st, w)
           \/ k.op # "FinishSSO" /\ \E w : StoreBootstrap(u, e, a, w)
           \/ k.op = "FinishSSO" /\ \E w, role, d, i, p, s :
                StoreJITProvisionSSOUser(u, e, a, w, role, d, i, p, s,
                                         k.ceremony)
    PROVE  Effect(k)
<1> USE DEF accountVars, tenantVars, grantVars, federationVars, groupVars,
            directoryVars, scimVars
<1>1. /\ UNCHANGED <<invitations, domains, domainNames, configs, credentials,
                     links, groups, pats>>
      /\ Spending(k)
      /\ \E st, pw : NewAccount(u, e, a, st, pw)
      /\ \E w, row : Joins(w, u, row)
      /\ admins' = admins \/ admins' = [admins EXCEPT ![u] = "root"]
  <2>1. CASE k.op # "FinishSSO"
             /\ \/ \E w, role : StoreCreateUser(u, e, a, w, role)
                \/ \E w, st : StoreCreateSignup(u, e, a, st, w)
    BY Zenon, <2>1 DEF StoreCreateUser, StoreCreateSignup, Spending
  <2>2. CASE k.op # "FinishSSO" /\ \E w : StoreBootstrap(u, e, a, w)
    BY Zenon, <2>2 DEF StoreBootstrap, Spending
  <2>3. CASE k.op = "FinishSSO" /\ \E w, role, d, i, p, s :
               StoreJITProvisionSSOUser(u, e, a, w, role, d, i, p, s,
                                        k.ceremony)
    BY Zenon, <2>3 DEF StoreJITProvisionSSOUser, Spending
  <2> QED BY Zenon, <2>1, <2>2, <2>3
<1>2. /\ UserRows' /\ NoneLost /\ AccountsStand
      /\ MemberRows' /\ MembersStand /\ AdminsStay
  BY <1>1, Newcomer
<1>3. AdminRows' /\ RootsStay
  <2>1. AdminRows
    BY DEF Tables
  <2>2. AdminRows' /\ \A v \in Users : admins'[v] \in {"root", admins[v]}
    BY <1>1, <2>1 DEF AdminRows
  <2> QED BY Zenon, <2>2 DEF RootsStay, Roots
<1>4. /\ LinkRows' /\ ConfigRows' /\ GroupRows' /\ DomainRows'
      /\ InvitationRows' /\ Admits(FALSE, k.id)
  BY Zenon, <1>1, <1>2, LeftAlone
<1>5. TokensFollow(k.op)
  BY <1>1, <1>2, SameTokens
<1>6. Admits(k.op \in Admitting, k.id)
  BY Zenon, <1>4 DEF Admits
<1> QED BY <1>1, <1>2, <1>3, <1>4, <1>5, <1>6 DEF Effect, Rows

LEMMA RegisterEffect ==
    ASSUME Tables, NEW k, UNCHANGED principals,
           k.op = "RegisterFromInvitation", k.id \in InvitationIDs,
           NEW u \in Users, NEW e, StoreRegisterInvitedUser(k.id, u, e)
    PROVE  Effect(k)
<1> USE DEF accountVars, tenantVars, grantVars, federationVars, groupVars,
            directoryVars, scimVars
<1>1. /\ UNCHANGED <<admins, domains, domainNames, configs, credentials,
                     links, groups, pats, spent>>
      /\ \E a, st, pw : NewAccount(u, e, a, st, pw)
      /\ \E w, row : Joins(w, u, row)
  BY Zenon DEF StoreRegisterInvitedUser
<1>2. /\ UserRows' /\ NoneLost /\ AccountsStand
      /\ MemberRows' /\ MembersStand /\ AdminsStay
  BY <1>1, Newcomer
<1>3. InvitationRows' /\ Admits(TRUE, k.id)
  BY Zenon, InvitationAccepted DEF StoreRegisterInvitedUser
<1>4. /\ LinkRows' /\ ConfigRows' /\ GroupRows' /\ DomainRows' /\ AdminRows'
      /\ RootsStay
  BY <1>1, <1>2, LeftAlone
<1>5. TokensFollow(k.op)
  BY <1>1, <1>2, SameTokens
<1>6. Spending(k) /\ Admits(k.op \in Admitting, k.id)
  BY Zenon, <1>1, <1>3 DEF Spending, Admits, Admitting
<1> QED BY <1>2, <1>3, <1>4, <1>5, <1>6 DEF Effect, Rows

-----------------------------------------------------------------------------
(* The directory's users.                                                  *)

LEMMA LinkMade ==
    ASSUME Tables, NEW l, NEW u, NEW c, NEW st, NewLink(l, u, c, st), NoneLost,
           u \in Users => Exists(users, u)'
    PROVE  LinkRows'
<1> DEFINE row == [st |-> st, user |-> u, config |-> c]
<1>1. DOMAIN row = {"st", "user", "config"} /\ row.user = u
  BY Zenon
<1>2. links' = [links EXCEPT ![l] = row]
  BY DEF NewLink
<1> HIDE DEF row
<1>3. LinkRows
  BY DEF Tables
<1>4. /\ links' = [m \in LinkIDs |-> links'[m]]
      /\ \A m \in LinkIDs : links'[m] \in {row, links[m]}
  BY <1>2, <1>3 DEF LinkRows
<1>5. \A m \in LinkIDs : links'[m] # Absent =>
        /\ DOMAIN links'[m] = {"st", "user", "config"}
        /\ links'[m].user \in Users => users'[links'[m].user] # Absent
  BY <1>1, <1>3, <1>4 DEF LinkRows, NoneLost, Exists
<1> QED BY <1>4, <1>5 DEF LinkRows, Exists

LEMMA LinkEffects ==
    ASSUME Tables, NEW k, UNCHANGED principals, k.op \notin Admitting,
           k.op # "DisableWorkspace", k.op # "FinishSSO", NEW l, NEW c, NEW u,
           \/ u \in Users /\ \E e, a, v, row, st :
                StoreCreateSCIMUser(l, c, u, e, a, v, row, st)
           \/ k.op = "AdoptSCIMUser" /\ \E row, st :
                StoreAdoptSCIMUser(l, c, u, row, st)
    PROVE  Effect(k)
<1> USE DEF accountVars, tenantVars, grantVars, federationVars, groupVars,
            directoryVars, scimVars
<1>1. /\ UNCHANGED <<admins, invitations, domains, domainNames, configs,
                     credentials, groups, pats, spent>>
      /\ \E st : NewLink(l, u, c, st)
  BY Zenon DEF StoreCreateSCIMUser, StoreAdoptSCIMUser
<1>2. /\ UserRows' /\ NoneLost /\ AccountsStand /\ MemberRows'
      /\ u \in Users => Exists(users, u)'
      /\ k.op \in Unguarded \/ AdminsStay
      /\ TokensFollow(k.op)
  <2>1. CASE u \in Users /\ \E e, a, v, row, st :
               StoreCreateSCIMUser(l, c, u, e, a, v, row, st)
    <3>1. /\ \E e, a, st, pw : NewAccount(u, e, a, st, pw)
          /\ \E w, row : Joins(w, u, row)
      BY Zenon, <2>1 DEF StoreCreateSCIMUser
    <3>2. /\ UserRows' /\ NoneLost /\ AccountsStand
          /\ MemberRows' /\ MembersStand /\ AdminsStay
      BY <2>1, <3>1, Newcomer
    <3>3. TokensFollow(k.op)
      BY <1>1, <3>2, SameTokens
    <3>4. Exists(users, u)'
      BY <2>1, <3>1 DEF NewAccount, Tables, UserRows, Exists, Absent
    <3> QED BY <3>2, <3>3, <3>4
  <2>2. CASE k.op = "AdoptSCIMUser" /\ \E row, st :
               StoreAdoptSCIMUser(l, c, u, row, st)
    <3>1. users' = users /\ Exists(users, u) /\ \E w, row : Joins(w, u, row)
      BY Zenon, <2>2 DEF StoreAdoptSCIMUser
    <3>2. UserRows' /\ NoneLost /\ AccountsStand
      BY <3>1, LeftAlone
    <3>3. Exists(users, u)'
      BY <3>1 DEF Exists
    <3>4. MemberRows'
      BY <3>1, <3>2, <3>3, MemberKnown
    <3>5. k.op \in KeepsTokens /\ k.op \in Unguarded
      BY <2>2 DEF KeepsTokens, Unguarded
    <3>6. TokensFollow(k.op)
      BY Zenon, <1>1, <3>1, <3>2, <3>5, TokensOfMember
    <3> QED BY <3>2, <3>3, <3>4, <3>5, <3>6
  <2> QED BY <2>1, <2>2
<1>3. LinkRows'
  BY <1>1, <1>2, LinkMade
<1>4. /\ ConfigRows' /\ GroupRows' /\ DomainRows' /\ AdminRows' /\ RootsStay
      /\ InvitationRows' /\ Admits(FALSE, k.id)
  BY Zenon, <1>1, LeftAlone
<1>5. Spending(k) /\ Admits(k.op \in Admitting, k.id)
  BY Zenon, <1>1, <1>4 DEF Spending, Admits
<1> QED BY <1>2, <1>3, <1>4, <1>5 DEF Effect, Rows

LEMMA LinkUpdated ==
    ASSUME Tables, NEW l \in LinkIDs, NEW st, Exists(links, l), users' = users,
           links' = [links EXCEPT ![l].st = st]
    PROVE  LinkRows'
<1>1. LinkRows
  BY DEF Tables
<1>2. /\ links' = [m \in LinkIDs |-> links'[m]]
      /\ \A m \in LinkIDs \ {l} : links'[m] = links[m]
      /\ links'[l] = [links[l] EXCEPT !.st = st]
  BY <1>1 DEF LinkRows
<1>3. /\ DOMAIN links[l] = {"st", "user", "config"}
      /\ links[l].user \in Users => Exists(users, links[l].user)
  BY <1>1 DEF LinkRows
<1>4. /\ DOMAIN links'[l] = {"st", "user", "config"}
      /\ links'[l].user = links[l].user
  BY <1>2, <1>3
<1>5. \A m \in LinkIDs : links'[m] # Absent =>
        /\ DOMAIN links'[m] = {"st", "user", "config"}
        /\ links'[m].user \in Users => users'[links'[m].user] # Absent
  <2> TAKE m \in LinkIDs
  <2>1. CASE m = l
    BY <1>3, <1>4, <2>1 DEF Exists
  <2>2. CASE m # l
    <3>1. links'[m] = links[m]
      BY <1>2, <2>2
    <3> QED BY <1>1, <3>1 DEF LinkRows, Exists
  <2> QED BY <2>1, <2>2
<1> QED BY <1>2, <1>5 DEF LinkRows, Exists

\* Replacing or deprovisioning a directory user.
LEMMA UpdateEffect ==
    ASSUME Tables, NEW k, UNCHANGED principals, k.op \in Updating,
           k.id \in LinkIDs, NEW w, NEW st, NEW row,
           StoreUpdateSCIMUser(k.id, w, st, row, k.op = "DeprovisionSCIMUser")
    PROVE  Effect(k)
<1> USE DEF accountVars, tenantVars, grantVars, federationVars, groupVars,
            directoryVars, scimVars
<1>0. PICK u : u = links[k.id].user
  OBVIOUS
<1>1. /\ UNCHANGED <<users, admins, invitations, domains, domainNames, configs,
                     credentials, groups, spent>>
      /\ Exists(links, k.id) /\ links' = [links EXCEPT ![k.id].st = st]
      /\ Joins(w, u, row)
  BY <1>0 DEF StoreUpdateSCIMUser
<1>2. /\ k.op = "DeprovisionSCIMUser" => pats' = RevokedFor({u}, {w})
      /\ k.op # "DeprovisionSCIMUser" => pats' = pats
  BY <1>0 DEF StoreUpdateSCIMUser
<1>3. UserRows' /\ NoneLost /\ AccountsStand
  BY <1>1, LeftAlone
<1>4. u \in Users => Exists(users, u)'
  BY <1>0, <1>1 DEF Tables, LinkRows, Exists
<1>5. MemberRows'
  BY <1>1, <1>3, <1>4, MemberKnown
<1>6. /\ k.op \in Unguarded /\ k.op # "DisableWorkspace" /\ k.op # "FinishSSO"
      /\ k.op \notin Admitting
      /\ k.op # "DeprovisionSCIMUser" => k.op \in KeepsTokens
  BY DEF Updating, Unguarded, KeepsTokens, Admitting
<1>7. TokensFollow(k.op)
  BY <1>1, <1>2, <1>3, <1>6, TokensOfMember
<1>8. LinkRows'
  BY Zenon, <1>1, LinkUpdated
<1>9. /\ ConfigRows' /\ GroupRows' /\ DomainRows' /\ AdminRows' /\ RootsStay
      /\ InvitationRows' /\ Admits(FALSE, k.id)
  BY ZenonT(40), <1>1, LeftAlone
<1>10. Spending(k) /\ Admits(k.op \in Admitting, k.id)
  BY <1>1, <1>6, <1>9 DEF Spending, Admits
<1> QED BY <1>3, <1>5, <1>6, <1>7, <1>8, <1>9, <1>10 DEF Effect, Rows

-----------------------------------------------------------------------------
(* The recomputed roles are written as they are, and no token is touched.  *)

LEMMA WrittenMembers ==
    ASSUME Tables, NEW w, NEW rows, Writes(w, rows), users' = users,
           \A u \in DOMAIN rows : u \in Users => Exists(users, u)
    PROVE  MemberRows'
<1> DEFINE new == [u \in Users |-> IF u \in DOMAIN rows THEN rows[u]
                                   ELSE memberships[w][u]]
<1>1. memberships' = [memberships EXCEPT ![w] = new]
  BY DEF Writes
<1>2. /\ new = [u \in Users |-> new[u]]
      /\ \A u \in Users : new[u] = IF u \in DOMAIN rows THEN rows[u]
                                   ELSE memberships[w][u]
  OBVIOUS
<1> HIDE DEF new
<1>3. MemberRows
  BY DEF Tables
<1>4. /\ memberships' = [v \in Workspaces |-> memberships'[v]]
      /\ \A v \in Workspaces : memberships'[v] = IF v = w THEN new
                                                 ELSE memberships[v]
  BY <1>1, <1>3 DEF MemberRows
<1>5. ASSUME NEW v \in Workspaces
      PROVE  /\ memberships'[v] = [u \in Users |-> memberships'[v][u]]
             /\ \A u \in Users : memberships'[v][u] # Absent =>
                                   users'[u] # Absent
  <2>1. CASE v = w
    BY <1>2, <1>3, <1>4, <2>1 DEF MemberRows, Exists
  <2>2. CASE v # w
    <3>1. memberships'[v] = memberships[v]
      BY <1>4, <2>2
    <3> QED BY <1>3, <3>1 DEF MemberRows, Exists
  <2> QED BY <2>1, <2>2
<1> QED BY <1>4, <1>5 DEF MemberRows, Exists

LEMMA UntouchedTokens ==
    ASSUME Tables, NEW op \in KeepsTokens, users' = users, pats' = pats
    PROVE  TokensFollow(op)
<1>1. AccountsStand
  BY LeftAlone
<1>2. op # "DisableWorkspace"
  BY DEF KeepsTokens
<1>3. ASSUME NEW p \in Minted PROVE ~LosesStanding(op, p)
  <2>1. pats[p] \in PAT
    BY <1>3 DEF Minted, Exists, Tables, TokenRows
  <2>2. pats[p].user \in Users
    BY <2>1 DEF PAT
  <2> QED BY <1>1, <1>2, <2>2 DEF LosesStanding, AccountsStand
<1> QED BY <1>3 DEF TokensFollow, Tables, TokenRows

LEMMA GroupWritten ==
    ASSUME Tables, NEW g, NEW row, GroupRow(row),
           \/ groups' = [groups EXCEPT ![g] = row]
           \/ groups' = [groups EXCEPT ![g] = [row EXCEPT !.st = "deleted"]]
    PROVE  GroupRows'
<1>1. GroupRow([row EXCEPT !.st = "deleted"])
  BY DEF GroupRow
<1>2. PICK new : GroupRow(new) /\ groups' = [groups EXCEPT ![g] = new]
  BY <1>1
<1>3. GroupRows
  BY DEF Tables
<1>4. /\ groups' = [h \in GroupIDs |-> groups'[h]]
      /\ \A h \in GroupIDs : groups'[h] \in {new, groups[h]}
  BY Zenon, <1>2, <1>3 DEF GroupRows
<1>5. \A h \in GroupIDs : groups'[h] # Absent => GroupRow(groups'[h])
  BY <1>2, <1>3, <1>4 DEF GroupRows, Exists
<1> QED BY <1>4, <1>5 DEF GroupRows, GroupRow, Exists

LEMMA ConfigurationWritten ==
    ASSUME Tables, NEW c, NEW row, ConfigRow(row),
           configs' = [configs EXCEPT ![c] = row],
           UNCHANGED <<credentials, principals>>
    PROVE  ConfigRows'
<1>1. ConfigRows
  BY DEF Tables
<1>2. /\ configs' = [d \in ConfigIDs |-> configs'[d]]
      /\ \A d \in ConfigIDs : configs'[d] \in {row, configs[d]}
  BY <1>1 DEF ConfigRows
<1>3. \A d \in ConfigIDs : configs'[d] # Absent => ConfigRow(configs'[d])
  BY <1>1, <1>2 DEF ConfigRows, Exists
<1> QED BY <1>1, <1>2, <1>3 DEF ConfigRows, ConfigRow, Exists

LEMMA RecomputedEffects ==
    ASSUME Tables, NEW k, UNCHANGED principals,
           \A u \in DOMAIN k.rows : u \in Users => Exists(users, u),
           \/ /\ k.op = "UpsertSCIMGroup" /\ GroupRow(k.to)
              /\ StoreUpsertSCIMGroup(k.id, k.to, k.ws, k.rows)
           \/ /\ k.op = "DeleteSCIMGroup" /\ GroupRow(k.row)
              /\ StoreDeleteSCIMGroup(k.id, k.row, k.ws, k.rows)
           \/ /\ k.op = "UpdateSCIMConfiguration" /\ ConfigRow(k.cfg)
              /\ StoreUpdateSCIMConfiguration(k.config,
                   [k.cfg EXCEPT !.policy = k.to], k.rows)
    PROVE  Effect(k)
<1> USE DEF accountVars, tenantVars, grantVars, federationVars, groupVars,
            directoryVars, scimVars
<1>1. /\ UNCHANGED <<users, admins, invitations, domains, domainNames,
                     credentials, links, pats, spent>>
      /\ \E w : Writes(w, k.rows)
  BY DEF StoreUpsertSCIMGroup, StoreDeleteSCIMGroup,
         StoreUpdateSCIMConfiguration
<1>2. /\ k.op \in KeepsTokens /\ k.op \in Unguarded /\ k.op \notin Admitting
      /\ k.op # "FinishSSO"
  BY DEF KeepsTokens, Unguarded, Admitting
<1>3. UserRows' /\ NoneLost /\ AccountsStand
  BY <1>1, LeftAlone
<1>4. MemberRows'
  BY <1>1, WrittenMembers
<1>5. TokensFollow(k.op)
  BY <1>1, <1>2, UntouchedTokens
<1>6. GroupRows' /\ ConfigRows'
  <2>1. CASE k.op = "UpsertSCIMGroup"
    <3>1. GroupRow(k.to) /\ groups' = [groups EXCEPT ![k.id] = k.to]
          /\ configs' = configs
      BY <2>1 DEF StoreUpsertSCIMGroup
    <3> QED BY Zenon, <1>1, <3>1, GroupWritten, LeftAlone
  <2>2. CASE k.op = "DeleteSCIMGroup"
    <3>1. /\ GroupRow(k.row) /\ configs' = configs
          /\ groups' = [groups EXCEPT ![k.id] =
                          [k.row EXCEPT !.st = "deleted"]]
      BY <2>2 DEF StoreDeleteSCIMGroup
    <3> QED BY Zenon, <1>1, <3>1, GroupWritten, LeftAlone
  <2>3. CASE k.op = "UpdateSCIMConfiguration"
    <3> DEFINE row == [k.cfg EXCEPT !.policy = k.to]
    <3>1. /\ ConfigRow(k.cfg) /\ configs' = [configs EXCEPT ![k.config] = row]
          /\ groups' = groups
      BY <2>3 DEF StoreUpdateSCIMConfiguration
    <3>2. ConfigRow(row)
      BY <3>1 DEF ConfigRow
    <3> HIDE DEF row
    <3> QED BY Zenon, <1>1, <3>1, <3>2, ConfigurationWritten, LeftAlone
  <2> QED BY <2>1, <2>2, <2>3
<1>7. /\ LinkRows' /\ DomainRows' /\ AdminRows' /\ RootsStay
      /\ InvitationRows' /\ Admits(FALSE, k.id)
  BY ZenonT(40), <1>1, <1>3, LeftAlone
<1>8. Spending(k) /\ Admits(k.op \in Admitting, k.id)
  BY <1>1, <1>2, <1>7 DEF Spending, Admits
<1> QED BY <1>2, <1>3, <1>4, <1>5, <1>6, <1>7, <1>8 DEF Effect, Rows

-----------------------------------------------------------------------------
(* What the transactions do to the records.                                *)

SameAccounts == \A u \in Users : Exists(users, u)' <=> Exists(users, u)

LEMMA MailUntouched ==
    ASSUME Mail, emails' = emails, index' = index, SameAccounts, Invited'
    PROVE  Mail'
<1>1. MailRows'
  BY DEF Mail, MailRows, MailRow, SameAccounts, Exists
<1>2. OneRecordEach' /\ Lookup'
  BY DEF Mail, OneRecordEach, Lookup, Leads, Exists
<1>3. Primaries'
  BY ZenonT(40) DEF Mail, Primaries, OnePrimary, IsPrimary, SameAccounts,
     Exists
<1> QED BY <1>1, <1>2, <1>3 DEF Mail

\* One account is written, that exists before and after.
LEMMA AccountsKept ==
    ASSUME NoneLost, NEW u, Exists(users, u),
           \A v \in Users : v # u => users'[v] = users[v]
    PROVE  SameAccounts
BY DEF NoneLost, SameAccounts, Exists

\* One account and its primary record are added.
LEMMA MailAdded ==
    ASSUME Tables, Mail, Invited', NEW u \in Users, NEW e \in EmailIDs,
           NEW a \in Addresses \cup {None}, NEW st \in {"pending", "verified"},
           NEW pw, NewAccount(u, e, a, st, pw)
    PROVE  Mail'
<1> DEFINE m == [st |-> st, user |-> u, addr |-> a, primary |-> TRUE,
                 code |-> 0]
           x == [st |-> "enabled", email |-> a, password |-> pw]
<1>1. /\ DOMAIN m = {"st", "user", "addr", "primary", "code"}
      /\ m.st = st /\ m.user = u /\ m.addr = a /\ m.primary = TRUE
      /\ m # Absent /\ x # Absent
  BY ZenonT(40) DEF Absent
<1>2. /\ users' = [users EXCEPT ![u] = x] /\ emails' = [emails EXCEPT ![e] = m]
      /\ index' = IF st = "verified" THEN [index EXCEPT ![a] = u] ELSE index
      /\ ~Exists(users, u) /\ ~Exists(emails, e)
      /\ \A f \in EmailIDs : Exists(emails, f) => emails[f].addr # a
  BY ZenonT(40) DEF NewAccount, Taken
<1> HIDE DEF m, x
<1>3. /\ \A v \in Users : Exists(users, v)' <=> v = u \/ Exists(users, v)
      /\ emails' = [f \in EmailIDs |-> emails'[f]]
      /\ \A f \in EmailIDs : emails'[f] = IF f = e THEN m ELSE emails[f]
  BY <1>1, <1>2 DEF Tables, UserRows, Mail, MailRows, Exists
<1>4. \A f \in EmailIDs : emails'[f] # Absent => f = e \/ Exists(emails, f)
  BY <1>3 DEF Exists
<1>5. MailRows'
  <2>1. ASSUME NEW f \in EmailIDs, emails'[f] # Absent
        PROVE  MailRow(f, emails'[f]) /\ users'[emails'[f].user] # Absent
    <3>1. CASE f = e
      BY ZenonT(40), <1>1, <1>3, <3>1 DEF MailRow, Exists
    <3>2. CASE f # e /\ Exists(emails, f)
      BY <1>3, <3>2 DEF Mail, MailRows, MailRow, Exists
    <3> QED BY <1>4, <2>1, <3>1, <3>2
  <2> QED BY <1>3, <2>1 DEF MailRows, MailRow, Exists
<1>6. OneRecordEach'
  BY <1>1, <1>2, <1>3 DEF Mail, OneRecordEach, Exists
<1>7. Lookup'
  <2>1. index' = [b \in Address |-> index'[b]]
    BY <1>2 DEF Mail, Lookup
  <2>2. \A b \in Addresses :
          index'[b] = IF st = "verified" /\ b = a THEN u ELSE index[b]
    BY <1>2 DEF Mail, Lookup, Address
  <2>3. \A f \in EmailIDs : f # e =>
          \A b, v : Leads(f, b, v)' <=> Leads(f, b, v)
    BY <1>3 DEF Leads, Exists
  <2>4. \A b, v : Leads(e, b, v)' <=> st = "verified" /\ b = a /\ v = u
    BY <1>1, <1>3 DEF Leads, Exists
  <2>5. ~\E b, v : Leads(e, b, v)
    BY <1>2 DEF Leads
  <2>6. ASSUME NEW b \in Addresses, index'[b] # None
        PROVE  \E f \in EmailIDs : Leads(f, b, index[b])'
    <3>1. PICK v : v = index'[b]
      OBVIOUS
    <3>2. \E f \in EmailIDs : Leads(f, b, v)'
      BY <2>2, <2>3, <2>4, <2>5, <2>6, <3>1 DEF Mail, Lookup
    <3> QED BY <3>1, <3>2 DEF Leads
  <2>7. ASSUME NEW f \in EmailIDs, NEW b \in Addresses, NEW v \in Users,
               Leads(f, b, v)'
        PROVE  index'[b] = v
    <3>1. CASE f = e
      BY <2>2, <2>4, <2>7, <3>1
    <3>2. CASE f # e
      <4>1. Leads(f, b, v) /\ b # a
        BY <1>2, <2>3, <2>7, <3>2 DEF Leads
      <4> QED BY <2>2, <4>1 DEF Mail, Lookup
    <3> QED BY <3>1, <3>2
  <2> QED BY <2>1, <2>6, <2>7 DEF Lookup
<1>8. Primaries'
  <2>1. \A f \in EmailIDs, v \in Users :
          IsPrimary(f, v)' <=> (IF f = e THEN v = u ELSE IsPrimary(f, v))
    BY <1>1, <1>3 DEF IsPrimary, Exists
  <2>2. \A f \in EmailIDs : ~IsPrimary(f, u)
    BY <1>2 DEF Mail, MailRows, IsPrimary
  <2>3. \A v \in Users : ~IsPrimary(e, v)
    BY <1>2 DEF IsPrimary
  <2>4. ASSUME NEW v \in Users, Exists(users, v)' PROVE OnePrimary(v)'
    <3>1. CASE v = u
      BY <2>1, <2>2, <3>1 DEF OnePrimary
    <3>2. CASE v # u
      <4>1. OnePrimary(v)
        BY <1>3, <2>4, <3>2 DEF Mail, Primaries
      <4> QED BY <2>1, <2>3, <3>2, <4>1 DEF OnePrimary
    <3> QED BY <3>1, <3>2
  <2> QED BY <2>4 DEF Primaries
<1> QED BY <1>5, <1>6, <1>7, <1>8 DEF Mail

\* A record is added to an account.
LEMMA MailSaved ==
    ASSUME Mail, SameAccounts, Invited', NEW u, NEW e \in EmailIDs,
           NEW a \in Addresses \cup {None}, StoreSaveEmail(e, u, a)
    PROVE  Mail'
<1> DEFINE m == [st |-> "pending", user |-> u, addr |-> a, primary |-> FALSE,
                 code |-> 0]
<1>1. /\ DOMAIN m = {"st", "user", "addr", "primary", "code"}
      /\ m.st = "pending" /\ m.user = u /\ m.addr = a /\ m.primary = FALSE
      /\ m # Absent
  BY ZenonT(40) DEF Absent
<1>2. /\ emails' = [emails EXCEPT ![e] = m] /\ index' = index
      /\ u \in Users /\ Exists(users, u) /\ ~Exists(emails, e)
      /\ \A f \in EmailIDs : Exists(emails, f) => emails[f].addr # a
  BY DEF StoreSaveEmail, Taken
<1> HIDE DEF m
<1>3. /\ emails' = [f \in EmailIDs |-> emails'[f]]
      /\ \A f \in EmailIDs : emails'[f] = IF f = e THEN m ELSE emails[f]
  BY <1>2 DEF Mail, MailRows
<1>4. MailRows'
  <2>1. ASSUME NEW f \in EmailIDs, emails'[f] # Absent
        PROVE  MailRow(f, emails'[f]) /\ users'[emails'[f].user] # Absent
    <3>1. CASE f = e
      BY ZenonT(40), <1>1, <1>2, <1>3, <3>1 DEF MailRow, SameAccounts, Exists
    <3>2. CASE f # e
      <4>1. emails'[f] = emails[f] /\ Exists(emails, f)
        BY <1>3, <2>1, <3>2 DEF Exists
      <4> QED BY <4>1 DEF Mail, MailRows, MailRow, SameAccounts, Exists
    <3> QED BY <3>1, <3>2
  <2> QED BY <1>3, <2>1 DEF MailRows, MailRow, Exists
<1>5. OneRecordEach'
  BY <1>1, <1>2, <1>3 DEF Mail, OneRecordEach, Exists
<1>6. \A f \in EmailIDs : \A b, v : Leads(f, b, v)' <=> Leads(f, b, v)
  BY <1>1, <1>2, <1>3 DEF Leads, Exists
<1>7. Lookup'
  BY <1>2, <1>6 DEF Mail, Lookup
<1>8. \A f \in EmailIDs : \A v : IsPrimary(f, v)' <=> IsPrimary(f, v)
  BY <1>1, <1>2, <1>3 DEF IsPrimary, Exists
<1>9. Primaries'
  BY <1>8 DEF Mail, Primaries, OnePrimary, SameAccounts
<1> QED BY <1>4, <1>5, <1>7, <1>9 DEF Mail

\* Records are rewritten: each stays one of its account.
Rewritten ==
    /\ emails' = [e \in EmailIDs |-> emails'[e]]
    /\ \A e \in EmailIDs :
         /\ emails'[e] # Absent <=> emails[e] # Absent
         /\ Exists(emails, e) =>
              MailRow(e, emails'[e]) /\ emails'[e].user = emails[e].user

LEMMA RowsRewritten ==
    ASSUME Mail, SameAccounts, Rewritten
    PROVE  /\ MailRows'
           /\ (\A e \in EmailIDs : Exists(emails, e) =>
                 emails'[e].addr = emails[e].addr) => OneRecordEach'
           /\ (\A e \in EmailIDs : Exists(emails, e) =>
                 emails'[e].primary = emails[e].primary) => Primaries'
<1>1. MailRows'
  <2>1. ASSUME NEW e \in EmailIDs, emails'[e] # Absent
        PROVE  MailRow(e, emails'[e]) /\ users'[emails'[e].user] # Absent
    BY <2>1 DEF Rewritten, Mail, MailRows, MailRow, SameAccounts, Exists
  <2> QED BY <2>1 DEF Rewritten, MailRows, MailRow, Exists
<1>2. ASSUME \A e \in EmailIDs : Exists(emails, e) =>
               emails'[e].addr = emails[e].addr
      PROVE  OneRecordEach'
  BY <1>2 DEF Rewritten, Mail, OneRecordEach, Exists
<1>3. ASSUME \A e \in EmailIDs : Exists(emails, e) =>
               emails'[e].primary = emails[e].primary
      PROVE  Primaries'
  <2>1. \A e \in EmailIDs : \A u : IsPrimary(e, u)' <=> IsPrimary(e, u)
    BY <1>3 DEF Rewritten, IsPrimary, Exists
  <2> QED BY <2>1 DEF Mail, Primaries, OnePrimary, SameAccounts
<1> QED BY <1>1, <1>2, <1>3

\* One record is rewritten.
LEMMA RowRewritten ==
    ASSUME Mail, NEW e \in EmailIDs, Exists(emails, e), NEW m,
           emails' = [emails EXCEPT ![e] = m], MailRow(e, m), m # Absent,
           m.user = emails[e].user
    PROVE  /\ Rewritten
           /\ \A f \in EmailIDs : emails'[f] = IF f = e THEN m ELSE emails[f]
<1>1. /\ emails' = [f \in EmailIDs |-> emails'[f]]
      /\ \A f \in EmailIDs : emails'[f] = IF f = e THEN m ELSE emails[f]
  BY DEF Mail, MailRows
<1> QED BY <1>1 DEF Rewritten, Mail, MailRows, Exists

LEMMA MailReissued ==
    ASSUME Mail, SameAccounts, Invited', NEW e, StoreReissueEmailVerification(e)
    PROVE  Mail'
<1>1. index' = index
  BY DEF StoreReissueEmailVerification
<1>2. CASE e \notin EmailIDs
  <2>1. emails' = emails
    BY <1>2 DEF StoreReissueEmailVerification, Mail, MailRows
  <2> QED BY <1>1, <2>1, MailUntouched
<1>3. CASE e \in EmailIDs
  <2> DEFINE m == [emails[e] EXCEPT !.code = @ + 1]
  <2>1. Exists(emails, e)
    BY DEF StoreReissueEmailVerification, Exists, Absent
  <2>2. MailRow(e, emails[e])
    BY <1>3, <2>1 DEF Mail, MailRows
  <2>3. /\ DOMAIN m = DOMAIN emails[e] /\ m.st = emails[e].st
        /\ m.user = emails[e].user /\ m.addr = emails[e].addr
        /\ m.primary = emails[e].primary
    BY <2>2 DEF MailRow
  <2>4. emails' = [emails EXCEPT ![e] = m]
    BY <1>3 DEF StoreReissueEmailVerification, Mail, MailRows
  <2> HIDE DEF m
  <2>5. MailRow(e, m) /\ m # Absent
    BY <2>2, <2>3 DEF MailRow, Absent
  <2>6. Rewritten /\ \A f \in EmailIDs :
                       emails'[f] = IF f = e THEN m ELSE emails[f]
    BY ZenonT(40), <1>3, <2>1, <2>3, <2>4, <2>5, RowRewritten
  <2>7. \A f \in EmailIDs : \A b, v : Leads(f, b, v)' <=> Leads(f, b, v)
    BY <2>1, <2>3, <2>5, <2>6 DEF Leads, Exists
  <2>8. Lookup'
    BY <1>1, <2>7 DEF Mail, Lookup
  <2> QED BY <2>3, <2>6, <2>8, RowsRewritten DEF Mail
<1> QED BY <1>2, <1>3

LEMMA MailVerified ==
    ASSUME Mail, SameAccounts, Invited', NEW e \in EmailIDs,
           StoreVerifyEmail(e)
    PROVE  Mail'
<1> DEFINE m == [emails[e] EXCEPT !.st = "verified"]
<1>1. Exists(emails, e) /\ emails[e].st = "pending"
  BY DEF StoreVerifyEmail, Exists, Absent
<1>2. MailRow(e, emails[e])
  BY <1>1 DEF Mail, MailRows
<1>3. /\ DOMAIN m = DOMAIN emails[e] /\ m.st = "verified"
      /\ m.user = emails[e].user /\ m.addr = emails[e].addr
      /\ m.primary = emails[e].primary
  BY <1>2 DEF MailRow
<1>4. emails' = [emails EXCEPT ![e] = m]
  BY DEF StoreVerifyEmail, Mail, MailRows
<1> HIDE DEF m
<1>5. MailRow(e, m) /\ m # Absent
  BY <1>2, <1>3 DEF MailRow, Absent
<1>6. Rewritten /\ \A f \in EmailIDs :
                     emails'[f] = IF f = e THEN m ELSE emails[f]
  BY Zenon, <1>1, <1>3, <1>4, <1>5, RowRewritten
<1>7. PICK a, u : a = emails[e].addr /\ u = emails[e].user
  OBVIOUS
<1>8. /\ index' = [b \in Address |-> index'[b]]
      /\ \A b \in Addresses : index'[b] = IF b = a THEN u ELSE index[b]
  BY ZenonT(40), <1>7 DEF StoreVerifyEmail, Mail, Lookup, Address
<1>9. /\ \A f \in EmailIDs : f # e =>
           \A b, v : Leads(f, b, v)' <=> Leads(f, b, v)
      /\ \A b, v : Leads(e, b, v)' <=> b = a /\ v = u
      /\ ~\E b, v : Leads(e, b, v)
  BY <1>1, <1>3, <1>5, <1>6, <1>7 DEF Leads, Exists
<1>10. Lookup'
  <2>1. ASSUME NEW b \in Addresses, index'[b] # None
        PROVE  \E f \in EmailIDs : Leads(f, b, index[b])'
    <3>1. PICK v : v = index'[b]
      OBVIOUS
    <3>2. \E f \in EmailIDs : Leads(f, b, v)'
      BY <1>8, <1>9, <2>1, <3>1 DEF Mail, Lookup
    <3> QED BY Zenon, <3>1, <3>2 DEF Leads
  <2>2. ASSUME NEW f \in EmailIDs, NEW b \in Addresses, NEW v \in Users,
               Leads(f, b, v)'
        PROVE  index'[b] = v
    <3>1. CASE f = e
      BY <1>8, <1>9, <2>2, <3>1
    <3>2. CASE f # e
      <4>0. Leads(f, b, v)
        BY <1>9, <2>2, <3>2
      <4>1. emails[f].addr = b /\ Exists(emails, f)
        BY <4>0 DEF Leads
      <4>2. b # a
        BY <1>1, <1>7, <3>2, <4>1 DEF Mail, OneRecordEach
      <4> QED BY <1>8, <4>0, <4>2 DEF Mail, Lookup
    <3> QED BY <3>1, <3>2
  <2> QED BY <1>8, <2>1, <2>2 DEF Lookup
<1> QED BY <1>3, <1>6, <1>10, RowsRewritten DEF Mail

LEMMA MailPrimary ==
    ASSUME Mail, SameAccounts, Invited', NEW u, NEW e \in EmailIDs,
           StoreSetPrimaryEmail(u, e)
    PROVE  Mail'
<1>1. Exists(emails, e) /\ emails[e].user = u
  BY DEF StoreSetPrimaryEmail, Exists, Absent
<1>2. u \in Users
  BY <1>1 DEF Mail, MailRows, MailRow
<1>3. /\ emails' = [d \in EmailIDs |-> emails'[d]] /\ index' = index
      /\ \A d \in EmailIDs : emails'[d] =
           IF Exists(emails, d) /\ emails[d].user = u
           THEN [emails[d] EXCEPT !.primary = (d = e)] ELSE emails[d]
  BY DEF StoreSetPrimaryEmail
<1>4. ASSUME NEW d \in EmailIDs, Exists(emails, d)
      PROVE  /\ emails'[d] # Absent /\ MailRow(d, emails'[d])
             /\ emails'[d].st = emails[d].st
             /\ emails'[d].user = emails[d].user
             /\ emails'[d].addr = emails[d].addr
             /\ emails'[d].primary = (IF emails[d].user = u THEN (d = e)
                                      ELSE emails[d].primary)
  <2>1. MailRow(d, emails[d])
    BY <1>4 DEF Mail, MailRows
  <2>2. CASE emails[d].user # u
    BY <1>3, <1>4, <2>1, <2>2 DEF Exists
  <2>3. CASE emails[d].user = u
    <3> DEFINE m == [emails[d] EXCEPT !.primary = (d = e)]
    <3>1. /\ DOMAIN m = DOMAIN emails[d] /\ m.st = emails[d].st
          /\ m.user = emails[d].user /\ m.addr = emails[d].addr
          /\ m.primary = (d = e)
      BY <2>1 DEF MailRow
    <3>2. emails'[d] = m
      BY <1>3, <1>4, <2>3
    <3> HIDE DEF m
    <3>3. MailRow(d, m) /\ m # Absent
      BY <2>1, <3>1 DEF MailRow, Absent
    <3> QED BY <2>3, <3>1, <3>2, <3>3
  <2> QED BY <2>2, <2>3
<1>5. \A d \in EmailIDs : ~Exists(emails, d) => emails'[d] = Absent
  BY <1>3 DEF Exists
<1>6. Rewritten
  BY <1>3, <1>4, <1>5 DEF Rewritten, Exists
<1>7. \A f \in EmailIDs : \A b, v : Leads(f, b, v)' <=> Leads(f, b, v)
  BY <1>4, <1>5 DEF Leads, Exists
<1>8. Lookup'
  BY <1>3, <1>7 DEF Mail, Lookup
<1>9. Primaries'
  <2>1. \A f \in EmailIDs : IsPrimary(f, u)' <=> f = e
    BY Zenon, <1>1, <1>4, <1>5 DEF IsPrimary, Exists
  <2>2. \A f \in EmailIDs : \A v :
          v # u => (IsPrimary(f, v)' <=> IsPrimary(f, v))
    BY <1>4, <1>5 DEF IsPrimary, Exists
  <2>3. ASSUME NEW v \in Users, Exists(users, v)' PROVE OnePrimary(v)'
    <3>1. CASE v = u
      BY <2>1, <3>1 DEF OnePrimary
    <3>2. CASE v # u
      <4>1. OnePrimary(v)
        BY <2>3 DEF Mail, Primaries, SameAccounts
      <4> QED BY <2>2, <3>2, <4>1 DEF OnePrimary
    <3> QED BY <3>1, <3>2
  <2> QED BY <2>3 DEF Primaries
<1>10. MailRows' /\ OneRecordEach'
  BY <1>4, <1>6, RowsRewritten
<1> QED BY <1>8, <1>9, <1>10 DEF Mail

LEMMA MailRemoved ==
    ASSUME Mail, SameAccounts, Invited', NEW u, NEW e \in EmailIDs,
           StoreRemoveEmail(u, e)
    PROVE  Mail'
<1>1. PICK a : a = emails[e].addr
  OBVIOUS
<1>2. /\ emails' = [f \in EmailIDs |-> emails'[f]]
      /\ \A f \in EmailIDs :
           emails'[f] = IF f = e THEN Absent ELSE emails[f]
      /\ index' = [b \in Address |-> index'[b]]
      /\ \A b \in Addresses : index'[b] = IF b = a THEN None ELSE index[b]
  BY ZenonT(40), <1>1 DEF StoreRemoveEmail, Mail, MailRows, Lookup, Address
<1>3. Exists(emails, e) /\ ~emails[e].primary
  BY DEF StoreRemoveEmail, Removable
<1>4. /\ \A f \in EmailIDs : \A b, v :
           Leads(f, b, v)' <=> f # e /\ Leads(f, b, v)
      /\ \A f \in EmailIDs : \A v : IsPrimary(f, v)' <=> IsPrimary(f, v)
  BY <1>2, <1>3 DEF Leads, IsPrimary, Exists
<1>5. \A f \in EmailIDs : emails'[f] # Absent =>
        emails'[f] = emails[f] /\ Exists(emails, f) /\ f # e
  BY <1>2 DEF Exists
<1>6. MailRows'
  <2>1. ASSUME NEW f \in EmailIDs, emails'[f] # Absent
        PROVE  MailRow(f, emails'[f]) /\ users'[emails'[f].user] # Absent
    BY <1>5, <2>1 DEF Mail, MailRows, MailRow, SameAccounts, Exists
  <2> QED BY <1>2, <2>1 DEF MailRows, MailRow, Exists
<1>7. OneRecordEach'
  BY <1>5 DEF Mail, OneRecordEach, Exists
<1>8. Lookup'
  <2>1. ASSUME NEW b \in Addresses, index'[b] # None
        PROVE  \E f \in EmailIDs : Leads(f, b, index[b])'
    <3>1. PICK v : v = index'[b]
      OBVIOUS
    <3>2. b # a /\ index[b] = v
      BY <1>2, <2>1, <3>1
    <3>3. PICK f \in EmailIDs : Leads(f, b, v)
      BY <2>1, <3>1, <3>2 DEF Mail, Lookup
    <3>4. f # e
      BY <1>1, <3>2, <3>3 DEF Leads
    <3>5. Leads(f, b, v)'
      BY <1>4, <3>3, <3>4
    <3> QED BY <3>1, <3>5 DEF Leads
  <2>2. ASSUME NEW f \in EmailIDs, NEW b \in Addresses, NEW v \in Users,
               Leads(f, b, v)'
        PROVE  index'[b] = v
    <3>1. f # e /\ Leads(f, b, v)
      BY <1>4, <2>2
    <3>2. b # a
      BY <1>1, <1>3, <3>1 DEF Leads, Mail, OneRecordEach
    <3> QED BY <1>2, <3>1, <3>2 DEF Mail, Lookup
  <2> QED BY <1>2, <2>1, <2>2 DEF Lookup
<1>9. Primaries'
  BY <1>4 DEF Mail, Primaries, OnePrimary, SameAccounts
<1> QED BY <1>6, <1>7, <1>8, <1>9 DEF Mail

LEMMA MailTombstoned ==
    ASSUME Mail, SameAccounts, Invited', NEW u, StoreAnonymizeUser(u)
    PROVE  Mail'
<1> DEFINE own == {e \in EmailIDs : Exists(emails, e) /\ emails[e].user = u}
<1>1. /\ emails' = [e \in EmailIDs |-> emails'[e]]
      /\ \A e \in EmailIDs : emails'[e] =
           IF e \in own THEN [emails[e] EXCEPT !.addr = e] ELSE emails[e]
      /\ index' = [a \in Address |-> index'[a]]
      /\ \A a \in Address : index'[a] =
           IF \E e \in own : a = e THEN u
           ELSE IF \E e \in own : a = emails[e].addr THEN None ELSE index[a]
  BY DEF StoreAnonymizeUser, Tombstone
<1>2. \A e \in own : e \in EmailIDs /\ Exists(emails, e) /\ emails[e].user = u
  OBVIOUS
<1>3. \A e \in EmailIDs : Exists(emails, e) /\ emails[e].user = u => e \in own
  OBVIOUS
<1> HIDE DEF own
<1>4. ASSUME NEW e \in EmailIDs, Exists(emails, e)
      PROVE  /\ emails'[e] # Absent /\ MailRow(e, emails'[e])
             /\ emails'[e].st = emails[e].st
             /\ emails'[e].user = emails[e].user
             /\ emails'[e].addr = IF e \in own THEN e ELSE emails[e].addr
             /\ emails'[e].primary = emails[e].primary
  <2>1. MailRow(e, emails[e])
    BY <1>4 DEF Mail, MailRows
  <2>2. CASE e \notin own
    BY <1>1, <1>4, <2>1, <2>2 DEF Exists
  <2>3. CASE e \in own
    <3> DEFINE m == [emails[e] EXCEPT !.addr = e]
    <3>1. /\ DOMAIN m = DOMAIN emails[e] /\ m.st = emails[e].st
          /\ m.user = emails[e].user /\ m.addr = e
          /\ m.primary = emails[e].primary
      BY <2>1 DEF MailRow
    <3>2. emails'[e] = m
      BY <1>1, <2>3
    <3> HIDE DEF m
    <3>3. MailRow(e, m) /\ m # Absent
      BY <2>1, <3>1 DEF MailRow, Absent, Tombstone
    <3> QED BY <2>3, <3>1, <3>2, <3>3
  <2> QED BY <2>2, <2>3
<1>5. \A e \in EmailIDs : ~Exists(emails, e) => emails'[e] = Absent
  BY <1>1, <1>2 DEF Exists
<1>6. Rewritten
  BY <1>1, <1>4, <1>5 DEF Rewritten, Exists
<1>7. MailRows' /\ Primaries'
  BY <1>4, <1>6, RowsRewritten
<1>8. OneRecordEach'
  <2>1. \A e \in EmailIDs : Exists(emails, e) =>
          emails[e].addr \in Addresses \cup {None, e}
    BY DEF Mail, MailRows, MailRow, Tombstone
  <2>2. \A e, f \in EmailIDs : Exists(emails, e) /\ e # f => emails[e].addr # f
    BY <2>1, DirectoryIDs
  <2>3. ASSUME NEW e \in EmailIDs, NEW f \in EmailIDs, emails'[e] # Absent,
               emails'[f] # Absent, e # f
        PROVE  emails'[e].addr # emails'[f].addr
    <3>1. Exists(emails, e) /\ Exists(emails, f)
      BY <1>5, <2>3
    <3>2. emails[e].addr # emails[f].addr
      BY <2>3, <3>1 DEF Mail, OneRecordEach
    <3> QED BY <1>4, <2>2, <2>3, <3>1, <3>2
  <2> QED BY <2>3 DEF OneRecordEach, Exists
<1>9. Lookup'
  <2>0. Addresses \subseteq Address /\ \A a \in Addresses : a \notin EmailIDs
    BY DirectoryIDs DEF Address
  <2>1. \A a \in Addresses : index'[a] =
          IF \E e \in own : a = emails[e].addr THEN None ELSE index[a]
    BY <1>1, <1>2, <2>0
  <2>2. \A f \in EmailIDs, a \in Addresses : \A v :
          Leads(f, a, v)' <=> f \notin own /\ Leads(f, a, v)
    BY <1>4, <1>5, <2>0 DEF Leads, Exists
  <2>3. ASSUME NEW a \in Addresses, index'[a] # None
        PROVE  \E f \in EmailIDs : Leads(f, a, index[a])'
    <3>1. PICK v : v = index'[a]
      OBVIOUS
    <3>2. index[a] = v /\ ~\E e \in own : a = emails[e].addr
      BY <2>1, <2>3, <3>1
    <3>3. PICK f \in EmailIDs : Leads(f, a, v)
      BY <2>3, <3>1, <3>2 DEF Mail, Lookup
    <3>4. f \notin own
      BY <3>2, <3>3 DEF Leads
    <3>5. Leads(f, a, v)'
      BY <2>2, <3>3, <3>4
    <3> QED BY <3>1, <3>5 DEF Leads
  <2>4. ASSUME NEW f \in EmailIDs, NEW a \in Addresses, NEW v \in Users,
               Leads(f, a, v)'
        PROVE  index'[a] = v
    <3>1. f \notin own /\ Leads(f, a, v)
      BY <2>2, <2>4
    <3>2. \A e \in own : a # emails[e].addr
      BY <1>2, <3>1 DEF Leads, Mail, OneRecordEach
    <3> QED BY <2>1, <3>1, <3>2 DEF Mail, Lookup
  <2> QED BY <1>1, <2>3, <2>4 DEF Lookup
<1> QED BY <1>7, <1>8, <1>9 DEF Mail
=============================================================================
