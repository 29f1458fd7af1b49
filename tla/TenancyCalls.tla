---------------------------- MODULE TenancyCalls ------------------------------
(***************************************************************************)
(* The inductive invariant behind the proofs about Tenancy, for any sets   *)
(* of accounts, workspaces, tokens and concurrent calls, and that no step  *)
(* of a call before its commit breaks it.                                  *)
(***************************************************************************)
EXTENDS Tenancy, TenancyInvariant, TLAPS

-----------------------------------------------------------------------------
(* What is left to do.                                                     *)

LEMMA HeadOfReady ==
    ASSUME NEW S, NEW s \in Ready(S)
    PROVE  Head(s) \in S
BY DEF Ready

LEMMA TailOfReady ==
    ASSUME NEW S, NEW s \in Ready(S), Head(s) # "commit"
    PROVE  Tail(s) \in Ready(S)
<1>1. s \in Seq(S) /\ Len(s) \in Nat /\ Len(s) > 0 /\ Head(s) = s[1]
  BY DEF Ready
<1>2. Len(s) > 1
  BY <1>1 DEF Ready
<1>3. /\ Tail(s) \in Seq(S) /\ Len(Tail(s)) = Len(s) - 1
      /\ \A i \in 1..Len(s) - 1 : Tail(s)[i] = s[i + 1]
  BY <1>1
<1>4. Tail(s)[Len(s) - 1] = s[Len(s)]
  BY <1>1, <1>2, <1>3
<1>5. s[Len(s)] = "commit"
  BY DEF Ready
<1>6. Len(Tail(s)) > 0 /\ Tail(s)[Len(Tail(s))] = "commit"
  BY <1>1, <1>2, <1>3, <1>4, <1>5
<1> QED BY Zenon, <1>3, <1>6 DEF Ready

LEMMA ThenCommit ==
    ASSUME NEW S, "commit" \in S, NEW t \in Seq(S)
    PROVE  t \o <<"commit">> \in Ready(S)
<1>1. <<"commit">> \in Seq(S) /\ Len(<<"commit">>) = 1
  OBVIOUS
<1>2. /\ t \o <<"commit">> \in Seq(S)
      /\ Len(t \o <<"commit">>) = Len(t) + 1
      /\ (t \o <<"commit">>)[Len(t) + 1] = "commit"
  BY <1>1
<1>3. LET s == t \o <<"commit">> IN Len(s) > 0 /\ s[Len(s)] = "commit"
  BY <1>2
<1> QED BY Zenon, <1>2, <1>3 DEF Ready

\* No read is the mark of an idle slot, and every operation may commit.
LEMMA NeverIdle == \A op : "idle" \notin Reads(op) /\ "commit" \in Reads(op)
BY DEF Reads, Searching, Admitting, Authority, Permissions, AdminPermissions,
       Ordinary, Elsewhere, Finding, Recomputation, Updating, Regrouping

LEMMA IdleSlot ==
    ASSUME Calls, NEW r \in Requests, At(r, "idle")
    PROVE  call[r] = Idle
<1>1. CASE Running(call[r])
  <2>1. Head(call[r].todo) \in Reads(call[r].op)
    BY <1>1, HeadOfReady DEF Running
  <2> QED BY <2>1, NeverIdle DEF At
<1> QED BY <1>1 DEF Calls

-----------------------------------------------------------------------------
(* The steps of a call that commit nothing.                                *)

LEMMA QuietTables ==
    ASSUME Tables, UNCHANGED <<storeVars, principals, historyVars>>
    PROVE  Tables'
BY DEF Tables, UserRows, MemberRows, AdminRows, LinkRows, ConfigRow,
       ConfigRows, GroupRow, GroupRows, DomainRows, TokenRows, Uses, Exists,
       storeVars, accountVars, tenantVars, grantVars, directoryVars,
       federationVars, scimVars, groupVars, historyVars

\* One slot changes, and no account goes away.
LEMMA SlotWritten ==
    ASSUME Calls, NEW r \in Requests, NEW k, users' = users,
           call' = [call EXCEPT ![r] = k], k = Idle \/ Running(k)
    PROVE  Calls'
<1>1. \A q \in Requests : call'[q] = IF q = r THEN k ELSE call[q]
  BY DEF Calls
<1>2. \A m : Running(m) => Running(m)'
  BY DEF Running, Inputs, Aimed, Found, Exists
<1> QED BY <1>1, <1>2 DEF Calls

\* m is k with something else left to do.
Resumes(k, x, m) == m = [k EXCEPT !.todo = x]

LEMMA Resumed ==
    ASSUME NEW k, DOMAIN k = Fields, NEW x, NEW m, Resumes(k, x, m)
    PROVE  /\ DOMAIN m = Fields /\ m.todo = x /\ m.op = k.op /\ m.ws = k.ws
           /\ m.cfg = k.cfg /\ m.rows = k.rows /\ m.row = k.row
           /\ m.to = k.to
           /\ Inputs(k) => Inputs(m)
<1>1. /\ DOMAIN m = Fields /\ m.todo = x /\ m.op = k.op /\ m.ws = k.ws
      /\ m.cfg = k.cfg /\ m.rows = k.rows /\ m.row = k.row /\ m.to = k.to
      /\ m.actor = k.actor /\ m.id = k.id /\ m.config = k.config
      /\ m.ceremony = k.ceremony /\ m.addr = k.addr
  BY DEF Fields, Resumes
<1>2. Inputs(k) => Inputs(m)
  BY <1>1 DEF Inputs, Aimed
<1> QED BY <1>1, <1>2

\* A call begins.
Opens(k, reads) ==
    /\ reads \in Seq(Reads(k.op))
    /\ k.op \in Regrouping => Len(reads) > 0 /\ reads[1] = "provisioner"
    /\ k.op = "UpsertSCIMGroup" => GroupRow(k.row) /\ GroupRow(k.to)
    /\ k.op = "DeleteSCIMGroup" => reads \o <<"commit">> \in Unread
    /\ k.op = "UpdateSCIMConfiguration" =>
         Len(reads) > 0 /\ reads[1] = "configuration"

LEMMA Begun ==
    ASSUME Calls, NEW r \in Requests, NEW k, NEW reads, Begins(r, k, reads),
           DOMAIN k = Fields, k.rows = <<>>, Inputs(k), Opens(k, reads)
    PROVE  Calls'
<1> DEFINE x == reads \o <<"commit">>
           m == [k EXCEPT !.todo = x]
<1>1. call' = [call EXCEPT ![r] = m] /\ users' = users
  BY DEF Begins, storeVars, accountVars
<1>2. x \in Ready(Reads(k.op))
  BY NeverIdle, ThenCommit DEF Opens
<1>3. /\ Len(reads) > 0 => Head(x) = reads[1]
      /\ k.op = "DeleteSCIMGroup" => x \in Unread
  BY DEF Opens
<1> HIDE DEF x
<1>0. Resumes(k, x, m)
  BY DEF Resumes
<1> HIDE DEF m
<1>4. /\ DOMAIN m = Fields /\ m.todo = x /\ m.op = k.op /\ m.rows = k.rows
      /\ m.row = k.row /\ m.to = k.to /\ Inputs(m)
  BY <1>0, Resumed
<1>5. Found(m)
  BY <1>3, <1>4 DEF Found, Opens
<1>6. Running(m)
  BY <1>2, <1>4, <1>5 DEF Running
<1> QED BY Zenon, <1>1, <1>6, SlotWritten

\* A call goes on as k after a read.
Settled(k) ==
    /\ k.op = "UpsertSCIMGroup" => GroupRow(k.row) /\ GroupRow(k.to)
    /\ k.op = "DeleteSCIMGroup" => GroupRow(k.row) \/ Tail(k.todo) \in Unread
    /\ k.op \in Regrouping => k.ws \in Workspaces
    /\ k.op = "UpdateSCIMConfiguration" =>
         k.ws \in Workspaces /\ ConfigRow(k.cfg) /\ k.cfg.ws = k.ws
    /\ \A u \in DOMAIN k.rows : u \in Users => Exists(users, u)

LEMMA GoesOn ==
    ASSUME Calls, NEW r \in Requests, NEW k, Continues(r, k),
           DOMAIN k = Fields, k.todo \in Ready(Reads(k.op)),
           Head(k.todo) # "commit", Inputs(k), Settled(k)
    PROVE  Calls'
<1> DEFINE x == Tail(k.todo)
           m == [k EXCEPT !.todo = x]
<1>1. call' = [call EXCEPT ![r] = m] /\ users' = users
  BY DEF Continues, storeVars, accountVars
<1>2. x \in Ready(Reads(k.op))
  BY TailOfReady
<1>3. k.op = "DeleteSCIMGroup" => GroupRow(k.row) \/ x \in Unread
  BY DEF Settled
<1> HIDE DEF x
<1>0. Resumes(k, x, m)
  BY DEF Resumes
<1> HIDE DEF m
<1>4. /\ DOMAIN m = Fields /\ m.todo = x /\ m.op = k.op /\ m.ws = k.ws
      /\ m.cfg = k.cfg /\ m.rows = k.rows /\ m.row = k.row /\ m.to = k.to
      /\ Inputs(m)
  BY <1>0, Resumed
<1>5. Found(m)
  BY <1>3, <1>4 DEF Found, Settled
<1>6. Running(m)
  BY <1>2, <1>4, <1>5 DEF Running
<1> QED BY ZenonT(40), <1>1, <1>6, SlotWritten

\* The operations whose inputs, or reads, later steps rely on.
Watched == {"CreatePAT", "CreateWorkspaceDomain", "CreateSCIMConfiguration"}
           \cup Updating \cup Recomputing

\* A call at a read is running, and reads what its operation reads.
LEMMA Reading ==
    ASSUME Calls, NEW r \in Requests, ~At(r, "idle")
    PROVE  /\ Running(call[r]) /\ DOMAIN call[r] = Fields
           /\ Head(call[r].todo) \in Reads(call[r].op)
<1>1. call[r] # Idle
  BY DEF Idle, Blank, At
<1>2. Running(call[r])
  BY <1>1 DEF Calls
<1> QED BY <1>2, HeadOfReady DEF Running

LEMMA Proceeds ==
    ASSUME Calls, NEW r \in Requests, NEW k, Continues(r, k),
           ~At(r, "idle"), ~At(r, "commit"), ~At(r, "provisioner"),
           ~At(r, "configuration"), DOMAIN k = Fields,
           k.op = call[r].op, k.todo = call[r].todo, k.rows = call[r].rows,
           k.ceremony = call[r].ceremony, k.config = call[r].config,
           k.id = call[r].id, k.addr = call[r].addr,
           k.op \in Watched =>
             /\ k.ws = call[r].ws /\ k.cfg = call[r].cfg
             /\ k.actor = call[r].actor /\ k.to = call[r].to,
           k.op \in Regrouping =>
             \/ GroupRow(k.row)
             \/ k.row = call[r].row /\ ~At(r, "group")
    PROVE  Calls'
<1>1. Running(call[r])
  BY Reading
<1>2. k.todo \in Ready(Reads(k.op)) /\ Head(k.todo) # "commit"
  BY <1>1 DEF Running, At
<1>3. Inputs(k)
  BY <1>1 DEF Running, Inputs, Aimed, Watched, Recomputing
<1>4. call[r].todo \in Unread => At(r, "provisioner") \/ At(r, "group")
  BY DEF Unread, At
<1>5. Settled(k)
  BY <1>1, <1>4 DEF Running, Found, Settled, Watched, Recomputing, Regrouping,
                    At
<1> QED BY <1>2, <1>3, <1>5, GoesOn

\* A read that is not on the list of a watched operation.
LEMMA Unwatched ==
    ASSUME Calls, NEW r \in Requests,
           Head(call[r].todo) \in
             Anywhere \ {"provisioner", "configuration"}
    PROVE  call[r].op \notin Watched /\ Running(call[r])
           /\ ~At(r, "idle") /\ ~At(r, "commit") /\ ~At(r, "provisioner")
           /\ ~At(r, "configuration")
<1>1. ~At(r, "idle") /\ ~At(r, "commit") /\ ~At(r, "provisioner")
      /\ ~At(r, "configuration")
  BY DEF At, Anywhere, Elsewhere, Finding
<1>2. Running(call[r]) /\ Head(call[r].todo) \in Reads(call[r].op)
  BY <1>1, Reading
<1>3. call[r].op \notin Watched
  BY <1>2 DEF Watched, Recomputing, Reads, Searching, Admitting, Anywhere,
              Elsewhere, Finding, Authority, Permissions, AdminPermissions,
              Recomputation, Updating, Regrouping
<1> QED BY <1>1, <1>2, <1>3

LEMMA PassesOn ==
    ASSUME Calls, NEW r \in Requests, Passes(r),
           ~At(r, "idle"), ~At(r, "commit"), ~At(r, "provisioner"),
           ~At(r, "configuration"), ~At(r, "group")
    PROVE  Calls'
BY Reading, Proceeds DEF Passes

LEMMA RemembersRow ==
    ASSUME Calls, NEW r \in Requests, NEW row, Remembers(r, row),
           ~At(r, "idle"), ~At(r, "commit"), ~At(r, "provisioner"),
           ~At(r, "configuration"), call[r].op \in Regrouping => GroupRow(row)
    PROVE  Calls'
<1> DEFINE k == [call[r] EXCEPT !.row = row]
<1>1. DOMAIN call[r] = Fields
  BY Reading
<1>2. /\ DOMAIN k = Fields
      /\ k.op = call[r].op /\ k.todo = call[r].todo /\ k.rows = call[r].rows
      /\ k.ceremony = call[r].ceremony /\ k.config = call[r].config
      /\ k.ws = call[r].ws /\ k.cfg = call[r].cfg
      /\ k.actor = call[r].actor /\ k.id = call[r].id /\ k.to = call[r].to
      /\ k.row = row /\ k.addr = call[r].addr
  BY <1>1 DEF Fields
<1>3. Continues(r, k)
  BY DEF Remembers
<1> HIDE DEF k
<1> QED BY <1>2, <1>3, Proceeds

LEMMA ChecksPass ==
    ASSUME Calls, NEW r \in Requests, Checks(r)
    PROVE  Calls'
<1>1. /\ Passes(r)
      /\ Head(call[r].todo) \in {"user", "workspace"} \cup Permissions
                                \cup AdminPermissions
  BY DEF Checks, ReadsUser, ReadsWorkspace, ReadsMembership,
         ReadsInstanceRole, At
<1> QED BY <1>1, PassesOn DEF At, Permissions, AdminPermissions

LEMMA LookupsPass ==
    ASSUME Calls, NEW r \in Requests, Lookups(r)
    PROVE  Calls'
<1>1. /\ Passes(r) \/ \E row : Remembers(r, row)
      /\ Head(call[r].todo) \in {"target", "local", "free", "record",
                                 "unclaimed", "domain policy"}
  BY DEF Lookups, ReadsTarget, ReadsLocal, ReadsFree, ReadsRecord,
         ReadsUnclaimed, ReadsDomainPolicy, At
<1>2. call[r].op \notin Regrouping
  BY <1>1, Unwatched DEF Anywhere, Elsewhere, Watched, Recomputing
<1> QED BY <1>1, <1>2, PassesOn, RemembersRow DEF At

LEMMA RefusedEnds ==
    ASSUME Calls, NEW r \in Requests, Refused(r)
    PROVE  Calls'
BY Zenon, SlotWritten DEF Refused, storeVars, accountVars

-----------------------------------------------------------------------------
(* Governance: calls begin and read.                                       *)

LEMMA OrdinaryReads ==
    \A op : op \notin Watched =>
      Reads(op) = CASE op \in Searching -> Ordinary \cup Finding
                    [] op \in Admitting -> Ordinary \cup {"invitation"}
                    [] OTHER -> Ordinary
BY DEF Watched, Recomputing, Regrouping, Reads

LEMMA WiderSequence ==
    ASSUME NEW S, NEW T, S \subseteq T, NEW s \in Seq(S)
    PROVE  s \in Seq(T)
<1>1. Len(s) \in Nat /\ s \in [1..Len(s) -> S]
  OBVIOUS
<1>2. s \in [1..Len(s) -> T]
  BY <1>1
<1> QED BY <1>1, <1>2

LEMMA OrdinarySequences ==
    ASSUME NEW op, op \notin Watched
    PROVE  /\ Ordinary \subseteq Reads(op)
           /\ \A s \in Seq(Ordinary) : s \in Seq(Reads(op))
           /\ \A s \in Ready(Ordinary) : s \in Ready(Reads(op))
<1>1. Ordinary \subseteq Reads(op)
  BY OrdinaryReads
<1>2. \A s \in Seq(Ordinary) : s \in Seq(Reads(op))
  BY <1>1, WiderSequence
<1> QED BY <1>1, <1>2 DEF Ready

LEMMA AuthorityReads ==
    /\ \A p \in Permissions : May(p) \in Seq(Authority)
    /\ \A p \in AdminPermissions : MayAdminister(p) \in Seq(Authority)
    /\ Seq(Authority) \subseteq Seq(Ordinary)
<1>1. \A p \in Permissions : May(p) \in Seq(Authority)
  BY DEF May, Authority
<1>2. \A p \in AdminPermissions : MayAdminister(p) \in Seq(Authority)
  BY DEF MayAdminister, Authority
<1>3. Authority \subseteq Ordinary
  BY DEF Ordinary
<1>4. \A s \in Seq(Authority) : s \in Seq(Ordinary)
  BY <1>3, WiderSequence
<1> QED BY <1>1, <1>2, <1>4

LEMMA Asked ==
    /\ May("access") \in Seq(Ordinary)
    /\ May("settings.write") \in Seq(Ordinary)
    /\ May("users.write") \in Seq(Ordinary)
    /\ May("rbac.write") \in Seq(Ordinary)
    /\ May("credentials.manage") \in Seq(Ordinary)
    /\ MayAdminister("admin.users.write") \in Seq(Ordinary)
    /\ MayAdminister("admin.workspaces.write") \in Seq(Ordinary)
    /\ MayAdminister("admin.instance_roles.write") \in Seq(Ordinary)
BY AuthorityReads DEF Permissions, AdminPermissions

\* An operation with nothing to watch begins.
FreeCall(k) == /\ DOMAIN k = Fields /\ k.rows = <<>> /\ k.ceremony = None
               /\ k.op \notin Watched \cup Configuring /\ Aimed(k)

LEMMA BegunAtWill ==
    ASSUME Calls, NEW r \in Requests
    PROVE  \A k, reads : /\ Begins(r, k, reads)
                        /\ FreeCall(k) /\ reads \in Seq(Reads(k.op)) => Calls'
<1> SUFFICES ASSUME NEW k, NEW reads, Begins(r, k, reads), FreeCall(k),
                    reads \in Seq(Reads(k.op))
             PROVE  Calls'
  OBVIOUS
<1>1. Inputs(k)
  BY DEF FreeCall, Inputs, Watched, Recomputing
<1>2. Opens(k, reads)
  BY DEF FreeCall, Opens, Watched, Recomputing, Regrouping
<1> QED BY <1>1, <1>2, Begun DEF FreeCall

LEMMA BegunFreely ==
    ASSUME Calls, NEW r \in Requests
    PROVE  \A k, reads : /\ Begins(r, k, reads)
                        /\ FreeCall(k) /\ reads \in Seq(Ordinary) => Calls'
BY BegunAtWill, OrdinarySequences DEF FreeCall

LEMMA AccountCalls ==
    ASSUME Calls, NEW r \in Requests,
           \/ CreateUser(r) \/ SetUserDisabled(r) \/ RevokeUserCredentials(r)
           \/ SetInstanceRole(r) \/ RemoveInstanceRole(r) \/ UpdateUser(r)
           \/ AnonymizeUser(r)
    PROVE  Calls'
<1>1. /\ \A a, w, x :
           FreeCall([Blank EXCEPT !.op = "CreateUser", !.actor = a, !.ws = w,
                                  !.role = x])
      /\ \A op \in {"DisableUser", "EnableUser"} : \A a, u :
           FreeCall([Blank EXCEPT !.op = op, !.actor = a, !.user = u])
      /\ \A a, u :
           FreeCall([Blank EXCEPT !.op = "RevokeUserCredentials",
                                  !.actor = a, !.user = u])
      /\ \A a, u, x :
           FreeCall([Blank EXCEPT !.op = "SetInstanceRole", !.actor = a,
                                  !.user = u, !.role = x])
      /\ \A a, u :
           FreeCall([Blank EXCEPT !.op = "RemoveInstanceRole", !.actor = a,
                                  !.user = u])
      /\ \A a, u :
           FreeCall([Blank EXCEPT !.op = "UpdateUser", !.actor = a,
                                  !.user = u])
      /\ \A a, u :
           FreeCall([Blank EXCEPT !.op = "AnonymizeUser", !.actor = a,
                                  !.user = u])
  BY DEF FreeCall, Aimed, Admitting, Blank, Fields, Watched,
         Recomputing, Updating, Regrouping, Configuring
<1>2. /\ <<>> \in Seq(Ordinary)
      /\ <<"target">> \in Seq(Ordinary)
  BY DEF Ordinary, Elsewhere, Authority
<1>3. /\ MayAdminister("admin.users.write") \o <<"target">> \in Seq(Ordinary)
      /\ <<>> \o <<"target">> \in Seq(Ordinary)
      /\ MayAdminister("admin.instance_roles.write") \o <<"target">>
           \in Seq(Ordinary)
  BY <1>2, Asked
<1>4. CASE CreateUser(r)
  BY Zenon, <1>4, <1>1, <1>2, <1>3, BegunFreely, Asked
     DEF CreateUser
<1>5. CASE SetUserDisabled(r)
  BY Zenon, <1>5, <1>1, <1>2, <1>3, BegunFreely, Asked
     DEF SetUserDisabled
<1>6. CASE RevokeUserCredentials(r)
  BY Zenon, <1>6, <1>1, <1>2, <1>3, BegunFreely, Asked
     DEF RevokeUserCredentials
<1>7. CASE SetInstanceRole(r)
  <2>1. PICK a, u, x :
          Begins(r, [Blank EXCEPT !.op = "SetInstanceRole", !.actor = a,
                                  !.user = u, !.role = x],
                 MayAdminister("admin.instance_roles.write")
                   \o <<"target">>)
    BY Zenon, <1>7 DEF SetInstanceRole
  <2>2. FreeCall([Blank EXCEPT !.op = "SetInstanceRole", !.actor = a,
                               !.user = u, !.role = x])
    BY Zenon, <1>1
  <2> QED BY Zenon, <2>1, <2>2, <1>2, <1>3, Asked, BegunFreely
<1>8. CASE RemoveInstanceRole(r)
  BY Zenon, <1>8, <1>1, <1>2, <1>3, BegunFreely, Asked
     DEF RemoveInstanceRole
<1>9. CASE UpdateUser(r)
  <2>1. PICK a, u :
          Begins(r, [Blank EXCEPT !.op = "UpdateUser", !.actor = a,
                                  !.user = u],
                 (IF u = a THEN <<>> ELSE MayAdminister("admin.users.write"))
                 \o <<"target">>)
    BY Zenon, <1>9 DEF UpdateUser
  <2>2. FreeCall([Blank EXCEPT !.op = "UpdateUser", !.actor = a, !.user = u])
    BY Zenon, <1>1
  <2> QED BY Zenon, <2>1, <2>2, <1>2, <1>3, Asked, BegunFreely
<1>10. CASE AnonymizeUser(r)
  BY Zenon, <1>10, <1>1, <1>2, <1>3, BegunFreely, Asked
     DEF AnonymizeUser
<1> QED BY <1>4, <1>5, <1>6, <1>7, <1>8, <1>9, <1>10

LEMMA WorkspaceCalls ==
    ASSUME Calls, NEW r \in Requests,
           \/ CreateWorkspace(r) \/ UpdateWorkspace(r)
           \/ SetWorkspaceDisabled(r)
    PROVE  Calls'
<1>1. /\ \A a :
           FreeCall([Blank EXCEPT !.op = "CreateWorkspace", !.actor = a])
      /\ \A a, w :
           FreeCall([Blank EXCEPT !.op = "UpdateWorkspace", !.actor = a,
                                  !.ws = w])
      /\ \A op \in {"DisableWorkspace", "EnableWorkspace"} : \A a, w :
           FreeCall([Blank EXCEPT !.op = op, !.actor = a, !.ws = w])
  BY DEF FreeCall, Aimed, Admitting, Blank, Fields, Watched,
         Recomputing, Updating, Regrouping, Configuring
<1>2. /\ <<"user">> \in Seq(Ordinary)
      /\ <<"record">> \in Seq(Ordinary)
  BY DEF Ordinary, Elsewhere, Authority
<1>3. /\ SettingsOf(TRUE) \o <<"record">> \in Seq(Ordinary)
      /\ SettingsOf(FALSE) \o <<"record">> \in Seq(Ordinary)
  BY <1>2, Asked DEF SettingsOf
<1>4. CASE CreateWorkspace(r)
  BY Zenon, <1>4, <1>1, <1>2, <1>3, BegunFreely, Asked
     DEF CreateWorkspace
<1>5. CASE UpdateWorkspace(r)
  BY Zenon, <1>5, <1>1, <1>2, <1>3, BegunFreely, Asked
     DEF UpdateWorkspace
<1>6. CASE SetWorkspaceDisabled(r)
  BY Zenon, <1>6, <1>1, <1>2, <1>3, BegunFreely, Asked
     DEF SetWorkspaceDisabled
<1> QED BY <1>4, <1>5, <1>6

LEMMA MembershipCalls ==
    ASSUME Calls, NEW r \in Requests,
           \/ AddMembership(r) \/ SetMembershipStatus(r)
           \/ RemoveMembership(r) \/ GrantRole(r)
    PROVE  Calls'
<1>1. /\ \A a, w, u, x :
           FreeCall([Blank EXCEPT !.op = "AddMembership", !.actor = a,
                                  !.ws = w, !.user = u, !.role = x])
      /\ \A op \in {"SuspendMembership", "ReactivateMembership"} : \A a, w, u :
           FreeCall([Blank EXCEPT !.op = op, !.actor = a, !.ws = w,
                                  !.user = u])
      /\ \A a, w, u :
           FreeCall([Blank EXCEPT !.op = "RemoveMembership", !.actor = a,
                                  !.ws = w, !.user = u])
      /\ \A a, w, u, x :
           FreeCall([Blank EXCEPT !.op = "GrantRole", !.actor = a, !.ws = w,
                                  !.user = u, !.role = x])
  BY DEF FreeCall, Aimed, Admitting, Blank, Fields, Watched,
         Recomputing, Updating, Regrouping, Configuring
<1>2. /\ <<"target", "free">> \in Seq(Ordinary)
      /\ <<"target", "local">> \in Seq(Ordinary)
      /\ <<"role">> \in Seq(Ordinary)
      /\ <<"local">> \in Seq(Ordinary)
  BY DEF Ordinary, Elsewhere, Authority
<1>3. /\ May("users.write") \o May("rbac.write") \o <<"target", "free">>
           \in Seq(Ordinary)
      /\ May("users.write") \o <<"role">> \o May("users.write")
           \o <<"target", "local">> \in Seq(Ordinary)
      /\ May("users.write") \o <<"local">> \in Seq(Ordinary)
      /\ May("rbac.write") \o <<"target", "local">> \in Seq(Ordinary)
  BY <1>2, Asked
<1>4. CASE AddMembership(r)
  <2>1. PICK a, w, u, x :
          Begins(r, [Blank EXCEPT !.op = "AddMembership", !.actor = a,
                                  !.ws = w, !.user = u, !.role = x],
                 May("users.write") \o May("rbac.write")
                   \o <<"target", "free">>)
    BY Zenon, <1>4 DEF AddMembership
  <2>2. FreeCall([Blank EXCEPT !.op = "AddMembership", !.actor = a, !.ws = w,
                               !.user = u, !.role = x])
    BY Zenon, <1>1
  <2> QED BY Zenon, <2>1, <2>2, <1>2, <1>3, Asked, BegunFreely
<1>5. CASE SetMembershipStatus(r)
  BY Zenon, <1>5, <1>1, <1>2, <1>3, BegunFreely, Asked
     DEF SetMembershipStatus
<1>6. CASE RemoveMembership(r)
  BY Zenon, <1>6, <1>1, <1>2, <1>3, BegunFreely, Asked
     DEF RemoveMembership
<1>7. CASE GrantRole(r)
  BY Zenon, <1>7, <1>1, <1>2, <1>3, BegunFreely, Asked
     DEF GrantRole
<1> QED BY <1>4, <1>5, <1>6, <1>7

LEMMA InvitationCalls ==
    ASSUME Calls, NEW r \in Requests,
           \/ InviteToWorkspace(r) \/ AcceptInvitation(r)
           \/ RegisterFromInvitation(r) \/ RevokeInvitation(r)
    PROVE  Calls'
<1>1. /\ \A a, w, x : \A m \in Addresses :
           FreeCall([Blank EXCEPT !.op = "InviteToWorkspace", !.actor = a,
                                  !.ws = w, !.addr = m, !.role = x])
      /\ \A a : \A i \in InvitationIDs :
           FreeCall([Blank EXCEPT !.op = "AcceptInvitation", !.actor = a,
                                  !.user = a, !.id = i])
      /\ \A i \in InvitationIDs :
           FreeCall([Blank EXCEPT !.op = "RegisterFromInvitation", !.id = i])
      /\ \A a, i, w :
           FreeCall([Blank EXCEPT !.op = "RevokeInvitation", !.actor = a,
                                  !.id = i, !.ws = w])
  BY DEF FreeCall, Aimed, Admitting, Blank, Fields, Watched,
         Recomputing, Updating, Regrouping, Configuring
<1>2. /\ <<"invitee", "free", "pending">> \in Seq(Ordinary)
      /\ <<"invitation", "workspace", "owned", "free">>
           \in Seq(Reads("AcceptInvitation"))
      /\ <<"invitation", "workspace", "domain policy", "unclaimed">>
           \in Seq(Reads("RegisterFromInvitation"))
  BY DEF Ordinary, Elsewhere, Authority, Reads, Admitting, Searching, Updating,
         Regrouping
<1>3. May("users.write") \o <<"invitee", "free", "pending">> \in Seq(Ordinary)
  <2>1. <<"invitee", "free", "pending">> \in Seq(Ordinary)
    BY <1>2
  <2> QED BY <2>1, Asked
<1>4. CASE InviteToWorkspace(r)
  <2>1. PICK a \in Users, w \in Workspaces, m \in Addresses, x \in Roles :
          Begins(r, [Blank EXCEPT !.op = "InviteToWorkspace", !.actor = a,
                                  !.ws = w, !.addr = m, !.role = x],
                 May("users.write") \o <<"invitee", "free", "pending">>)
    BY Zenon, <1>4 DEF InviteToWorkspace, Registered, Tenants
  <2>2. FreeCall([Blank EXCEPT !.op = "InviteToWorkspace", !.actor = a,
                               !.ws = w, !.addr = m, !.role = x])
    BY Zenon, <1>1
  <2> QED BY <2>1, <2>2, <1>2, <1>3, Asked, BegunFreely
<1>5. CASE AcceptInvitation(r)
  <2> DEFINE reads == <<"invitation", "workspace", "owned", "free">>
  <2>1. PICK a \in Users, i \in InvitationIDs :
          Begins(r, [Blank EXCEPT !.op = "AcceptInvitation", !.actor = a,
                                  !.user = a, !.id = i],
                 reads)
    BY Zenon, <1>5 DEF AcceptInvitation, Registered, Issued
  <2> DEFINE k == [Blank EXCEPT !.op = "AcceptInvitation", !.actor = a,
                                  !.user = a, !.id = i]
  <2>2. FreeCall(k) /\ k.op = "AcceptInvitation"
    BY Zenon, <1>1 DEF Blank
  <2>3. reads \in Seq(Reads(k.op))
    BY <1>2, <2>2
  <2> HIDE DEF k, reads
  <2>4. Begins(r, k, reads)
    BY <2>1 DEF k
  <2> QED BY <2>2, <2>3, <2>4, BegunAtWill
<1>6. CASE RegisterFromInvitation(r)
  <2> DEFINE reads == <<"invitation", "workspace", "domain policy",
                        "unclaimed">>
  <2>1. PICK i \in InvitationIDs :
          Begins(r, [Blank EXCEPT !.op = "RegisterFromInvitation", !.id = i],
                 reads)
    BY Zenon, <1>6 DEF RegisterFromInvitation, Registered, Issued
  <2> DEFINE k == [Blank EXCEPT !.op = "RegisterFromInvitation", !.id = i]
  <2>2. FreeCall(k) /\ k.op = "RegisterFromInvitation"
    BY Zenon, <1>1 DEF Blank
  <2>3. reads \in Seq(Reads(k.op))
    BY <1>2, <2>2
  <2> HIDE DEF k, reads
  <2>4. Begins(r, k, reads)
    BY <2>1 DEF k
  <2> QED BY <2>2, <2>3, <2>4, BegunAtWill
<1>7. CASE RevokeInvitation(r)
  <2>1. PICK a, i, w :
          Begins(r, [Blank EXCEPT !.op = "RevokeInvitation", !.actor = a,
                                  !.id = i, !.ws = w],
                 May("users.write"))
    BY Zenon, <1>7 DEF RevokeInvitation
  <2>2. FreeCall([Blank EXCEPT !.op = "RevokeInvitation", !.actor = a,
                               !.id = i, !.ws = w])
    BY Zenon, <1>1
  <2> QED BY <2>1, <2>2, <1>2, <1>3, Asked, BegunFreely
<1> QED BY <1>4, <1>5, <1>6, <1>7

LEMMA TokenCalls ==
    ASSUME Calls, NEW r \in Requests,
           \/ AuthenticatePAT(r) \/ RevokePAT(r) \/ RevokeWorkspacePAT(r)
    PROVE  Calls'
<1>1. /\ \A p :
           FreeCall([Blank EXCEPT !.op = "AuthenticatePAT", !.id = p])
      /\ \A a, p, u :
           FreeCall([Blank EXCEPT !.op = "RevokePAT", !.actor = a, !.id = p,
                                  !.user = u])
      /\ \A a, w, p, u :
           FreeCall([Blank EXCEPT !.op = "RevokePAT", !.actor = a, !.ws = w,
                                  !.id = p, !.user = u])
  BY DEF FreeCall, Aimed, Admitting, Blank, Fields, Watched,
         Recomputing, Updating, Regrouping, Configuring
<1>2. /\ <<>> \in Seq(Ordinary)
      /\ <<"token">> \in Seq(Ordinary)
  BY DEF Ordinary, Elsewhere, Authority
<1>3. CASE AuthenticatePAT(r)
  BY Zenon, <1>3, <1>1, <1>2, BegunFreely, Asked
     DEF AuthenticatePAT
<1>4. CASE RevokePAT(r)
  <2>1. PICK a, p, u :
          Begins(r, [Blank EXCEPT !.op = "RevokePAT", !.actor = a, !.id = p,
                                  !.user = u],
                 <<>>)
    BY Zenon, <1>4 DEF RevokePAT
  <2>2. FreeCall([Blank EXCEPT !.op = "RevokePAT", !.actor = a, !.id = p,
                               !.user = u])
    BY Zenon, <1>1
  <2> QED BY Zenon, <2>1, <2>2, <1>2, Asked, BegunFreely
<1>5. CASE RevokeWorkspacePAT(r)
  <2>1. PICK a, w, p, u :
          Begins(r, [Blank EXCEPT !.op = "RevokePAT", !.actor = a, !.ws = w,
                                  !.id = p, !.user = u],
                 May("credentials.manage"))
    BY Zenon, <1>5 DEF RevokeWorkspacePAT
  <2>2. FreeCall([Blank EXCEPT !.op = "RevokePAT", !.actor = a, !.ws = w,
                               !.id = p, !.user = u])
    BY Zenon, <1>1
  <2> QED BY <2>1, <2>2, <1>2, Asked, BegunFreely
<1> QED BY <1>3, <1>4, <1>5

LEMMA AddressCalls ==
    ASSUME Calls, NEW r \in Requests,
           \/ SignUp(r) \/ BeginEmailAddition(r)
           \/ ResendEmailVerification(r) \/ ConfirmEmail(r)
           \/ SetPrimaryEmail(r) \/ RemoveEmail(r)
    PROVE  Calls'
<1>1. /\ \A m \in Addresses :
           FreeCall([Blank EXCEPT !.op = "SignUp", !.addr = m])
      /\ \A a : \A m \in Addresses :
           FreeCall([Blank EXCEPT !.op = "BeginEmailAddition", !.actor = a,
                                  !.addr = m])
      /\ \A m \in Addresses :
           FreeCall([Blank EXCEPT !.op = "ResendEmailVerification",
                                  !.addr = m])
      /\ \A x : \A e \in EmailIDs :
           FreeCall([Blank EXCEPT !.op = "ConfirmEmail", !.id = e, !.to = x])
      /\ \A a : \A e \in EmailIDs :
           FreeCall([Blank EXCEPT !.op = "SetPrimaryEmail", !.actor = a,
                                  !.id = e])
      /\ \A a : \A e \in EmailIDs :
           FreeCall([Blank EXCEPT !.op = "RemoveEmail", !.actor = a,
                                  !.id = e])
  BY DEF FreeCall, Aimed, Admitting, Blank, Fields, Watched,
         Recomputing, Updating, Regrouping, Configuring
<1>2. /\ <<>> \in Seq(Ordinary)
      /\ <<"domain policy", "unclaimed">> \in Seq(Ordinary)
      /\ <<"domain policy", "pending address">>
           \in Seq(Reads("ResendEmailVerification"))
      /\ <<"verification">> \in Seq(Ordinary)
  BY DEF Admitting, Ordinary, Elsewhere, Authority, Reads, Searching,
         Finding, Updating, Regrouping
<1>3. CASE SignUp(r)
  BY Zenon, <1>3, <1>1, <1>2, BegunFreely, Asked
     DEF SignUp
<1>4. CASE BeginEmailAddition(r)
  <2>1. PICK a \in Users, m \in Addresses :
          Begins(r, [Blank EXCEPT !.op = "BeginEmailAddition", !.actor = a,
                                  !.addr = m],
                 <<>>)
    BY Zenon, <1>4 DEF BeginEmailAddition, Registered
  <2>2. FreeCall([Blank EXCEPT !.op = "BeginEmailAddition", !.actor = a,
                               !.addr = m])
    BY Zenon, <1>1
  <2> QED BY <2>1, <2>2, <1>2, Asked, BegunFreely
<1>5. CASE ResendEmailVerification(r)
  <2> DEFINE reads == <<"domain policy", "pending address">>
  <2>1. PICK m \in Addresses :
          Begins(r, [Blank EXCEPT !.op = "ResendEmailVerification",
                                  !.addr = m], reads)
    BY Zenon, <1>5 DEF ResendEmailVerification
  <2> DEFINE k == [Blank EXCEPT !.op = "ResendEmailVerification", !.addr = m]
  <2>2. FreeCall(k) /\ k.op = "ResendEmailVerification"
    BY Zenon, <1>1 DEF Blank
  <2>3. reads \in Seq(Reads(k.op))
    BY <1>2, <2>2
  <2> HIDE DEF k, reads
  <2>4. Begins(r, k, reads)
    BY <2>1 DEF k
  <2> QED BY <2>2, <2>3, <2>4, BegunAtWill
<1>6. CASE ConfirmEmail(r)
  BY Zenon, <1>6, <1>1, <1>2, BegunFreely, Asked
     DEF ConfirmEmail
<1>7. CASE SetPrimaryEmail(r)
  BY Zenon, <1>7, <1>1, <1>2, BegunFreely, Asked
     DEF SetPrimaryEmail, OwnAddress
<1>8. CASE RemoveEmail(r)
  BY Zenon, <1>8, <1>1, <1>2, BegunFreely, Asked
     DEF RemoveEmail, OwnAddress
<1> QED BY <1>3, <1>4, <1>5, <1>6, <1>7, <1>8

LEMMA FederationCalls ==
    ASSUME Calls, NEW r \in Requests,
           \/ ConfirmWorkspaceDomain(r) \/ UpdateWorkspaceDomainPolicy(r)
           \/ RemoveWorkspaceDomain(r) \/ UnlinkSSO(r)
    PROVE  Calls'
<1>1. /\ \A a, d :
           FreeCall([Blank EXCEPT !.op = "ConfirmWorkspaceDomain",
                                  !.actor = a, !.id = d])
      /\ \A a, d, x :
           FreeCall([Blank EXCEPT !.op = "UpdateWorkspaceDomainPolicy",
                                  !.actor = a, !.id = d, !.to = x])
      /\ \A a : \A d \in DomainIDs :
           FreeCall([Blank EXCEPT !.op = "RemoveWorkspaceDomain",
                                  !.actor = a, !.id = d])
      /\ \A i, a :
           FreeCall([Blank EXCEPT !.op = "UnlinkSSO", !.id = i, !.actor = a])
  BY DEF FreeCall, Aimed, Admitting, Blank, Fields, Watched,
         Recomputing, Updating, Regrouping, Configuring
<1>2. /\ <<>> \in Seq(Ordinary)
      /\ <<"domain">> \in Seq(Ordinary)
  BY DEF Ordinary, Elsewhere, Authority
<1>3. /\ MayClaim \in Seq(Ordinary)
  BY <1>2, Asked DEF MayClaim
<1>4. CASE ConfirmWorkspaceDomain(r)
  BY Zenon, <1>4, <1>1, <1>2, <1>3, BegunFreely, Asked
     DEF ConfirmWorkspaceDomain
<1>5. CASE UpdateWorkspaceDomainPolicy(r)
  <2>1. PICK a, d, x :
          Begins(r, [Blank EXCEPT !.op = "UpdateWorkspaceDomainPolicy",
                                  !.actor = a, !.id = d, !.to = x],
                 MayClaim)
    BY Zenon, <1>5 DEF UpdateWorkspaceDomainPolicy
  <2>2. FreeCall([Blank EXCEPT !.op = "UpdateWorkspaceDomainPolicy",
                               !.actor = a, !.id = d, !.to = x])
    BY Zenon, <1>1
  <2> QED BY <2>1, <2>2, <1>2, <1>3, Asked, BegunFreely
<1>6. CASE RemoveWorkspaceDomain(r)
  <2>1. PICK a \in Users, d \in DomainIDs :
          Begins(r, [Blank EXCEPT !.op = "RemoveWorkspaceDomain",
                                  !.actor = a, !.id = d],
                 MayClaim)
    BY Zenon, <1>6 DEF RemoveWorkspaceDomain, Registered, Claimed
  <2>2. FreeCall([Blank EXCEPT !.op = "RemoveWorkspaceDomain", !.actor = a,
                               !.id = d])
    BY Zenon, <1>1
  <2> QED BY <2>1, <2>2, <1>2, <1>3, Asked, BegunFreely
<1>7. CASE UnlinkSSO(r)
  BY Zenon, <1>7, <1>1, <1>2, <1>3, BegunFreely, Asked
     DEF UnlinkSSO
<1> QED BY <1>4, <1>5, <1>6, <1>7

\* An operation that names a configuration, and one that completes a
\* ceremony, begins.
NamedCall(k) == /\ DOMAIN k = Fields /\ k.rows = <<>> /\ k.ceremony = None
                /\ k.op \notin Watched /\ k.config \in ConfigIDs
                /\ Aimed(k)

LEMMA BegunConfigured ==
    ASSUME Calls, NEW r \in Requests
    PROVE  \A k, reads : /\ Begins(r, k, reads)
                        /\ NamedCall(k) /\ reads \in Seq(Ordinary) => Calls'
<1> SUFFICES ASSUME NEW k, NEW reads, Begins(r, k, reads), NamedCall(k),
                    reads \in Seq(Ordinary)
             PROVE  Calls'
  OBVIOUS
<1>1. Inputs(k)
  BY DEF NamedCall, Inputs, Watched, Recomputing
<1>2. Opens(k, reads)
  <2>1. reads \in Seq(Reads(k.op))
    BY OrdinarySequences DEF NamedCall
  <2> QED BY <2>1 DEF NamedCall, Opens, Watched, Recomputing, Regrouping
<1> QED BY <1>1, <1>2, Begun DEF NamedCall

LEMMA ConfigurationCalls ==
    ASSUME Calls, ConfigRows, NEW r \in Requests,
           \/ RotateSCIMCredential(r) \/ RevokeSCIMCredential(r)
           \/ DisableSCIMConfiguration(r) \/ AuthenticateSCIM(r)
           \/ ProvisionSCIMUser(r) \/ AdoptSCIMUser(r)
    PROVE  Calls'
<1>1. ASSUME NEW c \in ConfigIDs
      PROVE  /\ \A op \in {"RotateSCIMCredential",
                           "DisableSCIMConfiguration"} : \A a :
                  NamedCall([Blank EXCEPT !.op = op, !.actor = a, !.config = c])
             /\ \A a, k :
                  NamedCall([Blank EXCEPT !.op = "RevokeSCIMCredential",
                           !.actor = a, !.config = c, !.id = k])
             /\ \A k :
                  NamedCall([Blank EXCEPT !.op = "AuthenticateSCIM", !.id = k,
                                      !.config = c])
             /\ \A st : \A a \in Addresses :
                  NamedCall([Blank EXCEPT !.op = "ProvisionSCIMUser",
                           !.config = c, !.addr = a, !.to = st])
             /\ \A a, u, st :
                  NamedCall([Blank EXCEPT !.op = "AdoptSCIMUser", !.actor = a,
                           !.user = u, !.config = c, !.to = st])
  BY DEF NamedCall, Aimed, Admitting, Blank, Fields, Watched, Recomputing,
         Updating, Regrouping
<1>3. /\ <<"configuration">> \in Seq(Ordinary)
      /\ <<"target", "local">> \in Seq(Ordinary)
      /\ <<"credential", "workspace">> \in Seq(Ordinary)
      /\ <<"provisioner">> \in Seq(Ordinary)
  BY DEF Ordinary, Elsewhere, Authority
<1>4. MayProvision \in Seq(Ordinary)
  BY <1>3, Asked DEF MayProvision
<1>5. MayProvision \o <<"target", "local">> \in Seq(Ordinary)
  BY <1>3, <1>4
<1>6. CASE RotateSCIMCredential(r)
  <2>1. PICK a \in Users, c \in ConfigIDs :
          Begins(r, [Blank EXCEPT !.op = "RotateSCIMCredential", !.actor = a,
                                  !.config = c], MayProvision)
    BY Zenon, <1>6 DEF RotateSCIMCredential, Configured, Registered
  <2>2. NamedCall([Blank EXCEPT !.op = "RotateSCIMCredential", !.actor = a,
                            !.config = c])
    BY Zenon, <1>1
  <2> QED BY <2>1, <2>2, BegunConfigured, <1>4
<1>7. CASE RevokeSCIMCredential(r)
  <2>1. PICK a \in Users, k \in CredentialIDs :
          /\ credentials[k].config \in ConfigIDs
          /\ Begins(r, [Blank EXCEPT !.op = "RevokeSCIMCredential",
                          !.actor = a, !.config = credentials[k].config,
                          !.id = k], MayProvision)
    BY Zenon, <1>7 DEF RevokeSCIMCredential, Keys, ConfigRows, Registered
  <2>2. NamedCall([Blank EXCEPT !.op = "RevokeSCIMCredential", !.actor = a,
                 !.config = credentials[k].config, !.id = k])
    BY Zenon, <1>1, <2>1
  <2> QED BY <2>1, <2>2, BegunConfigured, <1>4
<1>8. CASE DisableSCIMConfiguration(r)
  <2>1. PICK a \in Users, c \in ConfigIDs :
          Begins(r, [Blank EXCEPT !.op = "DisableSCIMConfiguration",
                                  !.actor = a, !.config = c], MayProvision)
    BY Zenon, <1>8 DEF DisableSCIMConfiguration, Configured, Registered
  <2>2. NamedCall([Blank EXCEPT !.op = "DisableSCIMConfiguration", !.actor = a,
                            !.config = c])
    BY Zenon, <1>1
  <2> QED BY <2>1, <2>2, BegunConfigured, <1>4
<1>9. CASE AuthenticateSCIM(r)
  <2>1. PICK k \in CredentialIDs :
          /\ credentials[k].config \in ConfigIDs
          /\ Begins(r, [Blank EXCEPT !.op = "AuthenticateSCIM", !.id = k,
                                     !.config = credentials[k].config],
                    <<"credential", "workspace">>)
    BY Zenon, <1>9 DEF AuthenticateSCIM, Keys, ConfigRows, Registered
  <2>2. NamedCall([Blank EXCEPT !.op = "AuthenticateSCIM", !.id = k,
                            !.config = credentials[k].config])
    BY Zenon, <1>1, <2>1
  <2> QED BY Zenon, <2>1, <2>2, BegunConfigured, <1>3
<1>10. CASE ProvisionSCIMUser(r)
  <2>1. PICK c \in ConfigIDs, a \in Addresses, st \in Activity :
          Begins(r, [Blank EXCEPT !.op = "ProvisionSCIMUser", !.config = c,
                                  !.addr = a, !.to = st], <<"provisioner">>)
    BY Zenon, <1>10 DEF ProvisionSCIMUser, ConfigRows
  <2>2. NamedCall([Blank EXCEPT !.op = "ProvisionSCIMUser", !.config = c,
                            !.addr = a, !.to = st])
    BY Zenon, <1>1
  <2> QED BY Zenon, <2>1, <2>2, BegunConfigured, <1>3
<1>11. CASE AdoptSCIMUser(r)
  <2>1. PICK a \in Users, u \in Users, c \in ConfigIDs, st \in Activity :
          Begins(r, [Blank EXCEPT !.op = "AdoptSCIMUser", !.actor = a,
                                  !.user = u, !.config = c, !.to = st],
                 MayProvision \o <<"target", "local">>)
    BY Zenon, <1>11 DEF AdoptSCIMUser, Configured, Registered
  <2>2. NamedCall([Blank EXCEPT !.op = "AdoptSCIMUser", !.actor = a, !.user = u,
                            !.config = c, !.to = st])
    BY Zenon, <1>1
  <2> QED BY Zenon, <2>1, <2>2, BegunConfigured, <1>5
<1> QED BY <1>6, <1>7, <1>8, <1>9, <1>10, <1>11

\* The operations whose inputs the transaction relies on.
LEMMA WatchedCalls ==
    ASSUME Calls, NEW r \in Requests,
           \/ CreatePAT(r) \/ CreateWorkspaceDomain(r)
           \/ CreateSCIMConfiguration(r) \/ FinishSSO(r)
    PROVE  Calls'
<1>1. /\ Reads("CreatePAT") = Authority
      /\ Reads("CreateWorkspaceDomain") = Authority
      /\ Reads("CreateSCIMConfiguration") = Authority
      /\ Reads("FinishSSO") = Ordinary \cup Finding
  BY DEF Reads, Updating, Regrouping, Searching, Admitting
<1>2. CASE CreatePAT(r)
  <2>1. PICK a \in Users, w \in Everywhere :
          Begins(r, [Blank EXCEPT !.op = "CreatePAT", !.actor = a, !.ws = w],
                 Access(w))
    BY Zenon, <1>2 DEF CreatePAT, Registered, Tenants, Everywhere
  <2> DEFINE k == [Blank EXCEPT !.op = "CreatePAT", !.actor = a, !.ws = w]
  <2>2. /\ DOMAIN k = Fields /\ k.op = "CreatePAT" /\ k.rows = <<>>
        /\ k.actor = a /\ k.ws = w /\ k.ceremony = None
        /\ k.addr = None
    BY DEF Blank, Fields
  <2>3. Access(w) \in Seq(Authority)
    BY AuthorityReads DEF Access, Permissions
  <2> HIDE DEF k
  <2>4. Inputs(k) /\ Opens(k, Access(w))
    BY <1>1, <2>2, <2>3 DEF Inputs, Aimed, Admitting, Opens, Regrouping,
                            Configuring, Updating, Recomputing
  <2> QED BY Zenon, <2>1, <2>2, <2>4, Begun DEF k
<1>3. CASE CreateWorkspaceDomain(r)
  <2>1. PICK a \in Users, w \in Workspaces, n \in DomainNames :
          Begins(r, [Blank EXCEPT !.op = "CreateWorkspaceDomain", !.actor = a,
                                  !.ws = w, !.id = n], May("settings.write"))
    BY Zenon, <1>3 DEF CreateWorkspaceDomain, Registered, Tenants
  <2> DEFINE k == [Blank EXCEPT !.op = "CreateWorkspaceDomain", !.actor = a,
                                !.ws = w, !.id = n]
  <2>2. /\ DOMAIN k = Fields /\ k.op = "CreateWorkspaceDomain"
        /\ k.rows = <<>> /\ k.id = n /\ k.ceremony = None
        /\ k.addr = None
    BY DEF Blank, Fields
  <2>3. May("settings.write") \in Seq(Authority)
    BY AuthorityReads DEF Permissions
  <2> HIDE DEF k
  <2>4. Inputs(k) /\ Opens(k, May("settings.write"))
    BY <1>1, <2>2, <2>3 DEF Inputs, Aimed, Admitting, Opens, Regrouping,
                            Configuring, Updating, Recomputing
  <2> QED BY Zenon, <2>1, <2>2, <2>4, Begun DEF k
<1>4. CASE CreateSCIMConfiguration(r)
  <2>1. PICK a \in Users, w \in Workspaces :
          Begins(r, [Blank EXCEPT !.op = "CreateSCIMConfiguration",
                                  !.actor = a, !.ws = w], May("rbac.write"))
    BY Zenon, <1>4 DEF CreateSCIMConfiguration, Registered, Tenants
  <2> DEFINE k == [Blank EXCEPT !.op = "CreateSCIMConfiguration", !.actor = a,
                                !.ws = w]
  <2>2. /\ DOMAIN k = Fields /\ k.op = "CreateSCIMConfiguration"
        /\ k.rows = <<>> /\ k.ws = w /\ k.ceremony = None
        /\ k.addr = None
    BY DEF Blank, Fields
  <2>3. May("rbac.write") \in Seq(Authority)
    BY AuthorityReads DEF Permissions
  <2> HIDE DEF k
  <2>4. Inputs(k) /\ Opens(k, May("rbac.write"))
    BY <1>1, <2>2, <2>3 DEF Inputs, Aimed, Admitting, Opens, Regrouping,
                            Configuring, Updating, Recomputing
  <2> QED BY Zenon, <2>1, <2>2, <2>4, Begun DEF k
<1>5. CASE FinishSSO(r)
  <2>1. PICK c \in Ceremonies, s \in Subjects, a \in Addresses \cup {None} :
          Begins(r, [Blank EXCEPT !.op = "FinishSSO", !.ceremony = c,
                       !.config = begun[c].provider, !.user = begun[c].user,
                       !.subject = s, !.addr = a],
                 IF begun[c].op = "link" THEN <<>> ELSE <<"identity">>)
    BY Zenon, <1>5 DEF FinishSSO
  <2> DEFINE k == [Blank EXCEPT !.op = "FinishSSO", !.ceremony = c,
                     !.config = begun[c].provider, !.user = begun[c].user,
                     !.subject = s, !.addr = a]
             reads == IF begun[c].op = "link" THEN <<>> ELSE <<"identity">>
  <2>2. /\ DOMAIN k = Fields /\ k.op = "FinishSSO" /\ k.rows = <<>>
        /\ k.addr = a
    BY DEF Blank, Fields
  <2>3. reads \in Seq(Ordinary \cup Finding)
    <3>1. /\ <<>> \in Seq(Ordinary \cup Finding)
          /\ <<"identity">> \in Seq(Ordinary \cup Finding)
      BY DEF Finding
    <3> QED BY Zenon, <3>1
  <2> HIDE DEF k, reads
  <2>4. Inputs(k) /\ Opens(k, reads)
    BY <1>1, <2>2, <2>3 DEF Inputs, Aimed, Admitting, Opens, Regrouping,
                            Configuring, Updating, Recomputing
  <2>5. Begins(r, k, reads)
    BY <2>1 DEF k, reads
  <2> QED BY <2>2, <2>4, <2>5, Begun
<1> QED BY <1>2, <1>3, <1>4, <1>5

\* A sign-in begins: the client keeps all there is of it.
LEMMA CeremonyBegins ==
    ASSUME Calls, NEW r \in Requests, beginSSO(r)
    PROVE  Calls'
<1>1. call' = call /\ users' = users
  BY DEF beginSSO, storeVars, accountVars
<1>2. \A m : Running(m) => Running(m)'
  BY <1>1 DEF Running, Inputs, Aimed, Found, Exists
<1> QED BY <1>1, <1>2 DEF Calls

LEMMA EachRead ==
    ASSUME NEW S, NEW step \in S, NEW ls \in SUBSET LinkIDs
    PROVE  Each(step, ls) \in Seq(S)
<1>1. Cardinality(ls) \in Nat
  BY DirectoryIDs
<1> QED BY <1>1 DEF Each

LEMMA UpdatingCalls ==
    ASSUME Calls, ConfigRows, NEW r \in Requests,
           ReplaceSCIMUser(r) \/ DeprovisionSCIMUser(r)
    PROVE  Calls'
<1> DEFINE reads == <<"provisioner", "link", "managed">>
<1>1. \A op \in Updating : reads \in Seq(Reads(op))
  <2>1. reads \in Seq({"provisioner", "link", "managed", "commit"})
    OBVIOUS
  <2>2. \A op \in Updating :
          Reads(op) = {"provisioner", "link", "managed", "commit"}
    BY DEF Reads, Searching, Admitting, Updating, Regrouping
  <2> QED BY <2>1, <2>2
<1> HIDE DEF reads
<1>2. PICK op \in Updating, c \in ConfigIDs, l \in LinkIDs,
           st \in Activity \cup {"deprovisioned"} :
        Begins(r, [Blank EXCEPT !.op = op, !.config = c, !.id = l,
                                !.to = st], reads)
  <2>1. CASE ReplaceSCIMUser(r)
    BY Zenon, <2>1 DEF ReplaceSCIMUser, Updating, Linking, ConfigRows, reads
  <2>2. CASE DeprovisionSCIMUser(r)
    BY Zenon, <2>2 DEF DeprovisionSCIMUser, Updating, Linking, ConfigRows,
                       reads
  <2> QED BY Zenon, <2>1, <2>2
<1> DEFINE k == [Blank EXCEPT !.op = op, !.config = c, !.id = l, !.to = st]
<1>3. /\ DOMAIN k = Fields /\ k.op = op /\ k.rows = <<>> /\ k.config = c
      /\ k.id = l /\ k.ceremony = None /\ k.addr = None
  BY DEF Blank, Fields
<1> HIDE DEF k
<1>4. Inputs(k) /\ Opens(k, reads)
  BY <1>1, <1>2, <1>3 DEF Inputs, Aimed, Admitting, Opens, Regrouping,
                          Recomputing, Updating
<1> QED BY Zenon, <1>2, <1>3, <1>4, Begun DEF k

Regroups == {"provisioner", "group", "member", "commit"} \cup Recomputation

LEMMA UpsertSCIMGroupCall ==
    ASSUME Calls, ConfigRows, NEW r \in Requests, UpsertSCIMGroup(r)
    PROVE  Calls'
<1>1. PICK c \in ConfigIDs, g \in GroupIDs, x \in Externals \cup {None},
           ls \in SUBSET LinkIDs :
        LET row == [st |-> "live", config |-> c, ext |-> x, members |-> ls] IN
        Begins(r, [Blank EXCEPT !.op = "UpsertSCIMGroup", !.config = c,
                     !.id = g, !.to = row,
                     !.row = [row EXCEPT !.members = {}], !.left = ls],
               <<"provisioner">>
               \o (IF ~Exists(groups, g) THEN <<>> ELSE <<"group">>)
               \o Each("member", ls) \o <<"groups">>)
  BY Zenon DEF UpsertSCIMGroup, Linking, ConfigRows
<1> DEFINE row == [st |-> "live", config |-> c, ext |-> x, members |-> ls]
           old == [row EXCEPT !.members = {}]
           k == [Blank EXCEPT !.op = "UpsertSCIMGroup", !.config = c,
                   !.id = g, !.to = row, !.row = old, !.left = ls]
           known == IF ~Exists(groups, g) THEN <<>> ELSE <<"group">>
           reads == <<"provisioner">> \o known \o Each("member", ls)
                    \o <<"groups">>
<1>2. GroupRow(row) /\ GroupRow(old)
  BY DEF GroupRow
<1> HIDE DEF row, old
<1>3. /\ DOMAIN k = Fields /\ k.op = "UpsertSCIMGroup" /\ k.rows = <<>>
      /\ k.config = c /\ k.id = g /\ k.ceremony = None /\ k.to = row
      /\ k.addr = None
      /\ k.row = old
  BY DEF Blank, Fields
<1>4. /\ <<"provisioner">> \in Seq(Regroups) /\ <<"groups">> \in Seq(Regroups)
      /\ <<>> \in Seq(Regroups) /\ <<"group">> \in Seq(Regroups)
  BY DEF Regroups, Recomputation
<1>5. known \in Seq(Regroups) /\ Each("member", ls) \in Seq(Regroups)
  <2>1. "member" \in Regroups
    BY DEF Regroups
  <2> QED BY <1>4, <2>1, EachRead
<1> HIDE DEF known
<1>6. /\ reads \in Seq(Regroups) /\ Len(reads) > 0
      /\ reads[1] = "provisioner"
  BY <1>4, <1>5
<1>7. Reads("UpsertSCIMGroup") = Regroups
  BY DEF Reads, Searching, Admitting, Regrouping, Updating, Regroups
<1>8. Begins(r, k, reads)
  BY <1>1 DEF row, old, known
<1> HIDE DEF k, reads
<1>9. Inputs(k) /\ Opens(k, reads)
  BY <1>2, <1>3, <1>6, <1>7 DEF Inputs, Aimed, Admitting, Opens, Updating,
                                Regrouping
<1> QED BY <1>3, <1>8, <1>9, Begun

LEMMA DeleteSCIMGroupCall ==
    ASSUME Calls, ConfigRows, NEW r \in Requests, DeleteSCIMGroup(r)
    PROVE  Calls'
<1> DEFINE reads == <<"provisioner", "group", "groups">>
<1>1. PICK c \in ConfigIDs, g \in GroupIDs :
        Begins(r, [Blank EXCEPT !.op = "DeleteSCIMGroup", !.config = c,
                                !.id = g], reads)
  BY Zenon DEF DeleteSCIMGroup, ConfigRows
<1> DEFINE k == [Blank EXCEPT !.op = "DeleteSCIMGroup", !.config = c,
                              !.id = g]
<1>2. /\ DOMAIN k = Fields /\ k.op = "DeleteSCIMGroup" /\ k.rows = <<>>
      /\ k.config = c /\ k.id = g /\ k.ceremony = None /\ k.addr = None
  BY DEF Blank, Fields
<1>3. /\ reads \in Seq(Regroups) /\ Len(reads) > 0
      /\ reads[1] = "provisioner"
  BY DEF Regroups, Recomputation
<1>4. reads \o <<"commit">> \in Unread
  <2> DEFINE s == reads \o <<"commit">>
  <2>1. /\ s \in Seq(Regroups) /\ Len(s) = 4 /\ s[1] = "provisioner"
        /\ s[2] = "group" /\ s[3] = "groups" /\ s[4] = "commit"
    BY DEF Regroups, Recomputation
  <2> HIDE DEF s
  <2>2. s = <<s[1], s[2], s[3], s[4]>>
    BY <2>1
  <2> QED BY <2>1, <2>2 DEF Unread, s
<1>5. Reads("DeleteSCIMGroup") = Regroups
  BY DEF Reads, Searching, Admitting, Regrouping, Updating, Regroups
<1> HIDE DEF k, reads
<1>6. Inputs(k) /\ Opens(k, reads)
  BY <1>2, <1>3, <1>4, <1>5 DEF Inputs, Aimed, Admitting, Opens, Updating,
                                Regrouping
<1> QED BY Zenon, <1>1, <1>2, <1>6, Begun DEF k

LEMMA UpdateSCIMConfigurationCall ==
    ASSUME Calls, NEW r \in Requests, UpdateSCIMConfiguration(r)
    PROVE  Calls'
<1> DEFINE reads == MayProvision \o <<"groups", "links">>
           S == Authority \cup {"configuration"} \cup Recomputation
<1>1. PICK a \in Users, c \in ConfigIDs, policy \in RolePolicies :
        Begins(r, [Blank EXCEPT !.op = "UpdateSCIMConfiguration", !.actor = a,
                     !.config = c, !.to = policy], reads)
  BY Zenon DEF UpdateSCIMConfiguration, Registered, Configured
<1> DEFINE k == [Blank EXCEPT !.op = "UpdateSCIMConfiguration", !.actor = a,
                   !.config = c, !.to = policy]
<1>2. /\ DOMAIN k = Fields /\ k.op = "UpdateSCIMConfiguration"
      /\ k.rows = <<>> /\ k.config = c /\ k.ceremony = None /\ k.addr = None
  BY DEF Blank, Fields
<1>3. /\ <<"configuration">> \in Seq(S) /\ <<"groups", "links">> \in Seq(S)
      /\ <<"user", "workspace", "rbac.write">> \in Seq(S)
  BY DEF Authority, Permissions, Recomputation
<1> HIDE DEF S
<1>4. reads \in Seq(S) /\ Len(reads) > 0 /\ reads[1] = "configuration"
  BY <1>3 DEF MayProvision, May
<1>5. Reads("UpdateSCIMConfiguration") = S
  BY DEF Reads, Searching, Admitting, Regrouping, Updating, S
<1> HIDE DEF k, reads
<1>6. Inputs(k) /\ Opens(k, reads)
  BY <1>2, <1>4, <1>5 DEF Inputs, Aimed, Admitting, Opens, Updating, Regrouping
<1> QED BY Zenon, <1>1, <1>2, <1>6, Begun DEF k

-----------------------------------------------------------------------------
(* The reads.                                                              *)

\* A read of an operation with nothing to watch: the call goes on as k.
Kept(k, m) == /\ DOMAIN k = Fields /\ k.op = m.op /\ k.rows = m.rows
              /\ k.ceremony = m.ceremony /\ k.config = m.config
              /\ k.todo \in Ready(Reads(m.op)) /\ Head(k.todo) # "commit"
              /\ k.id = m.id \/ m.op \in Searching
              /\ k.addr = m.addr \/ m.op \in Admitting

LEMMA GoesOnFreely ==
    ASSUME Calls, NEW r \in Requests,
           Head(call[r].todo) \in
             Anywhere \ {"provisioner", "configuration"}
    PROVE  /\ DOMAIN call[r] = Fields /\ Kept(call[r], call[r])
           /\ call[r].op \notin Watched
           /\ \A k : Continues(r, k) /\ Kept(k, call[r]) => Calls'
<1>1. call[r].op \notin Watched /\ Running(call[r]) /\ ~At(r, "commit")
  BY Unwatched
<1>3. DOMAIN call[r] = Fields /\ Kept(call[r], call[r])
  BY <1>1 DEF Kept, Running, At
<1>4. ASSUME NEW k, Continues(r, k), Kept(k, call[r]) PROVE Calls'
  <2>1. Inputs(k)
    BY Zenon, <1>1, <1>4 DEF Kept, Running, Inputs, Aimed, Admitting,
                      Searching, Watched, Recomputing
  <2>2. Settled(k)
    BY Zenon, <1>1, <1>4 DEF Kept, Running, Found, Settled, Watched,
                      Recomputing, Regrouping
  <2> QED BY <1>4, <2>1, <2>2, GoesOn DEF Kept
<1> QED BY <1>1, <1>3, <1>4

\* Only the two searching operations find, and only the two admitting ones
\* read an invitation.
LEMMA WhoFinds ==
    ASSUME Calls, NEW r \in Requests
    PROVE  /\ Head(call[r].todo) \in Finding => call[r].op \in Searching
           /\ At(r, "invitation") => call[r].op \in Admitting
<1>1. CASE Head(call[r].todo) \in Finding \cup {"invitation"}
  <2>1. /\ call[r].op \notin Watched
        /\ Head(call[r].todo) \in Reads(call[r].op)
    BY <1>1, Unwatched, Reading DEF Anywhere, Finding
  <2>2. /\ "invitation" \notin Ordinary \cup Finding
        /\ \A x \in Finding : x \notin Ordinary /\ x # "invitation"
    BY DEF Ordinary, Authority, Permissions, AdminPermissions, Elsewhere,
           Finding
  <2> QED BY <2>1, <2>2, OrdinaryReads DEF At
<1> QED BY <1>1 DEF At

\* Sequences a read puts in the place of what was left to do.
LEMMA Replaced ==
    /\ <<"invitee", "pending", "commit">> \in Ready(Ordinary)
    /\ <<"identity", "user", "commit">> \in Ready(Ordinary \cup Finding)
    /\ <<"identity", "joinable", "workspace", "unclaimed", "commit">>
         \in Ready(Ordinary \cup Finding)
    /\ \A w : /\ <<"token", "user">> \o Access(w) \o <<"commit">>
                   \in Ready(Ordinary)
              /\ Head(<<"token", "user">> \o Access(w) \o <<"commit">>)
                   = "token"
<1>1. <<"invitee", "pending", "commit">> \in Ready(Ordinary)
  BY DEF Ready, Ordinary, Elsewhere, Authority
<1>2. <<"identity", "user", "commit">> \in Ready(Ordinary \cup Finding)
  BY DEF Ready, Ordinary, Elsewhere, Authority, Finding
<1>3. <<"identity", "joinable", "workspace", "unclaimed", "commit">>
         \in Ready(Ordinary \cup Finding)
  BY DEF Ready, Ordinary, Elsewhere, Authority, Finding
<1>4. ASSUME NEW w
      PROVE  /\ <<"token", "user">> \o Access(w) \o <<"commit">>
                  \in Ready(Ordinary)
             /\ Head(<<"token", "user">> \o Access(w) \o <<"commit">>)
                  = "token"
  <2>1. <<>> \in Seq(Ordinary) /\ <<"token", "user">> \in Seq(Ordinary)
        /\ "commit" \in Ordinary
    BY DEF Ordinary, Elsewhere, Authority
  <2>2. Access(w) \in Seq(Ordinary)
    BY <2>1, Asked DEF Access
  <2> DEFINE t == <<"token", "user">> \o Access(w)
  <2>3. t \in Seq(Ordinary) /\ Len(t) > 0 /\ t[1] = "token"
    BY <2>1, <2>2
  <2> HIDE DEF t
  <2>4. t \o <<"commit">> \in Ready(Ordinary)
    BY <2>1, <2>3, ThenCommit
  <2>5. Head(t \o <<"commit">>) = "token"
    BY <2>3
  <2> QED BY <2>4, <2>5 DEF t
<1> QED BY <1>1, <1>2, <1>3, <1>4

LEMMA KeptUpdates ==
    ASSUME NEW m, Kept(m, m)
    PROVE  /\ \A x : Kept([m EXCEPT !.role = x], m)
           /\ \A x : Kept([m EXCEPT !.ws = x], m)
           /\ \A x, y : Kept([m EXCEPT !.row = x, !.ws = y], m)
           /\ m.op \in Searching =>
                /\ \A x : Kept([m EXCEPT !.id = x], m)
                /\ \A x, y, z :
                     Kept([m EXCEPT !.id = x, !.ws = y, !.role = z], m)
           /\ m.op \in Admitting =>
                \A x, y : Kept([m EXCEPT !.ws = x, !.addr = y], m)
           /\ \A t \in Ready(Reads(m.op)) : Head(t) # "commit" =>
                /\ Kept([m EXCEPT !.todo = t], m)
                /\ \A x : Kept([m EXCEPT !.user = x, !.todo = t], m)
                /\ m.op \in Searching =>
                     \A x, y : Kept([m EXCEPT !.id = x, !.actor = y,
                                              !.todo = t], m)
                /\ \A x, y, z : Kept([m EXCEPT !.row = x, !.actor = y,
                                               !.ws = z, !.todo = t], m)
<1>1. /\ DOMAIN m = Fields /\ m.todo \in Ready(Reads(m.op))
      /\ Head(m.todo) # "commit"
  BY DEF Kept
<1>2. /\ \A x : Kept([m EXCEPT !.role = x], m)
      /\ \A x : Kept([m EXCEPT !.ws = x], m)
      /\ \A x, y : Kept([m EXCEPT !.row = x, !.ws = y], m)
  BY <1>1 DEF Kept, Fields
<1>3. ASSUME m.op \in Searching
      PROVE  /\ \A x : Kept([m EXCEPT !.id = x], m)
             /\ \A x, y, z : Kept([m EXCEPT !.id = x, !.ws = y,
                                             !.role = z], m)
  BY <1>1, <1>3 DEF Kept, Fields
<1>5. ASSUME m.op \in Admitting
      PROVE  \A x, y : Kept([m EXCEPT !.ws = x, !.addr = y], m)
  BY <1>1, <1>5 DEF Kept, Fields
<1>4. ASSUME NEW t \in Ready(Reads(m.op)), Head(t) # "commit"
      PROVE  /\ Kept([m EXCEPT !.todo = t], m)
             /\ \A x : Kept([m EXCEPT !.user = x, !.todo = t], m)
             /\ m.op \in Searching =>
                  \A x, y : Kept([m EXCEPT !.id = x, !.actor = y,
                                           !.todo = t], m)
             /\ \A x, y, z : Kept([m EXCEPT !.row = x, !.actor = y,
                                            !.ws = z, !.todo = t], m)
  BY <1>1, <1>4 DEF Kept, Fields
<1> QED BY Zenon, <1>2, <1>3, <1>4, <1>5

LEMMA GovernanceReads ==
    ASSUME Calls, NEW r \in Requests,
           \/ ReadsRole(r) \/ ReadsInvitee(r) \/ ReadsPending(r)
           \/ ReadsInvitation(r) \/ ReadsOwned(r) \/ ReadsToken(r)
    PROVE  Calls'
<1> DEFINE m == call[r]
<1>1. Head(m.todo) \in Anywhere \ {"provisioner", "configuration"}
  BY DEF ReadsRole, ReadsInvitee, ReadsPending, ReadsInvitation, ReadsOwned,
         ReadsToken, At, Anywhere, Elsewhere, Finding
<1>2. Kept(m, m) /\ \A k : Continues(r, k) /\ Kept(k, m) => Calls'
  BY <1>1, GoesOnFreely
<1>0. \A s \in Ready(Ordinary) : s \in Ready(Reads(m.op))
  BY <1>1, GoesOnFreely, OrdinarySequences
<1>3. CASE ReadsRole(r)
  <2>1. PICK x : Continues(r, [m EXCEPT !.role = x])
    BY Zenon, <1>3 DEF ReadsRole
  <2> HIDE DEF m
  <2> QED BY Zenon, <1>2, <2>1, KeptUpdates
<1>4. CASE ReadsInvitee(r)
  <2>1. PICK x, t : /\ Continues(r, [m EXCEPT !.user = x, !.todo = t])
                    /\ t \in {m.todo, <<"invitee", "pending", "commit">>}
    BY Zenon, <1>4 DEF ReadsInvitee
  <2> HIDE DEF m
  <2>2. t \in Ready(Reads(m.op)) /\ Head(t) # "commit"
    BY <1>0, <1>2, <2>1, Replaced DEF Kept
  <2> QED BY Zenon, <1>2, <2>1, <2>2, KeptUpdates
<1>5. CASE ReadsPending(r) \/ ReadsOwned(r)
  BY <1>2, <1>5 DEF ReadsPending, ReadsOwned, Passes
<1>6. CASE ReadsInvitation(r)
  <2>1. PICK x, y : Continues(r, [m EXCEPT !.ws = x, !.addr = y])
    BY Zenon, <1>6 DEF ReadsInvitation
  <2>2. m.op \in Admitting
    BY <1>6, WhoFinds DEF ReadsInvitation
  <2> HIDE DEF m
  <2> QED BY Zenon, <1>2, <2>1, <2>2, KeptUpdates
<1>7. CASE ReadsToken(r)
  <2>1. PICK x, y, z :
          Continues(r, [m EXCEPT !.row = x, !.actor = y, !.ws = z,
                          !.todo = <<"token", "user">> \o Access(z)
                                   \o <<"commit">>])
    BY Zenon, <1>7 DEF ReadsToken
  <2> DEFINE t == <<"token", "user">> \o Access(z) \o <<"commit">>
  <2>2. t \in Ready(Reads(m.op)) /\ Head(t) # "commit"
    BY <1>0, Replaced
  <2> HIDE DEF m, t
  <2>3. Kept([m EXCEPT !.row = x, !.actor = y, !.ws = z, !.todo = t], m)
    BY Zenon, <1>2, <2>2, KeptUpdates
  <2> QED BY <1>2, <2>1, <2>3 DEF t
<1> QED BY <1>3, <1>4, <1>5, <1>6, <1>7

LEMMA DirectoryReads ==
    ASSUME Calls, NEW r \in Requests,
           \/ ReadsPendingAddress(r) \/ ReadsVerification(r) \/ ReadsDomain(r)
           \/ ReadsIdentity(r) \/ ReadsJoinable(r) \/ ReadsCredential(r)
    PROVE  Calls'
<1> DEFINE m == call[r]
<1>1. Head(m.todo) \in Anywhere \ {"provisioner", "configuration"}
  BY Zenon DEF ReadsPendingAddress, ReadsVerification, ReadsDomain,
         ReadsIdentity, ReadsJoinable, ReadsCredential, At, Anywhere,
         Elsewhere, Finding
<1>2. Kept(m, m) /\ \A k : Continues(r, k) /\ Kept(k, m) => Calls'
  BY <1>1, GoesOnFreely
<1>0. \A s \in Ready(Ordinary) : s \in Ready(Reads(m.op))
  BY <1>1, GoesOnFreely, OrdinarySequences
<1>9. Head(m.todo) \in Finding =>
        m.op \in Searching /\ Reads(m.op) = Ordinary \cup Finding
  BY <1>1, WhoFinds, GoesOnFreely, OrdinaryReads DEF Searching, Admitting
<1>3. CASE ReadsPendingAddress(r)
  <2>1. PICK x : Continues(r, [m EXCEPT !.id = x])
    BY <1>3 DEF ReadsPendingAddress
  <2>2. m.op \in Searching
    BY <1>3, <1>9 DEF ReadsPendingAddress, At, Finding
  <2> HIDE DEF m
  <2> QED BY Zenon, <1>2, <2>1, <2>2, KeptUpdates
<1>4. CASE ReadsVerification(r)
  BY <1>2, <1>4 DEF ReadsVerification, Passes
<1>5. CASE ReadsDomain(r)
  <2>1. PICK x, y : Continues(r, [m EXCEPT !.row = x, !.ws = y])
    BY Zenon, <1>5 DEF ReadsDomain
  <2> HIDE DEF m
  <2> QED BY Zenon, <1>2, <2>1, KeptUpdates
<1>6. CASE ReadsIdentity(r)
  <2>1. \/ \E x, y : Continues(r, [m EXCEPT !.id = x, !.actor = y,
                                 !.todo = <<"identity", "user", "commit">>])
        \/ Continues(r, [m EXCEPT !.todo = <<"identity", "joinable",
                           "workspace", "unclaimed", "commit">>])
    BY Zenon, <1>6 DEF ReadsIdentity
  <2>4. m.op \in Searching /\ Reads(m.op) = Ordinary \cup Finding
    BY Zenon, <1>6, <1>9 DEF ReadsIdentity, At, Finding
  <2> HIDE DEF m
  <2>2. CASE \E x, y : Continues(r, [m EXCEPT !.id = x, !.actor = y,
                                 !.todo = <<"identity", "user", "commit">>])
    <3> DEFINE t == <<"identity", "user", "commit">>
    <3>1. PICK x, y : Continues(r, [m EXCEPT !.id = x, !.actor = y,
                                             !.todo = t])
      BY Zenon, <2>2
    <3>2. t \in Ready(Reads(m.op)) /\ Head(t) # "commit"
      BY <2>4, Replaced
    <3> HIDE DEF t
    <3>3. Kept([m EXCEPT !.id = x, !.actor = y, !.todo = t], m)
      BY Zenon, <1>2, <2>4, <3>2, KeptUpdates
    <3> QED BY <1>2, <3>1, <3>3
  <2>3. CASE Continues(r, [m EXCEPT !.todo = <<"identity", "joinable",
                           "workspace", "unclaimed", "commit">>])
    <3> DEFINE t == <<"identity", "joinable", "workspace", "unclaimed",
                      "commit">>
    <3>1. t \in Ready(Reads(m.op)) /\ Head(t) # "commit"
      BY <2>4, Replaced
    <3>2. Continues(r, [m EXCEPT !.todo = t])
      BY <2>3
    <3> HIDE DEF t
    <3>3. Kept([m EXCEPT !.todo = t], m)
      BY Zenon, <1>2, <3>1, KeptUpdates
    <3> QED BY <1>2, <3>2, <3>3
  <2> QED BY Zenon, <2>1, <2>2, <2>3
<1>7. CASE ReadsJoinable(r)
  <2>1. PICK x, y, z : Continues(r, [m EXCEPT !.id = x, !.ws = y,
                                              !.role = z])
    BY Zenon, <1>7 DEF ReadsJoinable
  <2>2. m.op \in Searching
    BY Zenon, <1>7, <1>9 DEF ReadsJoinable, At, Finding
  <2> HIDE DEF m
  <2> QED BY Zenon, <1>2, <2>1, <2>2, KeptUpdates
<1>8. CASE ReadsCredential(r)
  <2>1. PICK x : Continues(r, [m EXCEPT !.ws = x])
    BY <1>8 DEF ReadsCredential
  <2> HIDE DEF m
  <2> QED BY Zenon, <1>2, <2>1, KeptUpdates
<1> QED BY <1>3, <1>4, <1>5, <1>6, <1>7, <1>8

\* A call that recomputes roles, at the reads it makes.
LEMMA ReadsOfRecomputing ==
    ASSUME Calls, NEW r \in Requests
    PROVE  /\ At(r, "group") => call[r].op \in Regrouping
           /\ At(r, "link") \/ At(r, "managed") => call[r].op \in Updating
           /\ At(r, "groups") \/ At(r, "links") \/ At(r, "affected")
                => call[r].op \in Recomputing
           /\ At(r, "provisioner") =>
                call[r].op \notin {"CreatePAT", "CreateWorkspaceDomain",
                           "CreateSCIMConfiguration", "UpdateSCIMConfiguration"}
           /\ At(r, "configuration") =>
                call[r].op \notin {"CreatePAT", "CreateWorkspaceDomain",
                                   "CreateSCIMConfiguration"}
                                  \cup Updating \cup Regrouping
<1> SUFFICES ASSUME Head(call[r].todo) \in {"group", "link", "managed",
                      "groups", "links", "affected", "provisioner",
                      "configuration"}
             PROVE  /\ At(r, "group") => call[r].op \in Regrouping
                    /\ At(r, "link") \/ At(r, "managed") =>
                         call[r].op \in Updating
                    /\ At(r, "groups") \/ At(r, "links") \/ At(r, "affected")
                         => call[r].op \in Recomputing
                    /\ At(r, "provisioner") =>
                         call[r].op \notin {"CreatePAT",
                           "CreateWorkspaceDomain",
                           "CreateSCIMConfiguration", "UpdateSCIMConfiguration"}
                    /\ At(r, "configuration") =>
                         call[r].op \notin {"CreatePAT",
                           "CreateWorkspaceDomain", "CreateSCIMConfiguration"}
                           \cup Updating \cup Regrouping
  BY DEF At
<1>1. Head(call[r].todo) \in Reads(call[r].op)
  BY Reading DEF At
<1> DEFINE op == call[r].op
           s == Head(call[r].todo)
<1> HIDE DEF op, s
<1>2. /\ s = "group" => op \in Regrouping
      /\ s \in {"link", "managed"} => op \in Updating
      /\ s \in {"groups", "links", "affected"} => op \in Recomputing
      /\ s = "provisioner" =>
           op \notin {"CreatePAT", "CreateWorkspaceDomain",
                      "CreateSCIMConfiguration", "UpdateSCIMConfiguration"}
      /\ s = "configuration" =>
           op \notin {"CreatePAT", "CreateWorkspaceDomain",
                      "CreateSCIMConfiguration"} \cup Updating \cup Regrouping
  <2>1. s \in Reads(op)
    BY <1>1 DEF op, s
  <2>2. \A o \in {"CreatePAT", "CreateWorkspaceDomain",
                  "CreateSCIMConfiguration"} : Reads(o) = Authority
    BY DEF Reads, Searching, Admitting, Updating, Regrouping
  <2>3. \A o \in Updating :
          Reads(o) = {"provisioner", "link", "managed", "commit"}
    BY DEF Reads, Searching, Admitting, Updating, Regrouping
  <2>4. \A o \in Regrouping : Reads(o) = Regroups
    BY DEF Reads, Searching, Admitting, Updating, Regrouping, Regroups
  <2>5. Reads("UpdateSCIMConfiguration") =
          Authority \cup {"configuration"} \cup Recomputation
    BY DEF Reads, Searching, Admitting, Updating, Regrouping
  <2>6. op \notin Watched =>
          Reads(op) \subseteq Ordinary \cup Finding \cup {"invitation"}
    BY OrdinaryReads
  <2>7. \A x \in {"group", "link", "managed", "groups", "links", "affected",
                  "provisioner", "configuration"} : x \notin Authority
    BY DEF Authority, Permissions, AdminPermissions
  <2>8. \A x \in {"group", "link", "managed", "groups", "links", "affected"} :
          x \notin Elsewhere \cup Finding \cup {"invitation"}
    BY DEF Elsewhere, Finding
  <2> QED BY <2>1, <2>2, <2>3, <2>4, <2>5, <2>6, <2>7, <2>8
             DEF Watched, Recomputing, Regroups, Recomputation, Ordinary
<1> QED BY <1>2 DEF At, op, s

LEMMA ConfigurationFound ==
    ASSUME ConfigRows, NEW c \in ConfigIDs, Exists(configs, c)
    PROVE  ConfigRow(configs[c]) /\ configs[c].ws \in Workspaces
BY DEF ConfigRows, ConfigRow

\* The call knows its configuration.
LEMMA ReadsConfigurationGoesOn ==
    ASSUME Calls, ConfigRows, NEW r \in Requests,
           ReadsConfiguration(r) \/ ReadsProvisioner(r)
    PROVE  Calls'
<1> DEFINE m == call[r]
           row == configs[m.config]
           k == [m EXCEPT !.cfg = row, !.ws = row.ws]
<1>1. At(r, "configuration") \/ At(r, "provisioner")
  BY DEF ReadsConfiguration, ReadsProvisioner
<1>2. Running(m) /\ DOMAIN m = Fields /\ Head(m.todo) # "commit"
  BY <1>1, Reading DEF At
<1>3. Exists(configs, m.config) /\ Continues(r, k)
  BY DEF ReadsConfiguration, ReadsProvisioner, Exists, Absent
<1>4. /\ DOMAIN k = Fields /\ k.op = m.op /\ k.todo = m.todo
      /\ k.rows = m.rows /\ k.ceremony = m.ceremony /\ k.config = m.config
      /\ k.actor = m.actor /\ k.id = m.id /\ k.to = m.to /\ k.row = m.row
      /\ k.cfg = row /\ k.ws = row.ws /\ k.addr = m.addr
  BY <1>2 DEF Fields
<1>5. m.op \in Recomputing => ConfigRow(row) /\ row.ws \in Workspaces
  BY <1>2, <1>3, ConfigurationFound DEF Running, Inputs, Configuring
<1>6. m.op \notin {"CreatePAT", "CreateWorkspaceDomain",
                   "CreateSCIMConfiguration"}
  BY <1>1, ReadsOfRecomputing
<1>7. m.todo \in Unread => Tail(m.todo) \in Unread \/ Head(m.todo) = "group"
  <2>1. Tail(<<"provisioner", "group", "groups", "commit">>)
          = <<"group", "groups", "commit">>
    OBVIOUS
  <2>2. Head(<<"group", "groups", "commit">>) = "group"
    OBVIOUS
  <2> QED BY Zenon, <2>1, <2>2 DEF Unread
<1> HIDE DEF k, m, row
<1>8. Inputs(k)
  BY <1>2, <1>4, <1>6 DEF Running, Inputs, Aimed
<1>9. Head(m.todo) # "group"
  BY <1>1 DEF At, m
<1>10. Settled(k)
  BY Zenon, <1>2, <1>4, <1>5, <1>7, <1>9 DEF Running, Found, Settled,
                                      Recomputing, Regrouping
<1> QED BY <1>2, <1>3, <1>4, <1>8, <1>10, GoesOn DEF Running

LEMMA LinkReads ==
    ASSUME Calls, NEW r \in Requests,
           ReadsLink(r) \/ ReadsManaged(r) \/ ReadsMember(r)
    PROVE  Calls'
<1> DEFINE m == call[r]
<1>1. PICK k : /\ Continues(r, k)
               /\ \/ \E x : k = [m EXCEPT !.user = x]
                  \/ \E x : k = [m EXCEPT !.row = x] /\ ~At(r, "member")
                  \/ \E x : k = [m EXCEPT !.left = x]
  <2>1. CASE ReadsLink(r)
    BY <2>1 DEF ReadsLink
  <2>2. CASE ReadsManaged(r)
    BY <2>2 DEF ReadsManaged, Remembers, At
  <2>3. CASE ReadsMember(r)
    BY <2>3 DEF ReadsMember
  <2> QED BY <2>1, <2>2, <2>3
<1>2. Head(m.todo) \in {"link", "managed", "member"}
  BY DEF ReadsLink, ReadsManaged, ReadsMember, At
<1>3. DOMAIN m = Fields
  BY <1>2, Reading DEF At
<1>4. /\ DOMAIN k = Fields /\ k.op = m.op /\ k.todo = m.todo
      /\ k.rows = m.rows /\ k.ceremony = m.ceremony /\ k.config = m.config
      /\ k.ws = m.ws /\ k.cfg = m.cfg /\ k.actor = m.actor /\ k.id = m.id
      /\ k.to = m.to /\ (k.row = m.row \/ ~At(r, "member"))
      /\ k.addr = m.addr
  BY <1>1, <1>3 DEF Fields
<1>5. ~At(r, "member") => m.op \notin Regrouping
  BY Zenon, <1>2, ReadsOfRecomputing DEF At, Updating, Regrouping
<1> HIDE DEF m
<1>6. /\ ~At(r, "idle") /\ ~At(r, "commit") /\ ~At(r, "provisioner")
      /\ ~At(r, "configuration") /\ ~At(r, "group")
  BY <1>2 DEF At, m
<1>7. k.op \in Regrouping => k.row = call[r].row
  BY Zenon, <1>4, <1>5 DEF m
<1> QED BY <1>1, <1>4, <1>6, <1>7, Proceeds DEF m

LEMMA GroupRead ==
    ASSUME Calls, GroupRows, NEW r \in Requests, ReadsGroup(r)
    PROVE  Calls'
<1>1. At(r, "group") /\ Remembers(r, groups[call[r].id])
  BY DEF ReadsGroup
<1>2. call[r].op \in Regrouping /\ Running(call[r])
  BY <1>1, Reading, ReadsOfRecomputing DEF At
<1>3. call[r].id \in GroupIDs /\ Exists(groups, call[r].id)
  BY <1>2 DEF ReadsGroup, Running, Inputs, Exists, Absent
<1>4. GroupRow(groups[call[r].id])
  BY <1>3 DEF GroupRows
<1> QED BY <1>1, <1>4, RemembersRow DEF At

\* What is left of a call once it knows the links it affects.
LEMMA KnownThenAffected ==
    ASSUME NEW op \in Recomputing, NEW ls \in SUBSET LinkIDs
    PROVE  LET t == <<"known">> \o Each("affected", ls) \o <<"commit">> IN
           t \in Ready(Reads(op)) /\ Head(t) = "known"
<1> DEFINE S == Reads(op)
           t == <<"known">> \o Each("affected", ls)
<1>1. "known" \in S /\ "affected" \in S /\ "commit" \in S
  BY DEF Recomputing, Regrouping, Reads, Searching, Admitting, Updating,
         Recomputation, Authority
<1> HIDE DEF S
<1>2. Each("affected", ls) \in Seq(S) /\ <<"known">> \in Seq(S)
  BY <1>1, EachRead
<1>3. t \in Seq(S) /\ Len(t) > 0 /\ t[1] = "known"
  BY <1>2
<1> HIDE DEF t
<1>4. t \o <<"commit">> \in Ready(S)
  BY <1>1, <1>3, ThenCommit
<1>5. Head(t \o <<"commit">>) = "known"
  BY <1>3
<1> QED BY <1>4, <1>5 DEF t, S

SeenMore(n, m) ==
    /\ DOMAIN n = Fields /\ n.op = m.op /\ n.rows = m.rows
    /\ n.ceremony = m.ceremony /\ n.config = m.config /\ n.ws = m.ws
    /\ n.cfg = m.cfg /\ n.actor = m.actor /\ n.id = m.id /\ n.to = m.to
    /\ n.row = m.row /\ n.todo = m.todo /\ n.addr = m.addr

LEMMA RecomputesGoesOn ==
    ASSUME Calls, NEW r \in Requests, NEW ls \in SUBSET LinkIDs, NEW n,
           At(r, "groups") \/ At(r, "links"), SeenMore(n, call[r]),
           Continues(r, Recomputes(n, ls))
    PROVE  Calls'
<1> DEFINE m == call[r]
           t == <<"known">> \o Each("affected", ls) \o <<"commit">>
           k == [n EXCEPT !.left = ls, !.todo = t]
<1>1. Running(m) /\ DOMAIN m = Fields /\ m.op \in Recomputing
  BY Reading, ReadsOfRecomputing DEF At
<1>2. t \in Ready(Reads(m.op)) /\ Head(t) = "known"
  BY <1>1, KnownThenAffected
<1>3. Continues(r, k)
  BY DEF Recomputes
<1> HIDE DEF t
<1>4. /\ DOMAIN k = Fields /\ k.op = m.op /\ k.todo = t
      /\ k.rows = m.rows /\ k.ceremony = m.ceremony /\ k.config = m.config
      /\ k.ws = m.ws /\ k.cfg = m.cfg /\ k.actor = m.actor /\ k.id = m.id
      /\ k.to = m.to /\ k.row = m.row /\ k.addr = m.addr
  BY DEF Fields, SeenMore
<1>5. /\ m.todo \notin Unread
      /\ Head(m.todo) # "provisioner" /\ Head(m.todo) # "configuration"
  BY DEF Unread, At
<1> HIDE DEF m, k
<1>6. Inputs(k)
  BY Zenon, <1>1, <1>4 DEF Running, Inputs, Aimed
<1>7. Settled(k)
  BY <1>1, <1>4, <1>5 DEF Running, Found, Settled, Regrouping
<1> QED BY <1>2, <1>3, <1>4, <1>6, <1>7, GoesOn

LEMMA GroupsRead ==
    ASSUME Calls, NEW r \in Requests, ReadsGroups(r) \/ ReadsLinks(r)
    PROVE  Calls'
<1> DEFINE m == call[r]
<1>1. At(r, "groups") \/ At(r, "links")
  BY DEF ReadsGroups, ReadsLinks
<1>2. Running(m) /\ DOMAIN m = Fields /\ m.op \in Recomputing
  BY <1>1, Reading, ReadsOfRecomputing DEF At
<1>3. \A x : SeenMore([m EXCEPT !.seen = x], m)
  BY <1>2 DEF SeenMore, Fields
<1>4. CASE ReadsLinks(r)
  <2>1. PICK ls \in SUBSET LinkIDs : Continues(r, Recomputes(m, ls))
    BY <1>4 DEF ReadsLinks, Linking
  <2>2. SeenMore(m, m)
    BY <1>2 DEF SeenMore
  <2> QED BY <1>1, <2>1, <2>2, RecomputesGoesOn
<1>5. CASE ReadsGroups(r) /\ m.op = "UpdateSCIMConfiguration"
  <2>1. PICK x : Continues(r, [m EXCEPT !.seen = x])
    BY <1>5 DEF ReadsGroups
  <2>2. SeenMore([m EXCEPT !.seen = x], m)
    BY <1>3
  <2>3. /\ ~At(r, "idle") /\ ~At(r, "commit") /\ ~At(r, "provisioner")
        /\ ~At(r, "configuration") /\ ~At(r, "group")
    BY <1>1 DEF At
  <2> DEFINE k == [m EXCEPT !.seen = x]
  <2> HIDE DEF k
  <2>4. Continues(r, k) /\ SeenMore(k, call[r])
    BY <2>1, <2>2 DEF k
  <2> QED BY Zenon, <2>3, <2>4, Proceeds DEF SeenMore
<1>6. CASE ReadsGroups(r) /\ m.op \in Regrouping
  <2>1. /\ m.todo \notin Unread
    BY <1>1 DEF Unread, At
  <2>2. GroupRow(m.row) /\ (m.op = "UpsertSCIMGroup" => GroupRow(m.to))
    BY <1>2, <1>6, <2>1 DEF Running, Found, Regrouping
  <2>3. Affected(m) \in SUBSET LinkIDs
    BY <1>6, <2>2 DEF Affected, GroupRow, Regrouping
  <2>4. PICK x : Continues(r, Recomputes([m EXCEPT !.seen = x], Affected(m)))
    <3>1. CASE m.op = "UpsertSCIMGroup"
      BY Zenon, <1>6, <3>1 DEF ReadsGroups
    <3>2. CASE m.op = "DeleteSCIMGroup"
      BY Zenon, <1>6, <3>2 DEF ReadsGroups
    <3> QED BY Zenon, <1>6, <3>1, <3>2 DEF Regrouping
  <2>5. SeenMore([m EXCEPT !.seen = x], m)
    BY <1>3
  <2> QED BY <1>1, <2>3, <2>4, <2>5, RecomputesGoesOn
<1> QED BY <1>2, <1>4, <1>5, <1>6 DEF Recomputing

\* The rows a call collects are those of members it found.
LEMMA AffectedRead ==
    ASSUME Calls, MemberRows, NEW r \in Requests, ReadsAffected(r)
    PROVE  Calls'
<1> DEFINE m == call[r]
<1>1. At(r, "affected")
  BY DEF ReadsAffected
<1>2. Running(m) /\ DOMAIN m = Fields /\ m.op \in Recomputing
  BY <1>1, Reading, ReadsOfRecomputing DEF At
<1>3. /\ m.todo \notin Unread /\ Head(m.todo) # "commit"
      /\ Head(m.todo) # "provisioner" /\ Head(m.todo) # "configuration"
  BY <1>1 DEF Unread, At
<1>4. PICK u, x, ls :
        /\ Managed(m.config, m.ws, u)
        /\ Continues(r, [m EXCEPT !.left = ls,
             !.rows = [v \in DOMAIN m.rows \cup {u} |->
                         IF v = u THEN x ELSE m.rows[v]]])
  BY Zenon DEF ReadsAffected
<1> DEFINE rows == [v \in DOMAIN m.rows \cup {u} |->
                      IF v = u THEN x ELSE m.rows[v]]
           k == [m EXCEPT !.left = ls, !.rows = rows]
<1>5. Continues(r, k) /\ DOMAIN rows = DOMAIN m.rows \cup {u}
  BY <1>4
<1> HIDE DEF rows
<1>6. /\ DOMAIN k = Fields /\ k.op = m.op /\ k.todo = m.todo
      /\ k.rows = rows /\ k.ceremony = m.ceremony /\ k.config = m.config
      /\ k.ws = m.ws /\ k.cfg = m.cfg /\ k.actor = m.actor /\ k.id = m.id
      /\ k.to = m.to /\ k.row = m.row /\ k.addr = m.addr
  BY <1>2 DEF Fields
<1> HIDE DEF k, m
<1>7. m.ws \in Workspaces
  BY <1>2, <1>3 DEF Running, Found, Recomputing
<1>8. \A v \in DOMAIN k.rows : v \in Users => Exists(users, v)
  BY <1>2, <1>4, <1>5, <1>6, <1>7 DEF Running, Found, Managed, MemberRows
<1>9. Inputs(k)
  BY <1>2, <1>6 DEF Running, Inputs, Aimed
<1>10. Settled(k)
  BY <1>2, <1>3, <1>6, <1>7, <1>8 DEF Running, Found, Settled, Regrouping
<1> QED BY <1>2, <1>3, <1>5, <1>6, <1>9, <1>10, GoesOn DEF Running

-----------------------------------------------------------------------------
(* The steps that commit nothing, together.                                *)

Quiet == UNCHANGED <<storeVars, principals, historyVars>>

GovernanceBegins(r) ==
    \/ CreateUser(r) \/ SetUserDisabled(r) \/ RevokeUserCredentials(r)
    \/ CreateWorkspace(r) \/ UpdateWorkspace(r) \/ SetWorkspaceDisabled(r)
    \/ AddMembership(r) \/ SetMembershipStatus(r) \/ RemoveMembership(r)
    \/ GrantRole(r) \/ SetInstanceRole(r) \/ RemoveInstanceRole(r)
InvitesOrTokens(r) ==
    \/ InviteToWorkspace(r) \/ AcceptInvitation(r)
    \/ RegisterFromInvitation(r) \/ RevokeInvitation(r)
    \/ CreatePAT(r) \/ AuthenticatePAT(r) \/ RevokePAT(r)
    \/ RevokeWorkspacePAT(r)
ProfileBegins(r) ==
    \/ SignUp(r) \/ BeginEmailAddition(r) \/ ResendEmailVerification(r)
    \/ ConfirmEmail(r) \/ SetPrimaryEmail(r) \/ RemoveEmail(r)
    \/ UpdateUser(r) \/ AnonymizeUser(r)
FederationBegins(r) ==
    \/ CreateWorkspaceDomain(r) \/ ConfirmWorkspaceDomain(r)
    \/ UpdateWorkspaceDomainPolicy(r) \/ RemoveWorkspaceDomain(r)
    \/ beginSSO(r) \/ FinishSSO(r) \/ UnlinkSSO(r)
ProvisioningBegins(r) ==
    \/ CreateSCIMConfiguration(r) \/ RotateSCIMCredential(r)
    \/ RevokeSCIMCredential(r) \/ DisableSCIMConfiguration(r)
    \/ AuthenticateSCIM(r) \/ ProvisionSCIMUser(r) \/ AdoptSCIMUser(r)
    \/ ReplaceSCIMUser(r) \/ DeprovisionSCIMUser(r) \/ UpsertSCIMGroup(r)
    \/ DeleteSCIMGroup(r) \/ UpdateSCIMConfiguration(r)
GovernanceLooks(r) ==
    \/ Checks(r) \/ Lookups(r)
    \/ ReadsRole(r) \/ ReadsInvitee(r) \/ ReadsPending(r)
    \/ ReadsInvitation(r) \/ ReadsOwned(r) \/ ReadsToken(r)
FederationLooks(r) ==
    \/ ReadsPendingAddress(r) \/ ReadsVerification(r)
    \/ ReadsDomain(r) \/ ReadsIdentity(r) \/ ReadsJoinable(r)
ProvisioningLooks(r) ==
    \/ ReadsConfiguration(r) \/ ReadsCredential(r) \/ ReadsProvisioner(r)
    \/ ReadsLink(r) \/ ReadsManaged(r) \/ ReadsGroup(r) \/ ReadsMember(r)
    \/ ReadsGroups(r) \/ ReadsLinks(r) \/ ReadsAffected(r)

LEMMA QuietlyOn ==
    ASSUME NEW r \in Requests
    PROVE  /\ \A k, reads : Begins(r, k, reads) => Quiet
           /\ \A k : Continues(r, k) => Quiet
           /\ Passes(r) => Quiet
           /\ \A row : Remembers(r, row) => Quiet
           /\ Refused(r) => Quiet
<1>1. \A k, reads : Begins(r, k, reads) => Quiet
  BY DEF Begins, Quiet, clientVars
<1>2. \A k : Continues(r, k) => Quiet
  BY DEF Continues, Quiet, clientVars
<1>3. Passes(r) => Quiet
  BY <1>2 DEF Passes
<1>4. \A row : Remembers(r, row) => Quiet
  BY <1>2 DEF Remembers
<1>5. Refused(r) => Quiet
  BY DEF Refused, Quiet, clientVars
<1> QED BY <1>1, <1>2, <1>3, <1>4, <1>5

LEMMA QuietBegins ==
    ASSUME NEW r \in Requests,
           \/ GovernanceBegins(r) \/ InvitesOrTokens(r) \/ ProfileBegins(r)
           \/ FederationBegins(r) \/ ProvisioningBegins(r)
    PROVE  Quiet
<1> USE QuietlyOn
<1>1. CASE GovernanceBegins(r)
  <2>1. CASE \/ CreateUser(r) \/ SetUserDisabled(r)
             \/ RevokeUserCredentials(r) \/ CreateWorkspace(r)
    BY Zenon, <2>1 DEF CreateUser, SetUserDisabled, RevokeUserCredentials,
                CreateWorkspace
  <2>2. CASE \/ UpdateWorkspace(r) \/ SetWorkspaceDisabled(r)
             \/ AddMembership(r) \/ SetMembershipStatus(r)
    BY Zenon, <2>2 DEF UpdateWorkspace, SetWorkspaceDisabled, AddMembership,
                SetMembershipStatus
  <2>3. CASE \/ RemoveMembership(r) \/ GrantRole(r) \/ SetInstanceRole(r)
             \/ RemoveInstanceRole(r)
    BY Zenon, <2>3 DEF RemoveMembership, GrantRole, SetInstanceRole,
                RemoveInstanceRole
  <2> QED BY <1>1, <2>1, <2>2, <2>3 DEF GovernanceBegins
<1>2. CASE InvitesOrTokens(r)
  <2>1. CASE \/ InviteToWorkspace(r) \/ AcceptInvitation(r)
             \/ RegisterFromInvitation(r) \/ RevokeInvitation(r)
    BY Zenon, <2>1 DEF InviteToWorkspace, AcceptInvitation,
                RegisterFromInvitation, RevokeInvitation
  <2>2. CASE \/ CreatePAT(r) \/ AuthenticatePAT(r) \/ RevokePAT(r)
             \/ RevokeWorkspacePAT(r)
    BY Zenon, <2>2 DEF CreatePAT, AuthenticatePAT, RevokePAT,
                       RevokeWorkspacePAT
  <2> QED BY <1>2, <2>1, <2>2 DEF InvitesOrTokens
<1>3. CASE ProfileBegins(r)
  <2>1. CASE \/ SignUp(r) \/ BeginEmailAddition(r)
             \/ ResendEmailVerification(r) \/ ConfirmEmail(r)
    BY Zenon, <2>1 DEF SignUp, BeginEmailAddition, ResendEmailVerification,
                ConfirmEmail
  <2>2. CASE \/ SetPrimaryEmail(r) \/ RemoveEmail(r) \/ UpdateUser(r)
             \/ AnonymizeUser(r)
    BY Zenon, <2>2 DEF SetPrimaryEmail, RemoveEmail, OwnAddress, UpdateUser,
                AnonymizeUser
  <2> QED BY <1>3, <2>1, <2>2 DEF ProfileBegins
<1>4. CASE FederationBegins(r)
  <2>1. CASE \/ CreateWorkspaceDomain(r) \/ ConfirmWorkspaceDomain(r)
             \/ UpdateWorkspaceDomainPolicy(r) \/ RemoveWorkspaceDomain(r)
    BY Zenon, <2>1 DEF CreateWorkspaceDomain, ConfirmWorkspaceDomain,
                UpdateWorkspaceDomainPolicy, RemoveWorkspaceDomain
  <2>2. CASE beginSSO(r)
    BY <2>2 DEF beginSSO, Quiet
  <2>3. CASE FinishSSO(r) \/ UnlinkSSO(r)
    BY Zenon, <2>3 DEF FinishSSO, UnlinkSSO
  <2> QED BY <1>4, <2>1, <2>2, <2>3 DEF FederationBegins
<1>5. CASE ProvisioningBegins(r)
  <2>1. CASE \/ CreateSCIMConfiguration(r) \/ RotateSCIMCredential(r)
             \/ RevokeSCIMCredential(r) \/ DisableSCIMConfiguration(r)
    BY Zenon, <2>1 DEF CreateSCIMConfiguration, RotateSCIMCredential,
                RevokeSCIMCredential, DisableSCIMConfiguration
  <2>2. CASE \/ AuthenticateSCIM(r) \/ ProvisionSCIMUser(r)
             \/ AdoptSCIMUser(r) \/ ReplaceSCIMUser(r)
    BY Zenon, <2>2 DEF AuthenticateSCIM, ProvisionSCIMUser, AdoptSCIMUser,
                ReplaceSCIMUser
  <2>3. CASE \/ DeprovisionSCIMUser(r) \/ UpsertSCIMGroup(r)
             \/ DeleteSCIMGroup(r) \/ UpdateSCIMConfiguration(r)
    BY Zenon, <2>3 DEF DeprovisionSCIMUser, UpsertSCIMGroup, DeleteSCIMGroup,
                UpdateSCIMConfiguration
  <2> QED BY <1>5, <2>1, <2>2, <2>3 DEF ProvisioningBegins
<1> QED BY <1>1, <1>2, <1>3, <1>4, <1>5

LEMMA QuietReads ==
    ASSUME NEW r \in Requests,
           GovernanceLooks(r) \/ FederationLooks(r) \/ ProvisioningLooks(r)
    PROVE  Quiet
<1> USE QuietlyOn
<1>1. CASE GovernanceLooks(r)
  <2>1. CASE Checks(r)
    BY Zenon, <2>1 DEF Checks, ReadsUser, ReadsWorkspace, ReadsMembership,
                ReadsInstanceRole
  <2>2. CASE Lookups(r)
    BY Zenon, <2>2 DEF Lookups, ReadsTarget, ReadsLocal, ReadsFree,
                ReadsRecord, ReadsUnclaimed, ReadsDomainPolicy
  <2>3. CASE \/ ReadsRole(r) \/ ReadsInvitee(r) \/ ReadsPending(r)
    BY <2>3 DEF ReadsRole, ReadsInvitee, ReadsPending
  <2>4. CASE \/ ReadsInvitation(r) \/ ReadsOwned(r) \/ ReadsToken(r)
    BY <2>4 DEF ReadsInvitation, ReadsOwned, ReadsToken
  <2> QED BY <1>1, <2>1, <2>2, <2>3, <2>4 DEF GovernanceLooks
<1>2. CASE FederationLooks(r)
  BY Zenon, <1>2 DEF FederationLooks, ReadsPendingAddress, ReadsVerification,
              ReadsDomain, ReadsIdentity, ReadsJoinable
<1>3. CASE ProvisioningLooks(r)
  <2>1. CASE \/ ReadsConfiguration(r) \/ ReadsCredential(r)
             \/ ReadsProvisioner(r) \/ ReadsLink(r) \/ ReadsManaged(r)
    BY <2>1 DEF ReadsConfiguration, ReadsCredential, ReadsProvisioner,
                ReadsLink, ReadsManaged
  <2>2. CASE \/ ReadsGroup(r) \/ ReadsMember(r) \/ ReadsGroups(r)
             \/ ReadsLinks(r) \/ ReadsAffected(r)
    BY Zenon, <2>2 DEF ReadsGroup, ReadsMember, ReadsGroups, ReadsLinks,
                ReadsAffected
  <2> QED BY <1>3, <2>1, <2>2 DEF ProvisioningLooks
<1> QED BY <1>1, <1>2, <1>3

QuietStep(r) ==
    \/ GovernanceBegins(r) \/ InvitesOrTokens(r) \/ ProfileBegins(r)
    \/ FederationBegins(r) \/ ProvisioningBegins(r)
    \/ GovernanceLooks(r) \/ FederationLooks(r) \/ ProvisioningLooks(r)
    \/ Refused(r)

LEMMA QuietStepsHold ==
    ASSUME Sound, NEW r \in Requests, QuietStep(r)
    PROVE  Quiet /\ Sound'
<1> USE DEF Sound
<1>0. ConfigRows /\ GroupRows /\ MemberRows
  BY DEF Tables
<1>1. Quiet
  BY QuietBegins, QuietReads, QuietlyOn DEF QuietStep
<1>2. Tables'
  BY <1>1, QuietTables DEF Quiet
<1>3. CASE GovernanceBegins(r)
  BY <1>1, <1>2, <1>3, AccountCalls, WorkspaceCalls, MembershipCalls
     DEF GovernanceBegins
<1>4. CASE InvitesOrTokens(r)
  BY <1>1, <1>2, <1>4, InvitationCalls, TokenCalls, WatchedCalls
     DEF InvitesOrTokens
<1>5. CASE ProfileBegins(r)
  BY <1>1, <1>2, <1>5, AddressCalls, AccountCalls DEF ProfileBegins
<1>6. CASE FederationBegins(r)
  BY <1>1, <1>2, <1>6, FederationCalls, WatchedCalls, CeremonyBegins
     DEF FederationBegins
<1>7. CASE ProvisioningBegins(r)
  BY <1>0, <1>1, <1>2, <1>7, ConfigurationCalls, WatchedCalls, UpdatingCalls,
     UpsertSCIMGroupCall, DeleteSCIMGroupCall, UpdateSCIMConfigurationCall
     DEF ProvisioningBegins
<1>8. CASE GovernanceLooks(r)
  BY <1>1, <1>2, <1>8, ChecksPass, LookupsPass, GovernanceReads
     DEF GovernanceLooks
<1>9. CASE FederationLooks(r)
  BY <1>1, <1>2, <1>9, DirectoryReads DEF FederationLooks
<1>10. CASE ProvisioningLooks(r)
  BY <1>0, <1>1, <1>2, <1>10, DirectoryReads, ReadsConfigurationGoesOn,
     LinkReads,
     GroupRead, GroupsRead, AffectedRead DEF ProvisioningLooks
<1>11. CASE Refused(r)
  BY <1>1, <1>2, <1>11, RefusedEnds
<1> QED BY <1>1, <1>3, <1>4, <1>5, <1>6, <1>7, <1>8, <1>9, <1>10, <1>11
           DEF QuietStep
=============================================================================
