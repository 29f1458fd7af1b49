-------------------------- MODULE AuditTrailProofs --------------------------
(***************************************************************************)
(* Proofs about AuditTrail for any number of calls, identifiers and clock  *)
(* ticks.                                                                  *)
(***************************************************************************)
EXTENDS AuditTrail, TLAPS

\* What newAudit and transactionalCommit build is a commit of the given action.
LEMMA CommitType ==
  ASSUME NEW id \in Nat, NEW action \in Action, NEW subject \in Nat
  PROVE  /\ newAudit(id, action, subject) \in Auditing(action)
         /\ transactionalCommit(newAudit(id, action, subject)) \in Auditing(action)
         /\ [newAudit(id, action, subject) EXCEPT !.unchained = TRUE] \in Auditing(action)
         /\ transactionalCommit(newAudit(id, action, subject)).subject = subject
         /\ transactionalCommit(newAudit(id, action, subject)).ceremony.id = NoCeremony
         /\ newAudit(id, action, subject).ceremony.id = NoCeremony
         /\ [newAudit(id, action, subject) EXCEPT !.unchained = TRUE].ceremony.id = NoCeremony
  BY Zenon DEF newAudit, transactionalCommit, Auditing, Commit, Ceremony,
     NoCeremony

\* Consuming adds the ceremony of a continuation and the time to a commit.
LEMMA ConsumingType ==
  ASSUME clock \in Nat, NEW action, NEW c \in Auditing(action), NEW x \in Continuation
  PROVE  /\ Consuming(c, x) \in Auditing(action)
         /\ Consuming(c, x).subject = c.subject
         /\ Consuming(c, x).at = clock
         /\ Consuming(c, x).ceremony = [id |-> x.id, expires |-> x.expires]
  BY Zenon DEF Consuming, Auditing, Commit, Ceremony, Continuation

-----------------------------------------------------------------------------
(* What commitAudit does to the log and the chain.                         *)

Lone(c) == [seq |-> 0, id |-> c.id, action |-> c.action, subject |-> c.subject,
            prev |-> Genesis, hash |-> Genesis]

Last(c) == [seq |-> auditSequence + 1, id |-> c.id, action |-> c.action,
            subject |-> c.subject, prev |-> auditHead,
            hash |-> ComputeAuditHash(auditHead, Chain(c))]

AppendsLone(c) ==
    /\ audits' = Append(audits, Lone(c))
    /\ UNCHANGED <<auditSequence, auditHead>>

AppendsLast(c) ==
    /\ audits' = Append(audits, Last(c))
    /\ auditSequence' = auditSequence + 1
    /\ auditHead' = Last(c).hash

\* commitAudit appends one event, chained to the head or not at all.
LEMMA AuditEffect ==
  ASSUME NEW c, commitAudit(c)
  PROVE  AppendsLone(c) \/ AppendsLast(c)
  <1>1. CASE c.unchained
    BY <1>1, Zenon DEF commitAudit, AppendsLone, Lone
  <1>2. CASE ~c.unchained
    <2>1. /\ auditSequence' = auditSequence + 1
          /\ auditHead' = ComputeAuditHash(auditHead, Chain(c))
          /\ audits' = Append(audits, [seq |-> auditSequence + 1, id |-> c.id,
                 action |-> c.action, subject |-> c.subject,
                 prev |-> auditHead, hash |-> auditHead'])
      BY <1>2, Zenon DEF commitAudit
    <2> QED BY <2>1 DEF AppendsLast, Last
  <1> QED BY <1>1, <1>2

\* The events commitAudit appends are audit events.
LEMMA EventType ==
  ASSUME StoreTypeOK, NEW c \in Commit
  PROVE  Lone(c) \in AuditEvent /\ Last(c) \in AuditEvent
  <1>1. Genesis \in Seq(Link)
    BY DEF Genesis
  <1>2. ComputeAuditHash(auditHead, Chain(c)) \in Seq(Link)
    BY DEF StoreTypeOK, ComputeAuditHash, Chain, Link, Commit
  <1>3. c.id \in Nat /\ c.action \in Action /\ c.subject \in Nat /\ auditHead \in Seq(Link)
    BY DEF StoreTypeOK, Commit
  <1>4. auditSequence + 1 \in Nat /\ 0 \in Nat
    BY DEF StoreTypeOK
  <1>5. Lone(c) \in AuditEvent
    BY <1>1, <1>3, <1>4 DEF Lone, AuditEvent
  <1> QED BY <1>2, <1>3, <1>4, <1>5 DEF Last, AuditEvent

\* commitAudit keeps the types of the log, the sequence and the head.
LEMMA AuditType ==
  ASSUME StoreTypeOK, NEW c \in Commit, commitAudit(c)
  PROVE  audits' \in Seq(AuditEvent) /\ auditSequence' \in Nat /\ auditHead' \in Seq(Link)
  <1>1. CASE AppendsLone(c)
    BY <1>1, EventType DEF AppendsLone, StoreTypeOK
  <1>2. CASE AppendsLast(c)
    <2>1. Last(c).hash \in Seq(Link)
      BY EventType DEF AuditEvent
    <2> QED BY <1>2, <2>1, EventType DEF AppendsLast, StoreTypeOK
  <1> QED BY <1>1, <1>2, AuditEffect

\* A transaction keeps the store's types when the mutation does.
LEMMA AttemptType ==
  ASSUME StoreTypeOK, NEW c \in Commit, NEW changed, Attempt(c, changed),
         changed \in [passkeys: SUBSET Passkey, clients: SUBSET OAuthClient,
                      clientKeys: SUBSET OAuthClient]
  PROVE  StoreTypeOK'
  <1>1. c.ceremony \in Ceremony
    BY DEF Commit
  <1>2. Burned(c) \in SUBSET Ceremony /\ Remembered(c.at) \in SUBSET Ceremony
    BY <1>1 DEF Burned, Remembered, StoreTypeOK
  <1>3. snapshotLocked \in [passkeys: SUBSET Passkey, clients: SUBSET OAuthClient,
                            clientKeys: SUBSET OAuthClient]
    BY DEF snapshotLocked, StoreTypeOK
  <1>4. CASE Replayed(c)
    BY <1>2, <1>4 DEF Replayed, StoreTypeOK, trail
  <1>5. CASE Rejected(c)
    BY <1>2, <1>3, <1>5 DEF Rejected, StoreTypeOK, trail
  <1>6. CASE Committed(c, changed)
    BY <1>2, <1>6, AuditType DEF Committed, StoreTypeOK
  <1> QED BY <1>4, <1>5, <1>6 DEF Attempt

-----------------------------------------------------------------------------
(* Type correctness.                                                       *)

\* A call that moves on to a typed stage keeps the calls typed.
LEMMA GoesType ==
  ASSUME call \in [Requests -> Call], NEW p \in Requests, NEW next \in Call, Goes(p, next)
  PROVE  call' \in [Requests -> Call]
  BY DEF Goes

\* What a call that is about to commit holds.
LEMMA CallShape ==
  ASSUME TypeOK, NEW p \in Requests
  PROVE  /\ call[p].pc = "decoded" => call[p] \in Decoded
         /\ call[p].pc = "resolving" => call[p] \in Resolving
         /\ call[p].pc = "SavePasskey" => call[p] \in Saving
         /\ call[p].pc = "TouchPasskey" => call[p] \in Touching
         /\ call[p].pc = "DeletePasskey" => call[p] \in Deleting
         /\ call[p].pc \in {"CreateOAuthClient", "UpsertOAuthCIMDClient"}
               => call[p] \in Registering
         /\ call[p].pc = "AppendAudit" => call[p] \in Appending
         /\ call[p].pc = "scanned" => call[p] \in Scanned
  <1>1. call[p] \in Call
    BY DEF TypeOK
  <1> QED BY <1>1 DEF Call, Committing, Idle, Decoded, Resolving, Saving,
             Touching,
                   Deleting, Registering, Appending, Scanned, Verified

\* The store methods keep the store's types.
LEMMA StoreType ==
  ASSUME TypeOK, NEW p \in Requests, Store(p)
  PROVE  StoreTypeOK'
  <1> DEFINE c == call[p].commit
             Tables == [passkeys: SUBSET Passkey, clients: SUBSET OAuthClient,
                        clientKeys: SUBSET OAuthClient]
  <1>0. StoreTypeOK /\ tables \in Tables
    BY DEF TypeOK, StoreTypeOK
  <1>1. CASE call[p].pc = "SavePasskey" /\ SavePasskey(c, call[p].row)
    <2>1. c \in Commit /\ call[p].row \in Passkey
      BY <1>1, CallShape DEF Saving, Auditing
    <2>2. [tables EXCEPT !.passkeys = @ \cup {call[p].row}] \in Tables
      BY <1>0, <2>1
    <2> QED BY <1>0, <1>1, <2>1, <2>2, AttemptType DEF SavePasskey
  <1>2. CASE call[p].pc = "TouchPasskey" /\ TouchPasskey(c, call[p].credential)
    <2>1. c \in Commit
      BY <1>2, CallShape DEF Touching, Auditing
    <2> QED BY <1>0, <1>2, <2>1, AttemptType DEF TouchPasskey
  <1>3. CASE call[p].pc = "DeletePasskey" /\ DeletePasskey(c, c.subject)
    <2>1. c \in Commit
      BY <1>3, CallShape DEF Deleting, Auditing
    <2>2. [tables EXCEPT !.passkeys = {k \in @ : k.id # c.subject}] \in Tables
      BY <1>0
    <2> QED BY <1>0, <1>3, <2>1, <2>2, AttemptType DEF DeletePasskey
  <1>4. CASE call[p].pc = "CreateOAuthClient" /\ CreateOAuthClient(c, call[p].row)
    <2>1. c \in Commit /\ call[p].row \in OAuthClient
      BY <1>4, CallShape DEF Registering, Auditing
    <2>2. [tables EXCEPT !.clients = @ \cup {call[p].row},
                         !.clientKeys = @ \cup {call[p].row}] \in Tables
      BY Zenon, <1>0, <2>1
    <2> QED BY Zenon, <1>0, <1>4, <2>1, <2>2, AttemptType DEF CreateOAuthClient
  <1>5. CASE call[p].pc = "UpsertOAuthCIMDClient" /\ UpsertOAuthCIMDClient(c, call[p].row)
    <2>1. c \in Commit /\ call[p].row \in OAuthClient
      BY <1>5, CallShape DEF Registering, Auditing
    <2>2. [tables EXCEPT !.clients = {r \in @ : r.id # call[p].row.id} \cup {call[p].row},
                         !.clientKeys = {r \in @ : r.key # call[p].row.key} \cup {call[p].row}]
             \in Tables
      BY Zenon, <1>0, <2>1
    <2> QED BY Zenon, <1>0, <1>5, <2>1, <2>2, AttemptType
               DEF UpsertOAuthCIMDClient
  <1>6. CASE call[p].pc = "AppendAudit" /\ AppendAudit(c)
    <2>1. c \in Commit
      BY <1>6, CallShape DEF Appending, Auditing
    <2> QED BY <1>0, <1>6, <2>1, AttemptType DEF AppendAudit
  <1> QED BY <1>1, <1>2, <1>3, <1>4, <1>5, <1>6 DEF Store

\* Transact records the ceremony it spends.
LEMMA SpendingType ==
  ASSUME TypeOK, NEW c \in Commit
  PROVE  Spending(c) \in SUBSET [id: Nat, audit: Nat, at: Nat, expires: Nat]
  <1>1. c.id \in Nat /\ c.ceremony.id \in Nat /\ c.ceremony.expires \in Nat
    BY DEF Commit, Ceremony
  <1> QED BY <1>1 DEF TypeOK, Spending

\* Every call at a store method holds a commit.
LEMMA HeldCommit ==
  ASSUME TypeOK, NEW p \in Requests, Store(p)
  PROVE  call[p].commit \in Commit
  BY CallShape DEF Store, Saving, Touching, Deleting, Registering, Appending,
     Auditing

\* The passkey calls keep the types.
LEMMA PasskeysType ==
  ASSUME TypeOK, NEW p \in Requests, Passkeys(p)
  PROVE  TypeOK'
  <1>0. /\ StoreTypeOK /\ call \in [Requests -> Call] /\ clock \in Nat /\ lastID \in Nat
        /\ lastID + 1 \in Nat /\ lastID + 2 \in Nat
    BY DEF TypeOK
  <1>s. ASSUME UNCHANGED <<storeVars, clock, issued, reports, spent>>,
               lastID' \in Nat, NEW next \in Call, Goes(p, next)
        PROVE  TypeOK'
    <2>1. call' \in [Requests -> Call]
      BY <1>0, <1>s, GoesType
    <2>2. StoreTypeOK'
      BY <1>0, <1>s DEF StoreTypeOK, storeVars, trail
    <2> QED BY <1>s, <2>1, <2>2 DEF TypeOK
  <1>1. CASE \E x \in issued : decodeContinuation(p, x)
    <2>1. PICK x \in issued : decodeContinuation(p, x)
      BY <1>1
    <2>2. [pc |-> "decoded", continuation |-> x] \in Call
      BY DEF TypeOK, Call, Decoded
    <2> QED BY <1>0, <1>s, <2>1, <2>2 DEF decodeContinuation
  <1>2. CASE \E credential \in Credentials : FinishPasskeyRegistration(p, credential)
    <2>1. PICK credential \in Credentials : FinishPasskeyRegistration(p, credential)
      BY <1>2
    <2> DEFINE c == Consuming(transactionalCommit(
                        newAudit(lastID + 2, "passkey.create", lastID + 1)),
                        call[p].continuation)
               next == [pc |-> "SavePasskey", commit |-> c,
                        row |-> [id |-> lastID + 1, credential |-> credential]]
    <2>2. call[p].continuation \in Continuation
      BY <2>1, CallShape DEF FinishPasskeyRegistration, Decoded
    <2>3. c \in Auditing("passkey.create")
      BY Zenon, <1>0, <2>2, CommitType, ConsumingType DEF Action
    <2>4. next \in Call
      BY <1>0, <2>3 DEF Call, Committing, Saving, Passkey
    <2>5. /\ Goes(p, next) /\ lastID' = lastID + 2
          /\ UNCHANGED <<storeVars, clock, issued, reports, spent>>
      BY <2>1 DEF FinishPasskeyRegistration
    <2> QED BY <1>0, <1>s, <2>4, <2>5
  <1>3. CASE \E credential \in Credentials : FinishPasskeyAuthentication(p, credential)
    <2>1. PICK credential \in Credentials : FinishPasskeyAuthentication(p, credential)
      BY <1>3
    <2> DEFINE c == Consuming(newAudit(lastID + 1, "other", 0), call[p].continuation)
               next == [pc |-> "TouchPasskey", commit |-> c, credential |-> credential]
    <2>2. call[p].continuation \in Continuation
      BY <2>1, CallShape DEF FinishPasskeyAuthentication, Decoded
    <2>3. c \in Auditing("other")
      BY Zenon, <1>0, <2>2, CommitType, ConsumingType DEF Action
    <2>4. next \in Call
      BY <2>3 DEF Call, Committing, Touching
    <2>5. /\ Goes(p, next) /\ lastID' = lastID + 1
          /\ UNCHANGED <<storeVars, clock, issued, reports, spent>>
      BY <2>1 DEF FinishPasskeyAuthentication
    <2> QED BY <1>0, <1>s, <2>4, <2>5
  <1>4. CASE FailPasskey(p)
    <2>1. newAudit(lastID + 1, "other", 0) \in Auditing("other")
      BY Zenon, <1>0, CommitType DEF Action
    <2>2. [pc |-> "AppendAudit", commit |-> newAudit(lastID + 1, "other", 0)] \in Call
      BY <2>1 DEF Call, Committing, Appending
    <2> QED BY <1>0, <1>4, <1>s, <2>2 DEF FailPasskey
  <1>5. CASE \E k \in tables.passkeys : RemovePasskey(p, k.id)
    <2>1. PICK k \in tables.passkeys : RemovePasskey(p, k.id)
      BY <1>5
    <2>2. k.id \in Nat
      BY <1>0 DEF StoreTypeOK, Passkey
    <2> DEFINE c == transactionalCommit(newAudit(lastID + 1, "passkey.delete", k.id))
    <2>3. c \in Auditing("passkey.delete")
      BY Zenon, <1>0, <2>2, CommitType DEF Action
    <2>4. [pc |-> "DeletePasskey", commit |-> c] \in Call
      BY <2>3 DEF Call, Committing, Deleting
    <2>5. /\ Goes(p, [pc |-> "DeletePasskey", commit |-> c]) /\ lastID' = lastID + 1
          /\ UNCHANGED <<storeVars, clock, issued, reports, spent>>
      BY <2>1 DEF RemovePasskey
    <2> QED BY <1>0, <1>s, <2>4, <2>5
  <1> QED BY <1>1, <1>2, <1>3, <1>4, <1>5 DEF Passkeys

\* The client calls keep the types.
LEMMA ClientsType ==
  ASSUME TypeOK, NEW p \in Requests, Clients(p)
  PROVE  TypeOK'
  <1>0. /\ StoreTypeOK /\ call \in [Requests -> Call] /\ lastID \in Nat
        /\ lastID + 1 \in Nat /\ lastID + 2 \in Nat
    BY DEF TypeOK
  <1>s. ASSUME UNCHANGED <<storeVars, clock, issued, reports, spent>>,
               lastID' \in Nat, NEW next \in Call, Goes(p, next)
        PROVE  TypeOK'
    <2>1. call' \in [Requests -> Call]
      BY <1>0, <1>s, GoesType
    <2>2. StoreTypeOK'
      BY <1>0, <1>s DEF StoreTypeOK, storeVars, trail
    <2> QED BY <1>s, <2>1, <2>2 DEF TypeOK
  <1>1. CASE RegisterOAuthClient(p)
    <2> DEFINE c == transactionalCommit(newAudit(lastID + 2, "oauth.client", lastID + 1))
               next == [pc |-> "CreateOAuthClient", commit |-> c,
                        row |-> [id |-> lastID + 1, key |-> lastID + 1]]
    <2>1. c \in Auditing("oauth.client")
      BY Zenon, <1>0, CommitType DEF Action
    <2>2. next \in Call
      BY <1>0, <2>1 DEF Call, Committing, Registering, OAuthClient
    <2>3. /\ Goes(p, next) /\ lastID' = lastID + 2
          /\ UNCHANGED <<storeVars, clock, issued, reports, spent>>
      BY <1>1 DEF RegisterOAuthClient
    <2> QED BY <1>0, <1>s, <2>2, <2>3
  <1>2. CASE \E url \in ClientURLs : OAuthClientByClientID(p, url)
    <2>1. PICK url \in ClientURLs : OAuthClientByClientID(p, url)
      BY <1>2
    <2> DEFINE found == {r.id : r \in {k \in tables.clientKeys : k.key = url}}
    <2>2. found \in SUBSET Nat
      BY <1>0 DEF StoreTypeOK, OAuthClient
    <2>3. [pc |-> "resolving", url |-> url, found |-> found] \in Call
      BY <2>2 DEF Call, Resolving
    <2>4. /\ Goes(p, [pc |-> "resolving", url |-> url, found |-> found]) /\ lastID' = lastID
          /\ UNCHANGED <<storeVars, clock, issued, reports, spent>>
      BY <2>1 DEF OAuthClientByClientID
    <2> QED BY <1>0, <1>s, <2>3, <2>4
  <1>3. CASE resolveOAuthClient(p)
    <2>1. call[p] \in Resolving
      BY <1>3, CallShape DEF resolveOAuthClient
    <2>2. PICK id \in IF call[p].found = {} THEN {lastID + 1} ELSE call[p].found :
            Goes(p, [pc |-> "UpsertOAuthCIMDClient",
                     commit |-> transactionalCommit(newAudit(lastID + 2, "oauth.client", id)),
                     row |-> [id |-> id, key |-> call[p].url]])
      BY Zenon, <1>3 DEF resolveOAuthClient
    <2>3. id \in Nat /\ call[p].url \in ClientURLs
      BY <1>0, <2>1 DEF Resolving
    <2> DEFINE c == transactionalCommit(newAudit(lastID + 2, "oauth.client", id))
               next == [pc |-> "UpsertOAuthCIMDClient", commit |-> c,
                        row |-> [id |-> id, key |-> call[p].url]]
    <2>4. c \in Auditing("oauth.client")
      BY Zenon, <1>0, <2>3, CommitType DEF Action
    <2>5. next \in Call
      BY <2>3, <2>4 DEF Call, Committing, Registering, OAuthClient
    <2>6. Goes(p, next)
      BY <2>2
    <2>7. lastID' = lastID + 2 /\ UNCHANGED <<storeVars, clock, issued, reports, spent>>
      BY <1>3 DEF resolveOAuthClient
    <2> QED BY <1>0, <1>s, <2>5, <2>6, <2>7
  <1>4. CASE emitOAuthCIMDRejected(p)
    <2> DEFINE c == transactionalCommit(newAudit(lastID + 1, "other", 0))
    <2>1. c \in Auditing("other")
      BY Zenon, <1>0, CommitType DEF Action
    <2>2. [pc |-> "AppendAudit", commit |-> c] \in Call
      BY <2>1 DEF Call, Committing, Appending
    <2>3. /\ Goes(p, [pc |-> "AppendAudit", commit |-> c]) /\ lastID' = lastID + 1
          /\ UNCHANGED <<storeVars, clock, issued, reports, spent>>
      BY <1>4 DEF emitOAuthCIMDRejected
    <2> QED BY <1>0, <1>s, <2>2, <2>3
  <1>5. CASE recordUnknownPATRejection(p)
    <2> DEFINE c == [newAudit(lastID + 1, "other", 0) EXCEPT !.unchained = TRUE]
    <2>1. c \in Auditing("other")
      BY Zenon, <1>0, CommitType DEF Action
    <2>2. [pc |-> "AppendAudit", commit |-> c] \in Call
      BY <2>1 DEF Call, Committing, Appending
    <2>3. /\ Goes(p, [pc |-> "AppendAudit", commit |-> c]) /\ lastID' = lastID + 1
          /\ UNCHANGED <<storeVars, clock, issued, reports, spent>>
      BY <1>5 DEF recordUnknownPATRejection
    <2> QED BY <1>0, <1>s, <2>2, <2>3
  <1> QED BY <1>1, <1>2, <1>3, <1>4, <1>5 DEF Clients

\* A point of the chain that a verification starts from or reaches is typed.
LEMMA ScanType ==
  ASSUME TypeOK, NEW from \in reports \cup {Zero}
  PROVE  /\ from \in Report
         /\ \A e \in Chained(from.seq) : [seq |-> e.seq, hash |-> e.hash] \in Report
  <1>1. Zero \in Report
    BY DEF Zero, Report, Genesis
  <1>2. \A e \in Chained(from.seq) : e \in AuditEvent
    BY DEF TypeOK, StoreTypeOK, Chained
  <1> QED BY <1>1, <1>2 DEF TypeOK, Report, AuditEvent

\* The verification keeps the types.
LEMMA VerifyType ==
  ASSUME TypeOK, NEW p \in Requests, Verify(p)
  PROVE  TypeOK'
  <1>0. /\ StoreTypeOK /\ call \in [Requests -> Call] /\ auditSequence \in Nat
        /\ auditHead \in Seq(Link)
    BY DEF TypeOK, StoreTypeOK
  <1>s. ASSUME UNCHANGED <<storeVars, clock, lastID, issued, spent>>,
               reports' \in SUBSET Report, NEW next \in Call, Goes(p, next)
        PROVE  TypeOK'
    <2>1. call' \in [Requests -> Call]
      BY <1>0, <1>s, GoesType
    <2>2. StoreTypeOK'
      BY <1>0, <1>s DEF StoreTypeOK, storeVars, trail
    <2> QED BY <1>s, <2>1, <2>2 DEF TypeOK
  <1>1. CASE \E from \in reports \cup {Zero} : ScanChain(p, from)
    <2>1. PICK from \in reports \cup {Zero} : ScanChain(p, from)
      BY <1>1
    <2>2. [pc |-> "compromised", seen |-> auditSequence, head |-> auditSequence] \in Call
      BY <1>0 DEF Call, Verified
    <2>3. \A r \in Report : [pc |-> "scanned", seq |-> r.seq, hash |-> r.hash,
                              seen |-> auditSequence] \in Call
      BY <1>0 DEF Call, Scanned, Report
    <2>4. PICK next \in Call : Goes(p, next)
      BY Zenon, <2>1, <2>2, <2>3, ScanType DEF ScanChain
    <2>5. UNCHANGED <<storeVars, clock, lastID, issued, reports, spent>>
      BY <2>1 DEF ScanChain
    <2>6. reports' \in SUBSET Report
      BY <2>5 DEF TypeOK
    <2> QED BY <1>s, <2>4, <2>5, <2>6
  <1>2. CASE CompareHead(p)
    <2>1. call[p].seen \in Nat
      BY <1>2, CallShape DEF CompareHead, Scanned
    <2>2. \A pc \in {"verified", "compromised"} :
             [pc |-> pc, seen |-> call[p].seen, head |-> auditSequence] \in Call
      BY <1>0, <2>1 DEF Call, Verified
    <2>3. reports \cup {[seq |-> auditSequence, hash |-> auditHead]} \in SUBSET Report
      BY <1>0 DEF TypeOK, Report
    <2>4. reports' \in SUBSET Report
      BY <1>2, <2>3 DEF CompareHead, TypeOK
    <2>5. PICK next \in Call : Goes(p, next)
      BY <1>2, <2>2 DEF CompareHead
    <2>6. UNCHANGED <<storeVars, clock, lastID, issued, spent>>
      BY <1>2 DEF CompareHead
    <2> QED BY <1>s, <2>4, <2>5, <2>6
  <1>3. CASE Return(p)
    <2>1. Idle \in Call
      BY DEF Call
    <2>2. /\ Goes(p, Idle) /\ UNCHANGED <<storeVars, clock, lastID, issued, reports, spent>>
      BY <1>3 DEF Return
    <2>3. reports' \in SUBSET Report
      BY <2>2 DEF TypeOK
    <2> QED BY <1>s, <2>1, <2>2, <2>3
  <1> QED BY <1>1, <1>2, <1>3 DEF Verify

\* Every step keeps the types.
LEMMA TypeStep ==
  ASSUME TypeOK, [Next]_vars
  PROVE  TypeOK'
  <1>0. StoreTypeOK /\ call \in [Requests -> Call] /\ clock \in Nat /\ lastID \in Nat
    BY DEF TypeOK
  <1>1. ASSUME NEW kind \in Kinds, BeginPasskeyCeremony(kind)
        PROVE  TypeOK'
    <2>1. [id |-> lastID + 1, kind |-> kind, expires |-> clock + CeremonyTTL] \in Continuation
      BY <1>0, TrailBounds DEF Continuation
    <2>2. StoreTypeOK'
      BY <1>0, <1>1 DEF BeginPasskeyCeremony, StoreTypeOK, storeVars, trail
    <2> QED BY <1>0, <1>1, <2>1, <2>2 DEF BeginPasskeyCeremony, TypeOK
  <1>2. ASSUME NEW p \in Requests, Transact(p)
        PROVE  TypeOK'
    <2>1. StoreTypeOK'
      BY <1>2, StoreType DEF Transact
    <2>2. Spending(call[p].commit) \in SUBSET [id: Nat, audit: Nat, at: Nat, expires: Nat]
      BY <1>2, HeldCommit, SpendingType DEF Transact
    <2>3. call' \in [Requests -> Call]
      BY <1>0, <1>2, GoesType DEF Transact, Call
    <2> QED BY <1>2, <2>1, <2>2, <2>3 DEF Transact, TypeOK
  <1>3. ASSUME NEW p \in Requests, Abandon(p)
        PROVE  TypeOK'
    <2>1. StoreTypeOK'
      BY <1>0, <1>3 DEF Abandon, StoreTypeOK, storeVars, trail
    <2>2. call' \in [Requests -> Call]
      BY <1>0, <1>3, GoesType DEF Abandon, Call
    <2> QED BY <1>3, <2>1, <2>2 DEF Abandon, TypeOK
  <1>4. CASE Tick
    <2>1. StoreTypeOK'
      BY <1>0, <1>4 DEF Tick, StoreTypeOK, storeVars, trail
    <2> QED BY <1>4, <2>1 DEF Tick, TypeOK
  <1>5. CASE UNCHANGED vars
    <2>1. StoreTypeOK'
      BY <1>0, <1>5 DEF vars, StoreTypeOK, storeVars, trail
    <2> QED BY <1>5, <2>1 DEF vars, TypeOK
  <1> QED BY <1>1, <1>2, <1>3, <1>4, <1>5, PasskeysType, ClientsType,
             VerifyType DEF Next

\* The log is empty at first and every variable typed.
LEMMA TypeInit == Init => TypeOK
  <1> SUFFICES ASSUME Init PROVE TypeOK
    OBVIOUS
  <1>1. StoreTypeOK
    BY DEF Init, StoreInit, StoreTypeOK, Genesis
  <1> QED BY <1>1 DEF Init, TypeOK, Call

\* Every variable of AuditTrail keeps its type: what the code stores in the
\* tables, the log and the calls.
THEOREM TrailTyping == Spec => []TypeOK
  BY TypeInit, TypeStep, PTL DEF Spec

-----------------------------------------------------------------------------
(* The chain.                                                              *)

\* A step leaves the log alone or appends one event to it.
LEMMA TrailEffect ==
  ASSUME TypeOK, [Next]_vars
  PROVE  UNCHANGED trail \/ \E c \in Commit : AppendsLone(c) \/ AppendsLast(c)
  <1>1. ASSUME NEW p \in Requests, Transact(p), ~UNCHANGED trail
        PROVE  \E c \in Commit : AppendsLone(c) \/ AppendsLast(c)
    <2>1. Store(p) /\ call[p].commit \in Commit
      BY <1>1, HeldCommit DEF Transact
    <2>2. \E changed : Attempt(call[p].commit, changed)
      BY <2>1, Zenon DEF Store, SavePasskey, TouchPasskey, DeletePasskey,
         CreateOAuthClient,
                  UpsertOAuthCIMDClient, AppendAudit
    <2>3. commitAudit(call[p].commit)
      BY <1>1, <2>2 DEF Attempt, Replayed, Rejected, Committed
    <2> QED BY <2>1, <2>3, AuditEffect
  <1>2. ASSUME NEW p \in Requests, Passkeys(p)
        PROVE  UNCHANGED trail
    BY Zenon, <1>2 DEF Passkeys, decodeContinuation, FinishPasskeyRegistration,
                FinishPasskeyAuthentication, FailPasskey, RemovePasskey, storeVars
  <1>3. ASSUME NEW p \in Requests, Clients(p)
        PROVE  UNCHANGED trail
    BY Zenon, <1>3 DEF Clients, RegisterOAuthClient, OAuthClientByClientID,
       resolveOAuthClient,
                emitOAuthCIMDRejected, recordUnknownPATRejection, storeVars
  <1>4. ASSUME NEW p \in Requests, Verify(p)
        PROVE  UNCHANGED trail
    BY <1>4 DEF Verify, ScanChain, CompareHead, Return, storeVars
  <1> QED BY <1>1, <1>2, <1>3, <1>4
          DEF Next, vars, BeginPasskeyCeremony, Abandon, Tick, storeVars

\* The events of the log after one is appended.
LEMMA LogGrows ==
  ASSUME StoreTypeOK, NEW e \in AuditEvent, audits' = Append(audits, e), NEW n
  PROVE  Chained(n)' = Chained(n) \cup (IF e.seq > n THEN {e} ELSE {})
  <1>1. {audits'[i] : i \in DOMAIN audits'} = {audits[i] : i \in DOMAIN audits} \cup {e}
    <2>1. audits \in Seq(AuditEvent)
      BY DEF StoreTypeOK
    <2>2. DOMAIN audits' = DOMAIN audits \cup {Len(audits) + 1}
      BY <2>1
    <2>3. \A i \in DOMAIN audits : audits'[i] = audits[i]
      BY <2>1
    <2>4. audits'[Len(audits) + 1] = e
      BY <2>1
    <2> QED BY <2>2, <2>3, <2>4
  <1> QED BY <1>1 DEF Chained

\* The loop of the verification goes one event further.
LEMMA ExtendsOne ==
  ASSUME NEW from \in Report, NEW n \in Nat, n >= from.seq,
         NEW events \in SUBSET AuditEvent, Extends(events, from, n),
         NEW last \in AuditEvent, last.seq = n + 1,
         last.hash = ComputeAuditHash(last.prev, last),
         n = from.seq => last.prev = from.hash,
         \A e \in events : e.seq = n => last.prev = e.hash
  PROVE  Extends(events \cup {last}, from, n + 1)
  <1>0. from.seq \in Nat /\ \A e \in events : e.seq \in Nat
    BY DEF Report, AuditEvent
  <1>1. \A e \in events : e.seq \in (from.seq + 1)..n
    BY DEF Extends
  <1>2. {e.seq : e \in events \cup {last}} = (from.seq + 1)..(n + 1)
    <2>1. {e.seq : e \in events \cup {last}} = {e.seq : e \in events} \cup {n + 1}
      OBVIOUS
    <2>2. (from.seq + 1)..(n + 1) = ((from.seq + 1)..n) \cup {n + 1}
      BY <1>0
    <2> QED BY <2>1, <2>2 DEF Extends
  <1>3. \A e, f \in events \cup {last} : e.seq = f.seq => e = f
    BY <1>0, <1>1 DEF Extends
  <1>4. ASSUME NEW e \in events \cup {last}
        PROVE  /\ e.hash = ComputeAuditHash(e.prev, e)
               /\ e.seq = from.seq + 1 => e.prev = from.hash
               /\ \A f \in events \cup {last} : f.seq = e.seq + 1 => f.prev = e.hash
    <2>1. CASE e \in events
      BY <1>0, <1>1, <2>1 DEF Extends
    <2>2. CASE e = last
      BY <1>0, <1>1, <2>2
    <2> QED BY <2>1, <2>2
  <1> QED BY <1>2, <1>3, <1>4 DEF Extends

\* A step keeps the chain sound.
LEMMA ChainStep ==
  ASSUME TypeOK, ChainIsSound, [Next]_vars
  PROVE  ChainIsSound'
  <1>0. StoreTypeOK /\ auditSequence \in Nat /\ auditHead \in Seq(Link)
    BY DEF TypeOK, StoreTypeOK
  <1>1. CASE UNCHANGED trail
    BY <1>1 DEF trail, ChainIsSound, Chained
  <1>2. ASSUME NEW c \in Commit, AppendsLone(c)
        PROVE  ChainIsSound'
    <2>1. Lone(c) \in AuditEvent /\ Lone(c).seq = 0
      BY <1>0, EventType DEF Lone
    <2>2. Chained(0)' = Chained(0) \cup (IF Lone(c).seq > 0 THEN {Lone(c)} ELSE {})
      BY Zenon, <1>0, <1>2, <2>1, LogGrows DEF AppendsLone
    <2>3. Chained(0)' = Chained(0)
      BY <2>1, <2>2
    <2> QED BY <1>2, <2>3 DEF AppendsLone, ChainIsSound
  <1>3. ASSUME NEW c \in Commit, AppendsLast(c)
        PROVE  ChainIsSound'
    <2> DEFINE last == Last(c)
    <2>1. /\ last \in AuditEvent /\ last.seq = auditSequence + 1 /\ last.prev = auditHead
          /\ last.hash = ComputeAuditHash(last.prev, last)
      BY <1>0, EventType DEF Last, ComputeAuditHash, Chain
    <2>2. Chained(0)' = Chained(0) \cup {last}
      BY <1>0, <1>3, <2>1, LogGrows DEF AppendsLast
    <2>3. Chained(0) \in SUBSET AuditEvent
      BY <1>0 DEF StoreTypeOK, Chained
    <2>4. Zero \in Report /\ Zero.seq = 0 /\ Zero.hash = Genesis
      BY DEF Zero, Report, Genesis
    <2>5. Extends(Chained(0) \cup {last}, Zero, auditSequence + 1)
      <3> HIDE DEF last
      <3> QED BY <1>0, <2>1, <2>3, <2>4, ExtendsOne DEF ChainIsSound
    <2>6. \A e \in Chained(0) : e.seq # auditSequence + 1
      <3>1. {e.seq : e \in Chained(0)} = 1..auditSequence
        BY <2>4 DEF ChainIsSound, Extends
      <3> QED BY <1>0, <3>1
    <2>7. auditSequence' = auditSequence + 1 /\ auditHead' = last.hash
      BY <1>3 DEF AppendsLast
    <2> HIDE DEF last
    <2>8. Extends(Chained(0)', Zero, auditSequence')
      BY Zenon, <2>2, <2>5, <2>7
    <2>9. auditSequence' # 0
      BY <1>0, <2>7
    <2>10. \A e \in Chained(0)' : e.seq = auditSequence' => auditHead' = e.hash
      BY <2>2, <2>6, <2>7
    <2> QED BY <2>8, <2>9, <2>10 DEF ChainIsSound
  <1> QED BY <1>1, <1>2, <1>3, TrailEffect

\* An empty chain is sound.
LEMMA ChainInit == Init => ChainIsSound
  <1> SUFFICES ASSUME Init PROVE ChainIsSound
    OBVIOUS
  <1>1. Chained(0) = {}
    BY DEF Init, StoreInit, Chained
  <1>2. Zero.seq = 0
    BY DEF Zero
  <1>3. {e.seq : e \in {}} = (0 + 1)..0
    OBVIOUS
  <1>4. Extends({}, Zero, 0)
    BY <1>2, <1>3 DEF Extends
  <1> QED BY Zenon, <1>1, <1>4 DEF Init, StoreInit, ChainIsSound

\* The chained events number 1 to auditSequence, each extends the one before,
\* and the head is the last, for any number of commits, rejections and
\* failures (commitAudit).
THEOREM ChainSound == Spec => []ChainIsSound
  <1>1. TypeOK /\ ChainIsSound /\ [Next]_vars => ChainIsSound'
    BY ChainStep
  <1> QED BY <1>1, ChainInit, TrailTyping, PTL DEF Spec

-----------------------------------------------------------------------------
(* The verification.                                                       *)

\* A sequence number with the hash the chain has there.
OnChain(r) ==
    /\ r.seq <= auditSequence
    /\ r.seq = 0 => r.hash = Genesis
    /\ r.seq # 0 => \E e \in Chained(0) : e.seq = r.seq /\ e.hash = r.hash

\* Reports stay on the chain, and a scan under way ended where the chain did.
VerifierInv ==
    /\ \A r \in reports : OnChain(r)
    /\ \A p \in Requests : call[p].pc = "scanned" =>
          call[p].seq = call[p].seen /\ OnChain([seq |-> call[p].seq, hash |-> call[p].hash])
    /\ AccusesOnlyRacing

Points(from) == {from} \cup {[seq |-> e.seq, hash |-> e.hash] : e \in Chained(from.seq)}

\* From a point of a sound chain the loop reaches the end of the chain and can
\* stop nowhere else.
LEMMA ScanReaches ==
  ASSUME TypeOK, ChainIsSound, NEW from \in Report, OnChain(from)
  PROVE  /\ \E r \in Points(from) : Extends(Chained(from.seq), from, r.seq)
         /\ \A r \in Points(from) : Extends(Chained(from.seq), from, r.seq) =>
                r.seq = auditSequence /\ OnChain(r)
  <1> DEFINE events == Chained(from.seq)
             all == Chained(0)
  <1>0. /\ from.seq \in Nat /\ auditSequence \in Nat /\ from.seq <= auditSequence
        /\ Zero.seq = 0 /\ Zero.hash = Genesis
    BY DEF TypeOK, StoreTypeOK, Report, OnChain, Zero
  <1>a. \A e \in {audits[i] : i \in DOMAIN audits} : e \in AuditEvent
    BY DEF TypeOK, StoreTypeOK
  <1>b. \A e \in {audits[i] : i \in DOMAIN audits} : e.seq \in Nat
    BY <1>a DEF AuditEvent
  <1>1. \A e \in all : e.seq \in Nat
    BY <1>b DEF Chained
  <1>2. events = {e \in all : e.seq > from.seq}
    BY <1>0, <1>b DEF Chained
  <1>3. {e.seq : e \in all} = 1..auditSequence
    BY <1>0 DEF ChainIsSound, Extends
  <1>4. {e.seq : e \in events} = (from.seq + 1)..auditSequence
    <2>1. \A n \in (from.seq + 1)..auditSequence : \E e \in events : e.seq = n
      <3> SUFFICES ASSUME NEW n \in (from.seq + 1)..auditSequence
                   PROVE  \E e \in events : e.seq = n
        OBVIOUS
      <3>1. n \in 1..auditSequence /\ n > from.seq
        BY <1>0
      <3>2. PICK e \in all : e.seq = n
        BY <1>3, <3>1
      <3> QED BY <1>2, <3>1, <3>2
    <2>2. \A e \in events : e.seq \in (from.seq + 1)..auditSequence
      BY <1>0, <1>1, <1>2, <1>3
    <2> QED BY <2>1, <2>2
  <1>5. ASSUME NEW e \in events, e.seq = from.seq + 1
        PROVE  e.prev = from.hash
    <2>1. e \in all
      BY <1>2
    <2>2. CASE from.seq = 0
      BY <1>0, <1>5, <2>1, <2>2 DEF ChainIsSound, Extends, OnChain
    <2>3. CASE from.seq # 0
      <3>1. PICK f \in all : f.seq = from.seq /\ f.hash = from.hash
        BY <2>3 DEF OnChain
      <3> QED BY <1>5, <2>1, <3>1 DEF ChainIsSound, Extends
    <2> QED BY <2>2, <2>3
  <1>6. Extends(events, from, auditSequence)
    <2>1. \A e, f \in events : e.seq = f.seq => e = f
      BY <1>2 DEF ChainIsSound, Extends
    <2>2. \A e \in events : /\ e.hash = ComputeAuditHash(e.prev, e)
                            /\ \A f \in events : f.seq = e.seq + 1 => f.prev = e.hash
      BY <1>2 DEF ChainIsSound, Extends
    <2> HIDE DEF events
    <2> QED BY <1>4, <1>5, <2>1, <2>2 DEF Extends
  <1>7. \E r \in Points(from) : r.seq = auditSequence
    <2>1. CASE from.seq = auditSequence
      BY <2>1 DEF Points
    <2>2. CASE from.seq # auditSequence
      <3>1. auditSequence \in (from.seq + 1)..auditSequence
        BY <1>0, <2>2
      <3>2. PICK e \in events : e.seq = auditSequence
        BY <1>4, <3>1
      <3>3. [seq |-> e.seq, hash |-> e.hash] \in Points(from)
        BY DEF Points
      <3> QED BY <3>2, <3>3
    <2> QED BY <2>1, <2>2
  <1>8. ASSUME NEW r \in Points(from), Extends(events, from, r.seq)
        PROVE  r.seq = auditSequence
    <2>1. (from.seq + 1)..r.seq = (from.seq + 1)..auditSequence
      BY Zenon, <1>4, <1>8 DEF Extends
    <2>2. r.seq \in Nat /\ r.seq >= from.seq
      BY <1>0, <1>1, <1>2 DEF Points
    <2>3. r.seq >= from.seq + 1 => r.seq \in (from.seq + 1)..auditSequence
      BY <1>0, <2>1, <2>2
    <2>4. auditSequence >= from.seq + 1 => auditSequence \in (from.seq + 1)..r.seq
      BY <1>0, <2>1, <2>2
    <2> QED BY <1>0, <2>2, <2>3, <2>4
  <1>9. ASSUME NEW r \in Points(from)
        PROVE  OnChain(r)
    <2>1. CASE r = from
      BY <2>1
    <2>2. CASE r # from
      <3>1. PICK e \in events : r = [seq |-> e.seq, hash |-> e.hash]
        BY <2>2 DEF Points
      <3>2. e \in all /\ e.seq \in Nat /\ e.seq > from.seq /\ e.seq <= auditSequence
        BY <1>0, <1>1, <1>2, <1>3
      <3> QED BY <1>0, <3>1, <3>2 DEF OnChain
    <2> QED BY <2>1, <2>2
  <1> QED BY <1>6, <1>7, <1>8, <1>9

\* The chain only grows, so a point on it stays on it.
LEMMA OnChainStays ==
  ASSUME TypeOK, [Next]_vars, NEW r, r.seq \in Nat, OnChain(r)
  PROVE  OnChain(r)'
  <1>0. StoreTypeOK /\ auditSequence \in Nat
    BY DEF TypeOK, StoreTypeOK
  <1>1. CASE UNCHANGED trail
    BY <1>1 DEF trail, OnChain, Chained
  <1>2. ASSUME NEW c \in Commit, AppendsLone(c) \/ AppendsLast(c)
        PROVE  OnChain(r)'
    <2>1. Chained(0) \subseteq Chained(0)'
      <3>1. \A e \in AuditEvent : audits' = Append(audits, e) => Chained(0) \subseteq Chained(0)'
        BY <1>0, LogGrows
      <3> QED BY <1>0, <1>2, <3>1, EventType DEF AppendsLone, AppendsLast
    <2>2. auditSequence' \in Nat /\ auditSequence' >= auditSequence
      BY <1>0, <1>2 DEF AppendsLone, AppendsLast
    <2> QED BY <1>0, <2>1, <2>2 DEF OnChain
  <1> QED BY <1>1, <1>2, TrailEffect

\* No call reached a stage of the verification.
Quiet ==
    /\ \A q \in Requests : \/ call'[q] = call[q]
                           \/ call'[q].pc \notin {"scanned", "compromised"}
    /\ reports' = reports

\* A step outside the verification is quiet.
LEMMA OtherCalls ==
  ASSUME TypeOK, [Next]_vars, \A p \in Requests : ~Verify(p)
  PROVE  Quiet
  <1>0. call \in [Requests -> Call]
    BY DEF TypeOK
  <1>1. ASSUME NEW p \in Requests, NEW next, Goes(p, next),
               next.pc \notin {"scanned", "compromised"}, reports' = reports
        PROVE  Quiet
    BY <1>0, <1>1 DEF Goes, Quiet
  <1>2. ASSUME NEW p \in Requests, Passkeys(p)
        PROVE  Quiet
    <2>1. CASE \E x \in issued : decodeContinuation(p, x)
      BY <1>1, <2>1 DEF decodeContinuation
    <2>2. CASE \E credential \in Credentials : FinishPasskeyRegistration(p, credential)
      BY <1>1, <2>2 DEF FinishPasskeyRegistration
    <2>3. CASE \E credential \in Credentials : FinishPasskeyAuthentication(p, credential)
      BY <1>1, <2>3 DEF FinishPasskeyAuthentication
    <2>4. CASE FailPasskey(p) \/ \E k \in tables.passkeys : RemovePasskey(p, k.id)
      BY Zenon, <1>1, <2>4 DEF FailPasskey, RemovePasskey
    <2> QED BY <1>2, <2>1, <2>2, <2>3, <2>4 DEF Passkeys
  <1>3. ASSUME NEW p \in Requests, Clients(p)
        PROVE  Quiet
    <2>1. CASE RegisterOAuthClient(p)
      BY <1>1, <2>1 DEF RegisterOAuthClient
    <2>2. CASE \E url \in ClientURLs : OAuthClientByClientID(p, url)
      BY <1>1, <2>2 DEF OAuthClientByClientID
    <2>3. CASE resolveOAuthClient(p)
      BY <1>1, <2>3 DEF resolveOAuthClient
    <2>4. CASE emitOAuthCIMDRejected(p) \/ recordUnknownPATRejection(p)
      BY <1>1, <2>4 DEF emitOAuthCIMDRejected, recordUnknownPATRejection
    <2> QED BY <1>3, <2>1, <2>2, <2>3, <2>4 DEF Clients
  <1>5. ASSUME NEW p \in Requests, Transact(p) \/ Abandon(p)
        PROVE  Quiet
    BY <1>1, <1>5 DEF Transact, Abandon, Idle
  <1>4. CASE (\E kind \in Kinds : BeginPasskeyCeremony(kind)) \/ Tick \/ UNCHANGED vars
    BY <1>4 DEF BeginPasskeyCeremony, Tick, vars, Quiet
  <1> QED BY <1>2, <1>3, <1>4, <1>5 DEF Next

\* A step keeps the reports and the scans on the chain.
LEMMA VerifierStep ==
  ASSUME TypeOK, ChainIsSound, VerifierInv, [Next]_vars
  PROVE  VerifierInv'
  <1>0. /\ call \in [Requests -> Call] /\ auditSequence \in Nat
        /\ \A r \in reports : r \in Report /\ r.seq \in Nat
        /\ \A q \in Requests : call[q].pc = "scanned" => call[q].seq \in Nat
    BY CallShape DEF TypeOK, StoreTypeOK, Report, Scanned
  <1>1. \A r \in reports : OnChain(r)'
    BY <1>0, OnChainStays DEF VerifierInv
  <1>2. ASSUME NEW q \in Requests, call[q].pc = "scanned"
        PROVE  \A r \in Report : r.seq = call[q].seq /\ r.hash = call[q].hash => OnChain(r)'
    <2> SUFFICES ASSUME NEW r \in Report, r.seq = call[q].seq, r.hash = call[q].hash
                 PROVE  OnChain(r)'
      OBVIOUS
    <2>1. r = [seq |-> call[q].seq, hash |-> call[q].hash] /\ r.seq \in Nat
      BY DEF Report
    <2>2. OnChain(r)
      BY <1>2, <2>1 DEF VerifierInv
    <2> QED BY <2>1, <2>2, OnChainStays
  <1>3. ASSUME NEW q \in Requests, call[q].pc = "scanned", call'[q] = call[q]
        PROVE  OnChain([seq |-> call[q].seq, hash |-> call[q].hash])'
    <2>1. [seq |-> call[q].seq, hash |-> call[q].hash] \in Report
      BY <1>3, CallShape DEF Scanned, Report
    <2>2. PICK r \in Report : r = [seq |-> call[q].seq, hash |-> call[q].hash]
      BY <2>1
    <2>3. OnChain(r)'
      BY <1>2, <1>3, <2>2
    <2> QED BY <1>3, <2>2, <2>3 DEF OnChain
  <1>4. CASE Quiet
    <2>1. \A r \in reports' : OnChain(r)'
      BY <1>1, <1>4 DEF Quiet
    <2>2. ASSUME NEW q \in Requests, call'[q].pc = "scanned"
          PROVE  /\ call'[q].seq = call'[q].seen
                 /\ OnChain([seq |-> call[q].seq, hash |-> call[q].hash])'
      <3>1. call'[q] = call[q]
        BY <1>4, <2>2 DEF Quiet
      <3> QED BY <1>3, <2>2, <3>1 DEF VerifierInv
    <2>3. AccusesOnlyRacing'
      BY <1>4 DEF Quiet, VerifierInv, AccusesOnlyRacing
    <2> QED BY <2>1, <2>2, <2>3 DEF VerifierInv
  <1>5. ASSUME NEW p \in Requests, NEW from \in reports \cup {Zero}, ScanChain(p, from)
        PROVE  VerifierInv'
    <2>1. from \in Report
      BY ScanType
    <2>2. OnChain(from)
      <3>1. OnChain(Zero)
        BY <1>0 DEF OnChain, Zero
      <3> QED BY <3>1 DEF VerifierInv
    <2>3. PICK r \in Points(from) :
             /\ Extends(Chained(from.seq), from, r.seq)
             /\ Goes(p, [pc |-> "scanned", seq |-> r.seq, hash |-> r.hash,
                         seen |-> auditSequence])
      BY <1>5, <2>1, <2>2, ScanReaches DEF ScanChain, Points
    <2>4. r.seq = auditSequence /\ OnChain(r)
      BY <2>1, <2>2, <2>3, ScanReaches
    <2>5. call' = [call EXCEPT ![p] = [pc |-> "scanned", seq |-> r.seq, hash |-> r.hash,
                                       seen |-> auditSequence]]
      BY <2>3 DEF Goes
    <2>6. UNCHANGED trail /\ reports' = reports
      BY ZenonT(40), <1>5 DEF ScanChain, storeVars
    <2>7. \A x : OnChain(x) => OnChain(x)'
      BY <2>6 DEF trail, OnChain, Chained
    <2>8. ASSUME NEW q \in Requests, call'[q].pc = "scanned"
          PROVE  /\ call'[q].seq = call'[q].seen
                 /\ OnChain([seq |-> call[q].seq, hash |-> call[q].hash])'
      <3>1. CASE q = p
        <4>1. call'[q].seq = r.seq /\ call'[q].hash = r.hash /\ call'[q].seen = auditSequence
          BY <1>0, <2>5, <3>1
        <4>2. OnChain(r)'
          BY <2>4, <2>7
        <4> QED BY <2>4, <4>1, <4>2 DEF OnChain
      <3>2. CASE q # p
        <4>1. call'[q] = call[q]
          BY <1>0, <2>5, <3>2
        <4> QED BY <1>3, <2>8, <4>1 DEF VerifierInv
      <3> QED BY <3>1, <3>2
    <2>9. AccusesOnlyRacing'
      BY <1>0, <2>5 DEF VerifierInv, AccusesOnlyRacing
    <2> QED BY <1>1, <2>6, <2>8, <2>9 DEF VerifierInv
  <1>6. ASSUME NEW p \in Requests, CompareHead(p)
        PROVE  VerifierInv'
    <2>1. /\ call[p].seq = call[p].seen
          /\ OnChain([seq |-> call[p].seq, hash |-> call[p].hash])
      BY <1>6 DEF CompareHead, VerifierInv
    <2>2. auditSequence = call[p].seq => auditHead = call[p].hash
      BY <1>0, <2>1 DEF OnChain, ChainIsSound
    <2>3. OnChain([seq |-> auditSequence, hash |-> auditHead])
      <3>1. auditSequence # 0 => \E e \in Chained(0) : e.seq = auditSequence
        <4>1. {e.seq : e \in Chained(0)} = 1..auditSequence
          BY DEF ChainIsSound, Extends, Zero
        <4> QED BY <1>0, <4>1
      <3> QED BY <1>0, <3>1 DEF OnChain, ChainIsSound
    <2>4. UNCHANGED trail
      BY <1>6 DEF CompareHead, storeVars
    <2>5. \A r \in reports' : OnChain(r)'
      <3>1. OnChain([seq |-> auditSequence, hash |-> auditHead])'
        BY <2>3, <2>4 DEF OnChain, Chained, trail
      <3> QED BY <1>1, <1>6, <2>4, <3>1 DEF CompareHead, trail
    <2>6. PICK pc \in {"verified", "compromised"} :
             /\ Goes(p, [pc |-> pc, seen |-> call[p].seen, head |-> auditSequence])
             /\ pc = "compromised" => auditSequence # call[p].seen
      BY <1>6, <2>1, <2>2 DEF CompareHead
    <2>7. ASSUME NEW q \in Requests, call'[q].pc = "scanned"
          PROVE  /\ call'[q].seq = call'[q].seen
                 /\ OnChain([seq |-> call[q].seq, hash |-> call[q].hash])'
      <3>1. call'[q] = call[q]
        BY <1>0, <2>6, <2>7 DEF Goes
      <3> QED BY <1>3, <2>7, <3>1 DEF VerifierInv
    <2>8. AccusesOnlyRacing'
      BY <1>0, <2>6 DEF Goes, VerifierInv, AccusesOnlyRacing
    <2> QED BY <2>5, <2>7, <2>8 DEF VerifierInv
  <1>7. ASSUME NEW p \in Requests, Return(p)
        PROVE  Quiet
    BY <1>0, <1>7 DEF Return, Goes, Idle, Quiet
  <1>8. CASE \E p \in Requests : Verify(p)
    BY <1>4, <1>5, <1>6, <1>7, <1>8 DEF Verify
  <1> QED BY <1>4, <1>8, OtherCalls

\* No verification is under way at first.
LEMMA VerifierInit == Init => VerifierInv
  BY DEF Init, VerifierInv, AccusesOnlyRacing, Idle

\* VerifyAuditChainFrom accuses an untouched log only when a chained commit
\* landed between its two reads, from any checkpoint it ever reported.
THEOREM AccusationsExplained == Spec => []AccusesOnlyRacing
  <1>1. TypeOK /\ ChainIsSound /\ VerifierInv /\ [Next]_vars => VerifierInv'
    BY VerifierStep
  <1>2. VerifierInv => AccusesOnlyRacing
    BY DEF VerifierInv
  <1> QED BY <1>1, <1>2, VerifierInit, TrailTyping, ChainSound, PTL DEF Spec

-----------------------------------------------------------------------------
(* The tables and the trail.                                               *)

IsSaving(p) == call[p].pc = "SavePasskey"

\* The row of a call is the subject of its event, and the identifier of a
\* passkey about to be saved is new to the trail and to every other call.
RowsAreFresh ==
    /\ Named("passkey.delete") \subseteq Named("passkey.create")
    /\ \A n \in Named("passkey.create") : n <= lastID
    /\ \A p \in Requests :
          IsSaving(p) => /\ call[p].row.id = call[p].commit.subject
                         /\ call[p].row.id <= lastID
                         /\ call[p].row.id \notin Named("passkey.create")
    /\ \A p, q \in Requests :
          IsSaving(p) /\ IsSaving(q) /\ p # q => call[p].row.id # call[q].row.id
    /\ \A p \in Requests : call[p].pc \in {"CreateOAuthClient", "UpsertOAuthCIMDClient"}
          => call[p].row.id = call[p].commit.subject

\* What the trail names after one more event.
LEMMA NamedGrows ==
  ASSUME StoreTypeOK, NEW c \in Commit, AppendsLone(c) \/ AppendsLast(c), NEW action
  PROVE  Named(action)' = Named(action) \cup (IF c.action = action THEN {c.subject} ELSE {})
  <1>1. PICK e \in AuditEvent : /\ audits' = Append(audits, e)
                                /\ e.action = c.action /\ e.subject = c.subject
    BY EventType DEF AppendsLone, AppendsLast, Lone, Last
  <1>2. audits \in Seq(AuditEvent)
    BY DEF StoreTypeOK
  <1>3. DOMAIN audits' = DOMAIN audits \cup {Len(audits) + 1}
    BY <1>1, <1>2
  <1>4. \A i \in DOMAIN audits : audits'[i] = audits[i]
    BY <1>1, <1>2
  <1>5. audits'[Len(audits) + 1] = e
    BY <1>1, <1>2
  <1> QED BY <1>1, <1>3, <1>4, <1>5 DEF Named

IDs(rows) == {k.id : k \in rows}

\* The three ways a transaction can end, as the trail and the tables see them.
LEMMA AttemptEffect ==
  ASSUME StoreTypeOK, NEW c \in Commit, NEW changed, Attempt(c, changed)
  PROVE  \/ /\ tables'.passkeys = tables.passkeys /\ tables'.clients = tables.clients
            /\ \A action : Named(action)' = Named(action)
         \/ /\ tables' = changed
            /\ \A action : Named(action)' =
                  Named(action) \cup (IF c.action = action THEN {c.subject} ELSE {})
  <1>1. CASE Replayed(c)
    BY <1>1 DEF Replayed, trail, Named
  <1>2. CASE Rejected(c)
    BY <1>2 DEF Rejected, trail, Named, snapshotLocked, StoreTypeOK
  <1>3. CASE Committed(c, changed)
    BY <1>3, AuditEffect, NamedGrows DEF Committed
  <1> QED BY <1>1, <1>2, <1>3 DEF Attempt

\* A transaction changes tables and trail alike.
LEMMA TransactMatches ==
  ASSUME TypeOK, TrailMatchesTables, RowsAreFresh, NEW p \in Requests, Store(p)
  PROVE  /\ TrailMatchesTables'
         /\ Named("passkey.delete")' \subseteq Named("passkey.create")'
         /\ \/ Named("passkey.create")' = Named("passkey.create")
            \/ /\ IsSaving(p)
               /\ Named("passkey.create")' = Named("passkey.create") \cup {call[p].row.id}
  <1> DEFINE c == call[p].commit
             row == call[p].row
             created == Named("passkey.create")
             deleted == Named("passkey.delete")
             clients == Named("oauth.client")
             Matches == /\ IDs(tables'.passkeys) = created' \ deleted'
                        /\ IDs(tables'.clients) = clients'
                        /\ deleted' \subseteq created'
                        /\ \/ created' = created
                           \/ IsSaving(p) /\ created' = created \cup {row.id}
  <1>0. /\ StoreTypeOK /\ IDs(tables.passkeys) = created \ deleted
        /\ IDs(tables.clients) = clients /\ deleted \subseteq created
    BY DEF TypeOK, TrailMatchesTables, RowsAreFresh, IDs
  <1> SUFFICES Matches
    BY DEF TrailMatchesTables, IDs
  <1>n. ASSUME /\ tables'.passkeys = tables.passkeys /\ tables'.clients = tables.clients
               /\ \A action : Named(action)' = Named(action)
        PROVE  Matches
    <2>1. created' = created /\ deleted' = deleted /\ clients' = clients
      BY <1>n
    <2> QED BY <1>0, <1>n, <2>1 DEF IsSaving
  <1>1. CASE call[p].pc = "SavePasskey" /\ SavePasskey(c, row)
    <2>1. c \in Commit /\ c.action = "passkey.create"
      BY <1>1, CallShape DEF Saving, Auditing
    <2>2. row.id = c.subject /\ row.id \notin created
      BY <1>1 DEF RowsAreFresh, IsSaving
    <2>3. ASSUME tables' = [tables EXCEPT !.passkeys = @ \cup {row}],
                 \A action : Named(action)' =
                    Named(action) \cup (IF c.action = action THEN {c.subject} ELSE {})
          PROVE  Matches
      <3>1. created' = created \cup {row.id} /\ deleted' = deleted /\ clients' = clients
        BY Zenon, <2>1, <2>2, <2>3
      <3>2. /\ tables'.passkeys = tables.passkeys \cup {row}
            /\ tables'.clients = tables.clients
        BY <1>0, <2>3 DEF StoreTypeOK
      <3>3. IDs(tables.passkeys \cup {row}) = IDs(tables.passkeys) \cup {row.id}
        BY DEF IDs
      <3>4. row.id \notin deleted
        BY <1>0, <2>2 DEF RowsAreFresh
      <3>5. IsSaving(p)
        BY <1>1 DEF IsSaving
      <3>6. /\ IDs(tables'.passkeys) = (created \ deleted) \cup {row.id}
            /\ IDs(tables'.clients) = clients
        BY <1>0, <3>2, <3>3
      <3>7. deleted \subseteq created
        BY <1>0
      <3> HIDE DEF created, deleted, clients, row
      <3> QED BY <3>1, <3>4, <3>5, <3>6, <3>7
    <2> QED BY <1>0, <1>1, <1>n, <2>1, <2>3, AttemptEffect DEF SavePasskey
  <1>2. CASE call[p].pc = "DeletePasskey" /\ DeletePasskey(c, c.subject)
    <2>1. c \in Commit /\ c.action = "passkey.delete"
      BY <1>2, CallShape DEF Deleting, Auditing
    <2>2. c.subject \in created \ deleted
      BY <1>0, <1>2 DEF DeletePasskey, IDs
    <2>3. ASSUME tables' = [tables EXCEPT !.passkeys = {k \in @ : k.id # c.subject}],
                 \A action : Named(action)' =
                    Named(action) \cup (IF c.action = action THEN {c.subject} ELSE {})
          PROVE  Matches
      <3>1. created' = created /\ deleted' = deleted \cup {c.subject} /\ clients' = clients
        BY ZenonT(40), <2>1, <2>3
      <3>2. /\ tables'.passkeys = {k \in tables.passkeys : k.id # c.subject}
            /\ tables'.clients = tables.clients
        BY <1>0, <2>3 DEF StoreTypeOK
      <3>3. IDs({k \in tables.passkeys : k.id # c.subject}) = IDs(tables.passkeys) \ {c.subject}
        BY DEF IDs
      <3> QED BY <1>0, <2>2, <3>1, <3>2, <3>3 DEF IsSaving
    <2> QED BY <1>0, <1>2, <1>n, <2>1, <2>3, AttemptEffect DEF DeletePasskey
  <1>3. ASSUME call[p].pc \in {"CreateOAuthClient", "UpsertOAuthCIMDClient"},
               NEW changed, Attempt(c, changed),
               changed.passkeys = tables.passkeys,
               IDs(changed.clients) = IDs(tables.clients) \cup {row.id}
        PROVE  Matches
    <2>1. c \in Commit /\ c.action = "oauth.client" /\ row.id = c.subject
      BY <1>3, CallShape DEF Registering, Auditing, RowsAreFresh
    <2>2. ASSUME tables' = changed,
                 \A action : Named(action)' =
                    Named(action) \cup (IF c.action = action THEN {c.subject} ELSE {})
          PROVE  Matches
      <3>1. created' = created /\ deleted' = deleted /\ clients' = clients \cup {row.id}
        BY Zenon, <2>1, <2>2
      <3> QED BY <1>0, <1>3, <2>2, <3>1 DEF IsSaving
    <2> QED BY <1>0, <1>3, <1>n, <2>1, <2>2, AttemptEffect
  <1>4. CASE call[p].pc = "CreateOAuthClient" /\ CreateOAuthClient(c, row)
    <2> DEFINE changed == [tables EXCEPT !.clients = @ \cup {row}, !.clientKeys = @ \cup {row}]
    <2>1. changed.passkeys = tables.passkeys /\ changed.clients = tables.clients \cup {row}
      BY <1>0 DEF StoreTypeOK
    <2>2. IDs(tables.clients \cup {row}) = IDs(tables.clients) \cup {row.id}
      BY DEF IDs
    <2>3. Attempt(c, changed)
      BY <1>4 DEF CreateOAuthClient
    <2> HIDE DEF changed
    <2> QED BY <1>3, <1>4, <2>1, <2>2, <2>3
  <1>5. CASE call[p].pc = "UpsertOAuthCIMDClient" /\ UpsertOAuthCIMDClient(c, row)
    <2> DEFINE changed == [tables EXCEPT
                              !.clients = {r \in @ : r.id # row.id} \cup {row},
                              !.clientKeys = {r \in @ : r.key # row.key} \cup {row}]
    <2>1. /\ changed.passkeys = tables.passkeys
          /\ changed.clients = {r \in tables.clients : r.id # row.id} \cup {row}
      BY <1>0 DEF StoreTypeOK
    <2>2. IDs({r \in tables.clients : r.id # row.id} \cup {row}) = IDs(tables.clients) \cup {row.id}
      BY DEF IDs
    <2>3. Attempt(c, changed)
      BY <1>5 DEF UpsertOAuthCIMDClient
    <2> HIDE DEF changed
    <2> QED BY <1>3, <1>5, <2>1, <2>2, <2>3
  <1>6. CASE \/ call[p].pc = "TouchPasskey" /\ TouchPasskey(c, call[p].credential)
             \/ call[p].pc = "AppendAudit" /\ AppendAudit(c)
    <2>1. c \in Commit /\ c.action = "other" /\ Attempt(c, tables)
      BY <1>6, CallShape DEF Touching, Appending, Auditing, TouchPasskey,
         AppendAudit
    <2>2. ASSUME tables' = tables,
                 \A action : Named(action)' =
                    Named(action) \cup (IF c.action = action THEN {c.subject} ELSE {})
          PROVE  Matches
      <3>1. created' = created /\ deleted' = deleted /\ clients' = clients
        BY Zenon, <2>1, <2>2
      <3> QED BY <1>0, <2>2, <3>1 DEF IsSaving
    <2> QED BY <1>0, <1>n, <2>1, <2>2, AttemptEffect
  <1> QED BY ZenonT(40), <1>1, <1>2, <1>4, <1>5, <1>6 DEF Store

\* The trail names identifiers.
LEMMA NamedType ==
  ASSUME TypeOK, NEW action, NEW n \in Named(action)
  PROVE  n \in Nat
  <1>1. PICK i \in DOMAIN audits : n = audits[i].subject
    BY DEF Named
  <1>2. audits[i] \in AuditEvent
    BY DEF TypeOK, StoreTypeOK
  <1> QED BY <1>1, <1>2 DEF AuditEvent

\* A call that goes to a stage that holds no row, with the trail unchanged.
LEMMA FreshStays ==
  ASSUME TypeOK, RowsAreFresh, UNCHANGED trail, lastID' \in Nat, lastID' >= lastID,
         \A q \in Requests : \/ call'[q] = call[q]
                             \/ call'[q].pc \notin {"SavePasskey", "CreateOAuthClient",
                                                    "UpsertOAuthCIMDClient"}
  PROVE  RowsAreFresh'
  <1>1. \A action : Named(action)' = Named(action)
    BY DEF trail, Named
  <1>2. \A n \in Named("passkey.create") : n \in Nat
    BY NamedType
  <1>3. \A p \in Requests : IsSaving(p) => call[p].row.id \in Nat
    BY CallShape DEF IsSaving, Saving, Passkey
  <1>4. lastID \in Nat
    BY DEF TypeOK
  <1>5. \A n \in Named("passkey.create") : n <= lastID'
    <2>1. \A n \in Named("passkey.create") : n <= lastID
      BY DEF RowsAreFresh
    <2> QED BY <1>2, <1>4, <2>1
  <1>6. \A p \in Requests :
          IsSaving(p)' => /\ call'[p] = call[p] /\ IsSaving(p)
                          /\ call[p].row.id <= lastID'
    BY <1>3, <1>4 DEF IsSaving, RowsAreFresh
  <1>7. /\ Named("passkey.create")' = Named("passkey.create")
        /\ Named("passkey.delete")' = Named("passkey.delete")
    BY <1>1
  <1>8. ASSUME NEW p \in Requests, IsSaving(p)'
        PROVE  /\ call'[p].row.id = call'[p].commit.subject
               /\ call'[p].row.id <= lastID'
               /\ call'[p].row.id \notin Named("passkey.create")
    BY <1>6, <1>8 DEF RowsAreFresh
  <1>9. \A p, q \in Requests :
          IsSaving(p)' /\ IsSaving(q)' /\ p # q => call'[p].row.id # call'[q].row.id
    BY <1>6 DEF RowsAreFresh
  <1>10. \A p \in Requests : call'[p].pc \in {"CreateOAuthClient", "UpsertOAuthCIMDClient"}
          => call'[p].row.id = call'[p].commit.subject
    BY DEF RowsAreFresh
  <1>11. Named("passkey.delete") \subseteq Named("passkey.create")
    BY DEF RowsAreFresh
  <1> QED BY <1>5, <1>7, <1>8, <1>9, <1>10, <1>11 DEF RowsAreFresh

\* A call that takes a new identifier for its row.
LEMMA FreshTaken ==
  ASSUME TypeOK, RowsAreFresh, UNCHANGED trail, NEW p \in Requests, NEW next,
         Goes(p, next), lastID' = lastID + 2,
         next.row.id = next.commit.subject, next.row.id = lastID + 1 \/ next.pc # "SavePasskey"
  PROVE  RowsAreFresh'
  <1>1. /\ Named("passkey.create")' = Named("passkey.create")
        /\ Named("passkey.delete")' = Named("passkey.delete")
    BY DEF trail, Named
  <1>2. \A n \in Named("passkey.create") : n \in Nat /\ n <= lastID
    BY NamedType DEF RowsAreFresh
  <1>3. \A q \in Requests : IsSaving(q) => call[q].row.id \in Nat /\ call[q].row.id <= lastID
    BY CallShape DEF IsSaving, Saving, Passkey, RowsAreFresh
  <1>4. lastID \in Nat /\ call \in [Requests -> Call]
    BY DEF TypeOK
  <1>5. call'[p] = next /\ \A q \in Requests : q # p => call'[q] = call[q]
    BY <1>4 DEF Goes
  <1>6. ASSUME NEW q \in Requests, IsSaving(q)'
        PROVE  /\ call'[q].row.id = call'[q].commit.subject
               /\ call'[q].row.id <= lastID'
               /\ call'[q].row.id \notin Named("passkey.create")
               /\ q # p => IsSaving(q) /\ call'[q].row.id <= lastID
               /\ q = p => call'[q].row.id = lastID + 1
               /\ call'[q].row.id \in Nat
    <2>1. CASE q = p
      BY <1>2, <1>4, <1>5, <1>6, <2>1 DEF IsSaving
    <2>2. CASE q # p
      <3>1. call'[q] = call[q] /\ IsSaving(q)
        BY <1>5, <1>6, <2>2 DEF IsSaving
      <3>2. /\ call[q].row.id = call[q].commit.subject
            /\ call[q].row.id \notin Named("passkey.create")
        BY <3>1 DEF RowsAreFresh
      <3>3. call[q].row.id \in Nat /\ call[q].row.id <= lastID
        BY <1>3, <3>1
      <3>4. call[q].row.id <= lastID'
        BY <1>4, <3>3
      <3> QED BY <2>2, <3>1, <3>2, <3>3, <3>4
    <2> QED BY <2>1, <2>2
  <1>7. ASSUME NEW q \in Requests, NEW r \in Requests, IsSaving(q)', IsSaving(r)', q # r
        PROVE  call'[q].row.id # call'[r].row.id
    <2>1. CASE q = p \/ r = p
      BY <1>4, <1>6, <1>7, <2>1
    <2>2. CASE q # p /\ r # p
      <3>1. IsSaving(q) /\ IsSaving(r) /\ call'[q] = call[q] /\ call'[r] = call[r]
        BY <1>5, <1>6, <1>7, <2>2
      <3> QED BY <1>7, <3>1 DEF RowsAreFresh
    <2> QED BY <2>1, <2>2
  <1>8. \A q \in Requests : call'[q].pc \in {"CreateOAuthClient", "UpsertOAuthCIMDClient"}
          => call'[q].row.id = call'[q].commit.subject
    BY <1>5 DEF RowsAreFresh
  <1>9. \A n \in Named("passkey.create") : n <= lastID'
    BY <1>2, <1>4
  <1> QED BY <1>1, <1>6, <1>7, <1>8, <1>9 DEF RowsAreFresh

\* A transaction that saves its row names an identifier no other call holds.
LEMMA FreshTransact ==
  ASSUME TypeOK, TrailMatchesTables, RowsAreFresh, NEW p \in Requests, Transact(p)
  PROVE  RowsAreFresh' /\ TrailMatchesTables'
  <1> DEFINE created == Named("passkey.create")
  <1>1. Store(p) /\ Goes(p, Idle) /\ lastID' = lastID
    BY DEF Transact
  <1>2. /\ TrailMatchesTables'
        /\ Named("passkey.delete")' \subseteq created'
        /\ \/ created' = created
           \/ IsSaving(p) /\ created' = created \cup {call[p].row.id}
    BY <1>1, TransactMatches
  <1>3. call \in [Requests -> Call]
    BY DEF TypeOK
  <1>4. call'[p] = Idle /\ \A q \in Requests : q # p => call'[q] = call[q]
    BY <1>1, <1>3 DEF Goes
  <1>5. \A n \in created' : n <= lastID'
    BY <1>1, <1>2 DEF RowsAreFresh
  <1>6. ASSUME NEW q \in Requests, IsSaving(q)'
        PROVE  q # p /\ IsSaving(q) /\ call'[q] = call[q] /\ call[q].row.id \notin created'
    <2>1. q # p
      BY <1>4, <1>6 DEF IsSaving, Idle
    <2>2. call'[q] = call[q] /\ IsSaving(q)
      BY <1>4, <1>6, <2>1 DEF IsSaving
    <2>3. call[q].row.id \notin created /\ (IsSaving(p) => call[p].row.id # call[q].row.id)
      BY <2>1, <2>2 DEF RowsAreFresh
    <2> QED BY <1>2, <2>1, <2>2, <2>3
  <1>7. \A q \in Requests : call'[q].pc \in {"CreateOAuthClient", "UpsertOAuthCIMDClient"}
          => call'[q] = call[q]
    BY <1>4 DEF Idle
  <1> HIDE DEF created
  <1>8. /\ \A q \in Requests : IsSaving(q)' =>
              /\ call'[q].row.id = call'[q].commit.subject
              /\ call'[q].row.id <= lastID' /\ call'[q].row.id \notin created'
        /\ \A q, r \in Requests : IsSaving(q)' /\ IsSaving(r)' /\ q # r =>
              call'[q].row.id # call'[r].row.id
        /\ \A q \in Requests : call'[q].pc \in {"CreateOAuthClient", "UpsertOAuthCIMDClient"}
              => call'[q].row.id = call'[q].commit.subject
    BY <1>1, <1>6, <1>7 DEF RowsAreFresh
  <1> QED BY <1>2, <1>5, <1>8 DEF RowsAreFresh, created

\* Every step keeps the tables and the trail in agreement.
LEMMA TrailStep ==
  ASSUME TypeOK, TrailMatchesTables, RowsAreFresh, [Next]_vars
  PROVE  TrailMatchesTables' /\ RowsAreFresh'
  <1> DEFINE Rowless == {"SavePasskey", "CreateOAuthClient", "UpsertOAuthCIMDClient"}
  <1>0. call \in [Requests -> Call] /\ lastID \in Nat /\ StoreTypeOK
    BY DEF TypeOK
  <1>u. UNCHANGED <<tables, trail>> => TrailMatchesTables'
    <2> SUFFICES ASSUME UNCHANGED <<tables, trail>> PROVE TrailMatchesTables'
      OBVIOUS
    <2>1. \A action : Named(action)' = Named(action)
      BY DEF Named, trail
    <2>2. /\ Named("passkey.create")' = Named("passkey.create")
          /\ Named("passkey.delete")' = Named("passkey.delete")
          /\ Named("oauth.client")' = Named("oauth.client")
      BY <2>1
    <2> QED BY <2>2 DEF TrailMatchesTables
  <1>s. ASSUME UNCHANGED <<tables, trail>>, NEW p \in Requests, NEW next, Goes(p, next),
               next.pc \notin Rowless, lastID' \in {lastID, lastID + 1}
        PROVE  TrailMatchesTables' /\ RowsAreFresh'
    <2>1. \A q \in Requests : call'[q] = call[q] \/ call'[q].pc \notin Rowless
      BY <1>0, <1>s DEF Goes
    <2> QED BY <1>0, <1>s, <1>u, <2>1, FreshStays
  <1>r. ASSUME UNCHANGED <<tables, trail>>, NEW p \in Requests, NEW next, Goes(p, next),
               lastID' = lastID + 2, next.row.id = next.commit.subject,
               next.row.id = lastID + 1 \/ next.pc # "SavePasskey"
        PROVE  TrailMatchesTables' /\ RowsAreFresh'
    BY <1>r, <1>u, FreshTaken
  <1>1. ASSUME NEW p \in Requests, Passkeys(p)
        PROVE  TrailMatchesTables' /\ RowsAreFresh'
    <2>1. CASE \E x \in issued : decodeContinuation(p, x)
      BY <1>s, <2>1 DEF decodeContinuation, storeVars
    <2>2. CASE \E credential \in Credentials : FinishPasskeyRegistration(p, credential)
      <3>1. PICK credential \in Credentials : FinishPasskeyRegistration(p, credential)
        BY <2>2
      <3> DEFINE c == Consuming(transactionalCommit(
                          newAudit(lastID + 2, "passkey.create", lastID + 1)),
                          call[p].continuation)
                 next == [pc |-> "SavePasskey", commit |-> c,
                          row |-> [id |-> lastID + 1, credential |-> credential]]
      <3>2. c.subject = lastID + 1
        BY DEF Consuming, transactionalCommit, newAudit
      <3>3. /\ Goes(p, next) /\ lastID' = lastID + 2 /\ UNCHANGED <<tables, trail>>
        BY <3>1 DEF FinishPasskeyRegistration, storeVars
      <3>4. next.row.id = next.commit.subject /\ next.row.id = lastID + 1
        BY <3>2
      <3> HIDE DEF next
      <3> QED BY Zenon, <1>r, <3>3, <3>4
    <2>3. CASE \E credential \in Credentials : FinishPasskeyAuthentication(p, credential)
      BY <1>s, <2>3 DEF FinishPasskeyAuthentication, storeVars
    <2>4. CASE FailPasskey(p) \/ \E k \in tables.passkeys : RemovePasskey(p, k.id)
      BY Zenon, <1>s, <2>4 DEF FailPasskey, RemovePasskey, storeVars
    <2> QED BY <1>1, <2>1, <2>2, <2>3, <2>4 DEF Passkeys
  <1>2. ASSUME NEW p \in Requests, Clients(p)
        PROVE  TrailMatchesTables' /\ RowsAreFresh'
    <2>1. CASE RegisterOAuthClient(p)
      <3> DEFINE c == transactionalCommit(newAudit(lastID + 2, "oauth.client", lastID + 1))
                 next == [pc |-> "CreateOAuthClient", commit |-> c,
                          row |-> [id |-> lastID + 1, key |-> lastID + 1]]
      <3>1. c.subject = lastID + 1
        BY DEF transactionalCommit, newAudit
      <3>2. /\ Goes(p, next) /\ lastID' = lastID + 2 /\ UNCHANGED <<tables, trail>>
        BY <2>1 DEF RegisterOAuthClient, storeVars
      <3>3. next.row.id = next.commit.subject /\ next.pc # "SavePasskey"
        BY <3>1
      <3> HIDE DEF next
      <3> QED BY <1>r, <3>2, <3>3
    <2>2. CASE \E url \in ClientURLs : OAuthClientByClientID(p, url)
      BY <1>s, <2>2 DEF OAuthClientByClientID, storeVars
    <2>3. CASE resolveOAuthClient(p)
      <3>1. PICK id : Goes(p, [pc |-> "UpsertOAuthCIMDClient",
                     commit |-> transactionalCommit(newAudit(lastID + 2, "oauth.client", id)),
                     row |-> [id |-> id, key |-> call[p].url]])
        BY <2>3 DEF resolveOAuthClient
      <3> DEFINE c == transactionalCommit(newAudit(lastID + 2, "oauth.client", id))
                 next == [pc |-> "UpsertOAuthCIMDClient", commit |-> c,
                          row |-> [id |-> id, key |-> call[p].url]]
      <3>2. c.subject = id
        BY DEF transactionalCommit, newAudit
      <3>3. /\ Goes(p, next) /\ lastID' = lastID + 2 /\ UNCHANGED <<tables, trail>>
        BY <2>3, <3>1 DEF resolveOAuthClient, storeVars
      <3>4. next.row.id = next.commit.subject /\ next.pc # "SavePasskey"
        BY <3>2
      <3> HIDE DEF next
      <3> QED BY <1>r, <3>3, <3>4
    <2>4. CASE emitOAuthCIMDRejected(p) \/ recordUnknownPATRejection(p)
      BY <1>s, <2>4 DEF emitOAuthCIMDRejected, recordUnknownPATRejection,
         storeVars
    <2> QED BY <1>2, <2>1, <2>2, <2>3, <2>4 DEF Clients
  <1>3. ASSUME NEW p \in Requests, Verify(p)
        PROVE  TrailMatchesTables' /\ RowsAreFresh'
    BY Zenon, <1>3, <1>s DEF Verify, ScanChain, CompareHead, Return, Idle,
       storeVars
  <1>4. ASSUME NEW p \in Requests, Abandon(p)
        PROVE  TrailMatchesTables' /\ RowsAreFresh'
    BY Zenon, <1>4, <1>s DEF Abandon, Idle, storeVars
  <1>5. CASE (\E kind \in Kinds : BeginPasskeyCeremony(kind)) \/ Tick \/ UNCHANGED vars
    <2>1. /\ UNCHANGED <<tables, trail, call>> /\ lastID' \in {lastID, lastID + 1}
      BY <1>5 DEF BeginPasskeyCeremony, Tick, vars, storeVars
    <2> QED BY <1>0, <1>u, <2>1, FreshStays
  <1> QED BY <1>1, <1>2, <1>3, <1>4, <1>5, FreshTransact DEF Next

\* The first state has neither rows nor events.
LEMMA TrailStart == Init => TrailMatchesTables /\ RowsAreFresh
  <1> SUFFICES ASSUME Init PROVE TrailMatchesTables /\ RowsAreFresh
    OBVIOUS
  <1>1. \A action : Named(action) = {}
    BY DEF Init, StoreInit, Named
  <1>2. /\ Named("passkey.create") = {} /\ Named("passkey.delete") = {}
        /\ Named("oauth.client") = {}
    BY <1>1
  <1> QED BY <1>2 DEF Init, StoreInit, TrailMatchesTables, RowsAreFresh,
             IsSaving, Idle

\* The stored passkeys and clients are the ones the audit trail accounts for:
\* every commit leaves its mutation and its event, or neither, and no rejected
\* or replayed one leaves a row (finishCommitLocked).
THEOREM AllOrNothing == Spec => []TrailMatchesTables
  <1>1. TypeOK /\ TrailMatchesTables /\ RowsAreFresh /\ [Next]_vars
           => TrailMatchesTables' /\ RowsAreFresh'
    BY TrailStep
  <1> QED BY <1>1, TrailStart, TrailTyping, PTL DEF Spec

-----------------------------------------------------------------------------
(* The ceremonies.                                                         *)

CommitPCs == {"SavePasskey", "TouchPasskey", "DeletePasskey", "CreateOAuthClient",
              "UpsertOAuthCIMDClient", "AppendAudit"}

\* The call is about to present a ceremony to the store.
Presents(p) == call[p].pc \in CommitPCs /\ call[p].commit.ceremony.id # NoCeremony

\* A ceremony has one expiry, a commit was stamped in the past, and a spent
\* ceremony is remembered for as long as it lasts.
CeremonyInv ==
    /\ \A x \in issued : x.id <= lastID
    /\ \A x, y \in issued : x.id = y.id => x = y
    /\ \A p \in Requests : call[p].pc = "decoded" => call[p].continuation \in issued
    /\ \A p \in Requests : Presents(p) =>
          /\ call[p].commit.at <= clock
          /\ \E x \in issued : /\ x.id = call[p].commit.ceremony.id
                                /\ x.expires = call[p].commit.ceremony.expires
    /\ \A s \in spent :
          /\ \E x \in issued : x.id = s.id /\ x.expires = s.expires
          /\ clock <= s.expires => [id |-> s.id, expires |-> s.expires] \in ceremonies
    /\ SpentWhileItLasts

\* A call that moves on without presenting a ceremony.
LEMMA CeremonyStays ==
  ASSUME TypeOK, CeremonyInv, UNCHANGED <<ceremonies, spent, issued>>,
         lastID' \in Nat, lastID' >= lastID, clock' \in Nat, clock' >= clock,
         \A q \in Requests :
            \/ call'[q] = call[q]
            \/ /\ call'[q].pc = "decoded" => call'[q].continuation \in issued
               /\ call'[q].pc \in CommitPCs =>
                     \/ call'[q].commit.ceremony.id = NoCeremony
                     \/ /\ call'[q].commit.at = clock
                        /\ \E x \in issued : /\ x.id = call'[q].commit.ceremony.id
                                              /\ x.expires = call'[q].commit.ceremony.expires
  PROVE  CeremonyInv'
  <1>0. /\ clock \in Nat /\ lastID \in Nat
        /\ \A x \in issued : x.id \in Nat
        /\ \A s \in spent : s.expires \in Nat
    BY DEF TypeOK, Continuation
  <1>1. \A x \in issued' : x.id <= lastID'
    <2>1. \A x \in issued : x.id <= lastID
      BY DEF CeremonyInv
    <2> QED BY <1>0, <2>1
  <1>2. \A x, y \in issued' : x.id = y.id => x = y
    BY DEF CeremonyInv
  <1>3. \A q \in Requests : call'[q].pc = "decoded" => call'[q].continuation \in issued'
    BY DEF CeremonyInv
  <1>c. \A q \in Requests : call[q].pc \in CommitPCs => call[q].commit \in Commit
    BY CallShape DEF CommitPCs, Saving, Touching, Deleting, Registering,
       Appending, Auditing
  <1>4. ASSUME NEW q \in Requests, Presents(q)'
        PROVE  /\ call'[q].commit.at <= clock'
               /\ \E x \in issued' : /\ x.id = call'[q].commit.ceremony.id
                                      /\ x.expires = call'[q].commit.ceremony.expires
    <2>1. call'[q].pc \in CommitPCs /\ call'[q].commit.ceremony.id # NoCeremony
      BY <1>4 DEF Presents
    <2>2. CASE call'[q] = call[q]
      <3>1. Presents(q)
        BY <2>1, <2>2 DEF Presents
      <3>2. call[q].commit.at \in Nat
        BY <1>c, <3>1 DEF Presents, Commit
      <3>3. /\ call[q].commit.at <= clock
            /\ \E x \in issued : /\ x.id = call[q].commit.ceremony.id
                                  /\ x.expires = call[q].commit.ceremony.expires
        BY <3>1 DEF CeremonyInv
      <3> QED BY <1>0, <2>2, <3>2, <3>3
    <2>3. CASE call'[q] # call[q]
      BY <1>0, <2>1, <2>3
    <2> QED BY <2>2, <2>3
  <1>5. ASSUME NEW s \in spent
        PROVE  /\ \E x \in issued : x.id = s.id /\ x.expires = s.expires
               /\ clock' <= s.expires => [id |-> s.id, expires |-> s.expires] \in ceremonies
    <2>1. /\ \E x \in issued : x.id = s.id /\ x.expires = s.expires
          /\ clock <= s.expires => [id |-> s.id, expires |-> s.expires] \in ceremonies
      BY <1>5 DEF CeremonyInv
    <2>2. clock' <= s.expires => clock <= s.expires
      BY <1>0, <1>5
    <2> QED BY <2>1, <2>2
  <1>6. SpentWhileItLasts'
    BY DEF CeremonyInv, SpentWhileItLasts
  <1> QED BY <1>1, <1>2, <1>3, <1>4, <1>5, <1>6 DEF CeremonyInv

\* What a transaction does to the ceremonies.
LEMMA CeremonyEffect ==
  ASSUME NEW p \in Requests, Store(p)
  PROVE  \/ ceremonies' = Remembered(call[p].commit.at) /\ Used(call[p].commit)
         \/ ceremonies' = Burned(call[p].commit) /\ ~Used(call[p].commit)
  <1>1. \E changed : Attempt(call[p].commit, changed)
    BY Zenon DEF Store, SavePasskey, TouchPasskey, DeletePasskey,
       CreateOAuthClient,
                 UpsertOAuthCIMDClient, AppendAudit
  <1> QED BY <1>1 DEF Attempt, Replayed, Rejected, Committed

\* A transaction spends its ceremony once.
LEMMA CeremonyTransact ==
  ASSUME TypeOK, CeremonyInv, NEW p \in Requests, Transact(p)
  PROVE  CeremonyInv'
  <1> DEFINE c == call[p].commit
             mark == [id |-> c.ceremony.id, audit |-> c.id, at |-> clock,
                      expires |-> c.ceremony.expires]
             Fresh == c.ceremony.id # NoCeremony /\ ~Used(c)
  <1>0. /\ Store(p) /\ c \in Commit /\ call[p].pc \in CommitPCs
        /\ Goes(p, Idle) /\ UNCHANGED <<clock, lastID, issued>>
        /\ spent' = Spending(c)
    BY ZenonT(40), HeldCommit DEF Transact, Store, CommitPCs
  <1>1. /\ c.id \in Nat /\ c.at \in Nat /\ c.ceremony \in Ceremony
        /\ c.ceremony.id \in Nat /\ c.ceremony.expires \in Nat
        /\ c.ceremony = [id |-> c.ceremony.id, expires |-> c.ceremony.expires]
        /\ clock \in Nat
        /\ \A s \in spent : s.id \in Nat /\ s.expires \in Nat /\ s.at \in Nat
    BY Zenon, <1>0 DEF Commit, Ceremony, TypeOK
  <1>2. c.ceremony.id # NoCeremony => Presents(p)
    BY <1>0 DEF Presents
  <1>3. c.ceremony.id # NoCeremony =>
          /\ c.at <= clock
          /\ \E x \in issued : x.id = c.ceremony.id /\ x.expires = c.ceremony.expires
    BY <1>2 DEF CeremonyInv
  <1>4. spent' = spent \cup (IF Fresh THEN {mark} ELSE {})
    BY <1>0 DEF Spending
  <1>5. ASSUME NEW s \in spent, clock <= s.expires, c.ceremony.id # NoCeremony
        PROVE  [id |-> s.id, expires |-> s.expires] \in Remembered(c.at)
    <2>1. [id |-> s.id, expires |-> s.expires] \in ceremonies
      BY <1>5 DEF CeremonyInv
    <2>a. c.at \in Nat /\ clock \in Nat /\ s.expires \in Nat /\ c.at <= clock
      BY <1>1, <1>3, <1>5
    <2>b. \A i, j, k \in Nat : i <= j /\ j <= k => ~(k < i)
      OBVIOUS
    <2>2. ~(s.expires < c.at)
      BY <1>5, <2>a, <2>b
    <2> QED BY <2>1, <2>2 DEF Remembered
  <1> HIDE DEF c
  <1>6. \A s \in spent : clock <= s.expires =>
          [id |-> s.id, expires |-> s.expires] \in ceremonies'
    <2>1. CASE c.ceremony.id = NoCeremony
      <3>1. ~Used(c)
        BY <2>1 DEF Used
      <3>2. ceremonies' = ceremonies
        BY <1>0, <2>1, <3>1, CeremonyEffect DEF Burned, c
      <3> QED BY <3>2 DEF CeremonyInv
    <2>2. CASE c.ceremony.id # NoCeremony
      <3>1. Remembered(c.at) \subseteq ceremonies'
        BY <1>0, <2>2, CeremonyEffect DEF Burned, c
      <3> QED BY <1>5, <2>2, <3>1
    <2> QED BY <2>1, <2>2
  <1>7. Fresh => c.ceremony \in ceremonies'
    BY <1>0, CeremonyEffect DEF Burned, c
  <1>8. \A s \in spent' :
          /\ \E x \in issued' : x.id = s.id /\ x.expires = s.expires
          /\ clock' <= s.expires => [id |-> s.id, expires |-> s.expires] \in ceremonies'
    <2>1. ASSUME NEW s \in spent
          PROVE  /\ \E x \in issued' : x.id = s.id /\ x.expires = s.expires
                 /\ clock' <= s.expires => [id |-> s.id, expires |-> s.expires] \in ceremonies'
      BY <1>0, <1>6, <2>1 DEF CeremonyInv
    <2>2. ASSUME Fresh
          PROVE  /\ \E x \in issued' : x.id = mark.id /\ x.expires = mark.expires
                 /\ [id |-> mark.id, expires |-> mark.expires] \in ceremonies'
      BY <1>0, <1>1, <1>3, <1>7, <2>2
    <2> QED BY <1>4, <2>1, <2>2
  <1>9. ASSUME Fresh, NEW s \in spent, s.id = mark.id
        PROVE  mark.at > mark.expires
    <2>1. s.expires = c.ceremony.expires
      <3>1. PICK x \in issued : x.id = s.id /\ x.expires = s.expires
        BY ZenonT(40), <1>9 DEF CeremonyInv
      <3>2. PICK y \in issued : y.id = c.ceremony.id /\ y.expires = c.ceremony.expires
        BY Zenon, <1>3, <1>9
      <3>3. \A v, w \in issued : v.id = w.id => v = w
        BY DEF CeremonyInv
      <3>4. x = y
        BY <1>9, <3>1, <3>2, <3>3
      <3> QED BY <3>1, <3>2, <3>4
    <2>2. ~(clock <= s.expires)
      <3>1. [id |-> s.id, expires |-> s.expires].id = c.ceremony.id
        BY <1>9
      <3> QED BY Zenon, <1>5, <1>9, <3>1 DEF Used
    <2>3. /\ mark.at = clock /\ mark.expires = s.expires
          /\ clock \in Nat /\ s.expires \in Nat
      BY <1>1, <1>9, <2>1
    <2> HIDE DEF mark
    <2> QED BY <2>2, <2>3
  <1>10. SpentWhileItLasts'
    BY ZenonT(40), <1>4, <1>9 DEF CeremonyInv, SpentWhileItLasts
  <1>11. \A q \in Requests : call'[q] = call[q] \/ call'[q] = Idle
    BY <1>0 DEF Goes, TypeOK
  <1>12. \A q \in Requests : call'[q].pc = "decoded" => call'[q].continuation \in issued'
    <2>1. Idle.pc # "decoded"
      BY DEF Idle
    <2>2. \A q \in Requests : call[q].pc = "decoded" => call[q].continuation \in issued
      BY DEF CeremonyInv
    <2>3. issued' = issued
      BY <1>0
    <2> QED BY <1>11, <2>1, <2>2, <2>3
  <1>13. ASSUME NEW q \in Requests, Presents(q)'
         PROVE  /\ call'[q].commit.at <= clock'
                /\ \E x \in issued' : /\ x.id = call'[q].commit.ceremony.id
                                       /\ x.expires = call'[q].commit.ceremony.expires
    <2>1. Idle.pc \notin CommitPCs
      BY DEF Idle, CommitPCs
    <2>2. call'[q] = call[q] /\ Presents(q)
      BY <1>11, <1>13, <2>1 DEF Presents
    <2>3. /\ call[q].commit.at <= clock
          /\ \E x \in issued : /\ x.id = call[q].commit.ceremony.id
                                /\ x.expires = call[q].commit.ceremony.expires
      BY <2>2 DEF CeremonyInv
    <2>4. UNCHANGED <<clock, issued>>
      BY <1>0
    <2> QED BY <2>2, <2>3, <2>4
  <1>14. /\ \A x \in issued' : x.id <= lastID'
         /\ \A x, y \in issued' : x.id = y.id => x = y
    BY <1>0 DEF CeremonyInv
  <1> QED BY <1>8, <1>10, <1>12, <1>13, <1>14 DEF CeremonyInv

\* Every step keeps what is known of the ceremonies.
LEMMA CeremonyStep ==
  ASSUME TypeOK, CeremonyInv, [Next]_vars
  PROVE  CeremonyInv'
  <1>0. /\ call \in [Requests -> Call] /\ lastID \in Nat /\ clock \in Nat
    BY DEF TypeOK
  <1>s. ASSUME UNCHANGED <<ceremonies, spent, issued, clock>>, NEW p \in Requests, NEW next,
               Goes(p, next), lastID' \in {lastID, lastID + 1, lastID + 2},
               next.pc = "decoded" => next.continuation \in issued,
               next.pc \in CommitPCs =>
                     \/ next.commit.ceremony.id = NoCeremony
                     \/ /\ next.commit.at = clock
                        /\ \E x \in issued : /\ x.id = next.commit.ceremony.id
                                              /\ x.expires = next.commit.ceremony.expires
        PROVE  CeremonyInv'
    <2>1. \A q \in Requests : call'[q] = call[q] \/ call'[q] = next
      BY <1>0, <1>s DEF Goes
    <2>2. /\ lastID' \in Nat /\ lastID' >= lastID /\ clock' \in Nat /\ clock' >= clock
      BY <1>0, <1>s
    <2>3. \A q \in Requests :
            \/ call'[q] = call[q]
            \/ /\ call'[q].pc = "decoded" => call'[q].continuation \in issued
               /\ call'[q].pc \in CommitPCs =>
                     \/ call'[q].commit.ceremony.id = NoCeremony
                     \/ /\ call'[q].commit.at = clock
                        /\ \E x \in issued : /\ x.id = call'[q].commit.ceremony.id
                                              /\ x.expires = call'[q].commit.ceremony.expires
      BY <1>s, <2>1
    <2> QED BY <1>s, <2>2, <2>3, CeremonyStays
  <1>f. ASSUME UNCHANGED <<ceremonies, spent, issued, clock>>, NEW p \in Requests, NEW next,
               Goes(p, next), lastID' \in {lastID, lastID + 1, lastID + 2},
               next.pc # "decoded",
               next.pc \in CommitPCs => next.commit.ceremony.id = NoCeremony
        PROVE  CeremonyInv'
    BY <1>f, <1>s
  <1>n. \A id, action, subject :
           /\ newAudit(id, action, subject).ceremony.id = NoCeremony
           /\ transactionalCommit(newAudit(id, action, subject)).ceremony.id = NoCeremony
           /\ [newAudit(id, action, subject) EXCEPT !.unchained = TRUE].ceremony.id = NoCeremony
    BY DEF newAudit, transactionalCommit
  <1>1. ASSUME NEW kind \in Kinds, BeginPasskeyCeremony(kind)
        PROVE  CeremonyInv'
    <2> DEFINE new == [id |-> lastID + 1, kind |-> kind, expires |-> clock + CeremonyTTL]
    <2>1. /\ issued' = issued \cup {new} /\ lastID' = lastID + 1
          /\ UNCHANGED <<ceremonies, spent, call, clock>>
      BY <1>1 DEF BeginPasskeyCeremony, storeVars
    <2>2. \A x \in issued : x.id \in Nat
      BY DEF TypeOK, Continuation
    <2>a. /\ \A x \in issued : x.id <= lastID
          /\ \A x, y \in issued : x.id = y.id => x = y
      BY DEF CeremonyInv
    <2>3. \A x \in issued : x.id <= lastID /\ x.id # new.id
      BY <1>0, <2>2, <2>a
    <2>4. /\ \A x \in issued' : x.id <= lastID'
          /\ \A x, y \in issued' : x.id = y.id => x = y
      BY <1>0, <2>1, <2>2, <2>3, <2>a
    <2>5. issued \subseteq issued'
      BY <2>1
    <2> QED BY <2>1, <2>4, <2>5 DEF CeremonyInv, Presents, SpentWhileItLasts
  <1>2. ASSUME NEW p \in Requests, Passkeys(p)
        PROVE  CeremonyInv'
    <2>0. call[p].pc = "decoded" => call[p].continuation \in issued
      BY DEF CeremonyInv
    <2>1. CASE \E x \in issued : decodeContinuation(p, x)
      <3>1. PICK x \in issued : decodeContinuation(p, x)
        BY <2>1
      <3> QED BY <1>s, <3>1 DEF decodeContinuation, storeVars, CommitPCs
    <2>2. CASE \E credential \in Credentials : FinishPasskeyRegistration(p, credential)
      <3>1. PICK credential \in Credentials : FinishPasskeyRegistration(p, credential)
        BY <2>2
      <3> DEFINE c == Consuming(transactionalCommit(
                          newAudit(lastID + 2, "passkey.create", lastID + 1)),
                          call[p].continuation)
                 next == [pc |-> "SavePasskey", commit |-> c,
                          row |-> [id |-> lastID + 1, credential |-> credential]]
      <3>2. c.at = clock /\ c.ceremony.id = call[p].continuation.id
            /\ c.ceremony.expires = call[p].continuation.expires
        BY DEF Consuming, transactionalCommit, newAudit
      <3>3. /\ Goes(p, next) /\ lastID' = lastID + 2 /\ call[p].pc = "decoded"
            /\ UNCHANGED <<ceremonies, spent, issued, clock>>
        BY <3>1 DEF FinishPasskeyRegistration, storeVars
      <3>4. next.commit = c /\ next.pc # "decoded"
        OBVIOUS
      <3> HIDE DEF next, c
      <3> QED BY <1>s, <2>0, <3>2, <3>3, <3>4
    <2>3. CASE \E credential \in Credentials : FinishPasskeyAuthentication(p, credential)
      <3>1. PICK credential \in Credentials : FinishPasskeyAuthentication(p, credential)
        BY <2>3
      <3> DEFINE c == Consuming(newAudit(lastID + 1, "other", 0), call[p].continuation)
                 next == [pc |-> "TouchPasskey", commit |-> c, credential |-> credential]
      <3>2. c.at = clock /\ c.ceremony.id = call[p].continuation.id
            /\ c.ceremony.expires = call[p].continuation.expires
        BY DEF Consuming, newAudit
      <3>3. /\ Goes(p, next) /\ lastID' = lastID + 1 /\ call[p].pc = "decoded"
            /\ UNCHANGED <<ceremonies, spent, issued, clock>>
        BY <3>1 DEF FinishPasskeyAuthentication, storeVars
      <3>4. next.commit = c /\ next.pc # "decoded"
        OBVIOUS
      <3> HIDE DEF next, c
      <3> QED BY <1>s, <2>0, <3>2, <3>3, <3>4
    <2>4. CASE FailPasskey(p)
      BY <1>f, <1>n, <2>4 DEF FailPasskey, storeVars
    <2>5. ASSUME NEW k \in tables.passkeys, RemovePasskey(p, k.id)
          PROVE  CeremonyInv'
      <3> DEFINE next == [pc |-> "DeletePasskey", commit |->
                          transactionalCommit(newAudit(lastID + 1, "passkey.delete", k.id))]
      <3>1. next.commit.ceremony.id = NoCeremony /\ next.pc # "decoded"
        BY <1>n
      <3>2. /\ Goes(p, next) /\ lastID' = lastID + 1
            /\ UNCHANGED <<ceremonies, spent, issued, clock>>
        BY <2>5 DEF RemovePasskey, storeVars
      <3> HIDE DEF next
      <3> QED BY <1>f, <3>1, <3>2
    <2> QED BY <1>2, <2>1, <2>2, <2>3, <2>4, <2>5 DEF Passkeys
  <1>3. ASSUME NEW p \in Requests, Clients(p)
        PROVE  CeremonyInv'
    <2>1. CASE RegisterOAuthClient(p)
      BY <1>f, <1>n, <2>1 DEF RegisterOAuthClient, storeVars
    <2>2. CASE \E url \in ClientURLs : OAuthClientByClientID(p, url)
      BY Zenon, <1>f, <2>2 DEF OAuthClientByClientID, storeVars, CommitPCs
    <2>3. CASE resolveOAuthClient(p)
      BY <1>f, <1>n, <2>3 DEF resolveOAuthClient, storeVars
    <2>4. CASE emitOAuthCIMDRejected(p)
      BY <1>f, <1>n, <2>4 DEF emitOAuthCIMDRejected, storeVars
    <2>5. CASE recordUnknownPATRejection(p)
      BY Zenon, <1>f, <1>n, <2>5 DEF recordUnknownPATRejection, storeVars
    <2> QED BY <1>3, <2>1, <2>2, <2>3, <2>4, <2>5 DEF Clients
  <1>4. ASSUME NEW p \in Requests, Verify(p)
        PROVE  CeremonyInv'
    BY Zenon, <1>4, <1>f DEF Verify, ScanChain, CompareHead, Return, Idle,
       storeVars, CommitPCs
  <1>5. ASSUME NEW p \in Requests, Abandon(p)
        PROVE  CeremonyInv'
    BY Zenon, <1>5, <1>f DEF Abandon, Idle, storeVars, CommitPCs
  <1>6. CASE Tick \/ UNCHANGED vars
    <2>1. /\ UNCHANGED <<ceremonies, spent, issued, call, lastID>>
          /\ clock' \in {clock, clock + 1}
      BY <1>6 DEF Tick, vars, storeVars
    <2> QED BY <1>0, <2>1, CeremonyStays
  <1> QED BY <1>1, <1>2, <1>3, <1>4, <1>5, <1>6, CeremonyTransact DEF Next

\* A ceremony is presented to one commit only until it expires, whatever the
\* order in which stamped commits reach prepareCommitLocked and whatever their
\* hooks answer.
THEOREM CeremoniesSpentOnce == Spec => []SpentWhileItLasts
  <1>1. Init => CeremonyInv
    <2> SUFFICES ASSUME Init PROVE CeremonyInv
      OBVIOUS
    <2>1. \A p \in Requests : call[p].pc = "idle"
      BY DEF Init, Idle
    <2>2. issued = {} /\ spent = {}
      BY DEF Init
    <2>3. SpentWhileItLasts
      BY <2>2 DEF SpentWhileItLasts
    <2>4. \A p \in Requests : ~Presents(p)
      BY <2>1 DEF Presents, CommitPCs
    <2> QED BY <2>1, <2>2, <2>3, <2>4 DEF CeremonyInv
  <1>2. TypeOK /\ CeremonyInv /\ [Next]_vars => CeremonyInv'
    BY CeremonyStep
  <1>3. CeremonyInv => SpentWhileItLasts
    BY DEF CeremonyInv
  <1> QED BY <1>1, <1>2, <1>3, TrailTyping, PTL DEF Spec
=============================================================================
