----------------------------- MODULE AuditTrail -----------------------------
(***************************************************************************)
(* Manager calls that show the commit protocol at work: passkey ceremonies *)
(* from Begin to Finish, client registration and metadata resolution, the  *)
(* unchained rejection of an unknown token, and the verification of the    *)
(* audit chain, which reads the store twice while commits go on.           *)
(*                                                                         *)
(* A call stamps its audit event (newAudit) some time before the store     *)
(* method runs, so events reach the store out of the order of their times. *)
(* Authorization, policy and provider answers only decide whether a call   *)
(* goes on.  Identifiers come from one increasing counter, as newID's do.  *)
(***************************************************************************)
EXTENDS StoreCommit

CONSTANTS Requests,     \* concurrent calls into the Manager
          Workload,     \* the parts of the API the host calls in this instance
          CeremonyTTL,  \* Config.CeremonyTTL
          MaxID,        \* bound: a call starts below this identifier
          MaxClock      \* bound: the clock stops here

ASSUME TrailBounds == {CeremonyTTL, MaxID, MaxClock} \subseteq Nat

VARIABLES call,      \* in-flight calls
          clock,
          lastID,    \* the last identifier newID returned
          issued,    \* continuations the host holds
          reports,   \* reports of earlier verifications, the host's checkpoints
          spent      \* history: when each ceremony was presented to a commit

vars == <<storeVars, call, clock, lastID, issued, reports, spent>>

Kinds == {"registration", "authentication"}
Continuation == [id: Nat, expires: Nat, kind: Kinds]
Report == [seq: Nat, hash: Seq(Link)]

Idle == [pc |-> "idle"]
Decoded == [pc: {"decoded"}, continuation: Continuation]
Resolving == [pc: {"resolving"}, url: ClientURLs, found: SUBSET Nat]
Auditing(action) == {c \in Commit : c.action = action}
Saving == [pc: {"SavePasskey"}, commit: Auditing("passkey.create"), row: Passkey]
Touching == [pc: {"TouchPasskey"}, commit: Auditing("other"), credential: Credentials]
Deleting == [pc: {"DeletePasskey"}, commit: Auditing("passkey.delete")]
Registering == [pc: {"CreateOAuthClient", "UpsertOAuthCIMDClient"},
                commit: Auditing("oauth.client"), row: OAuthClient]
Appending == [pc: {"AppendAudit"}, commit: Auditing("other")]
\* seen is history: the length of the chain when the events were read.
Scanned == [pc: {"scanned"}, seq: Nat, hash: Seq(Link), seen: Nat]
Verified == [pc: {"verified", "compromised"}, seen: Nat, head: Nat]
Committing == Saving \cup Touching \cup Deleting \cup Registering \cup Appending
Call == {Idle} \cup Decoded \cup Resolving \cup Committing \cup Scanned \cup Verified

\* Every variable ranges over what the code stores in it.
TypeOK ==
    /\ StoreTypeOK
    /\ call \in [Requests -> Call]
    /\ clock \in Nat
    /\ lastID \in Nat
    /\ issued \in SUBSET Continuation
    /\ reports \in SUBSET Report
    /\ spent \in SUBSET [id: Nat, audit: Nat, at: Nat, expires: Nat]

Init ==
    /\ StoreInit
    /\ call = [p \in Requests |-> Idle]
    /\ clock = 0
    /\ lastID = 0
    /\ issued = {}
    /\ reports = {}
    /\ spent = {}

Goes(p, next) == call' = [call EXCEPT ![p] = next]

Starts(p) == call[p] = Idle /\ lastID < MaxID

\* newAudit: the event's identifier and time are fixed before the store runs.
\* Its time is read where a ceremony is consumed and nowhere else (Consuming).
newAudit(id, action, subject) ==
    [id |-> id, at |-> 0, action |-> action, subject |-> subject,
     hooked |-> FALSE, ceremony |-> [id |-> NoCeremony, expires |-> 0],
     unchained |-> FALSE]

transactionalCommit(event) == [event EXCEPT !.hooked = TRUE]

-----------------------------------------------------------------------------

BeginPasskeyCeremony(kind) ==
    /\ lastID < MaxID
    /\ lastID' = lastID + 1
    /\ issued' = issued \cup {[id |-> lastID + 1, kind |-> kind,
                               expires |-> clock + CeremonyTTL]}
    /\ UNCHANGED <<storeVars, call, clock, reports, spent>>

decodeContinuation(p, x) ==
    /\ Starts(p)
    /\ clock < x.expires
    /\ Goes(p, [pc |-> "decoded", continuation |-> x])
    /\ UNCHANGED <<storeVars, clock, lastID, issued, reports, spent>>

Consuming(event, x) ==
    [event EXCEPT !.at = clock, !.ceremony = [id |-> x.id, expires |-> x.expires]]

FinishPasskeyRegistration(p, credential) ==
    /\ call[p].pc = "decoded"
    /\ call[p].continuation.kind = "registration"
    /\ lastID' = lastID + 2
    /\ Goes(p, [pc |-> "SavePasskey",
                commit |-> Consuming(transactionalCommit(
                               newAudit(lastID + 2, "passkey.create", lastID + 1)),
                               call[p].continuation),
                row |-> [id |-> lastID + 1, credential |-> credential]])
    /\ UNCHANGED <<storeVars, clock, issued, reports, spent>>

FinishPasskeyAuthentication(p, credential) ==
    /\ call[p].pc = "decoded"
    /\ call[p].continuation.kind = "authentication"
    /\ lastID' = lastID + 1
    /\ Goes(p, [pc |-> "TouchPasskey",
                commit |-> Consuming(newAudit(lastID + 1, "other", 0),
                                     call[p].continuation),
                credential |-> credential])
    /\ UNCHANGED <<storeVars, clock, issued, reports, spent>>

\* The provider refuses the browser's response: audited, and the ceremony
\* stays unspent.
FailPasskey(p) ==
    /\ call[p].pc = "decoded"
    /\ lastID' = lastID + 1
    /\ Goes(p, [pc |-> "AppendAudit", commit |-> newAudit(lastID + 1, "other", 0)])
    /\ UNCHANGED <<storeVars, clock, issued, reports, spent>>

RemovePasskey(p, id) ==
    /\ Starts(p)
    /\ lastID' = lastID + 1
    /\ Goes(p, [pc |-> "DeletePasskey", commit |->
                transactionalCommit(newAudit(lastID + 1, "passkey.delete", id))])
    /\ UNCHANGED <<storeVars, clock, issued, reports, spent>>

RegisterOAuthClient(p) ==
    /\ Starts(p)
    /\ lastID' = lastID + 2
    /\ Goes(p, [pc |-> "CreateOAuthClient",
                commit |-> transactionalCommit(
                               newAudit(lastID + 2, "oauth.client", lastID + 1)),
                row |-> [id |-> lastID + 1, key |-> lastID + 1]])
    /\ UNCHANGED <<storeVars, clock, issued, reports, spent>>

\* Either the client_id is unknown or its metadata has run out.
OAuthClientByClientID(p, url) ==
    /\ Starts(p)
    /\ Goes(p, [pc |-> "resolving", url |-> url,
                found |-> {r.id : r \in {k \in tables.clientKeys : k.key = url}}])
    /\ UNCHANGED <<storeVars, clock, lastID, issued, reports, spent>>

\* The metadata was fetched; a known client keeps its record.
resolveOAuthClient(p) ==
    /\ call[p].pc = "resolving"
    /\ lastID' = lastID + 2
    /\ \E id \in IF call[p].found = {} THEN {lastID + 1} ELSE call[p].found :
          Goes(p, [pc |-> "UpsertOAuthCIMDClient",
                   commit |-> transactionalCommit(
                                  newAudit(lastID + 2, "oauth.client", id)),
                   row |-> [id |-> id, key |-> call[p].url]])
    /\ UNCHANGED <<storeVars, clock, issued, reports, spent>>

emitOAuthCIMDRejected(p) ==
    /\ call[p].pc = "resolving"
    /\ lastID' = lastID + 1
    /\ Goes(p, [pc |-> "AppendAudit", commit |->
                transactionalCommit(newAudit(lastID + 1, "other", 0))])
    /\ UNCHANGED <<storeVars, clock, issued, reports, spent>>

recordUnknownPATRejection(p) ==
    /\ Starts(p)
    /\ lastID' = lastID + 1
    /\ Goes(p, [pc |-> "AppendAudit", commit |->
                [newAudit(lastID + 1, "other", 0) EXCEPT !.unchained = TRUE]])
    /\ UNCHANGED <<storeVars, clock, issued, reports, spent>>

-----------------------------------------------------------------------------

Store(p) ==
    LET c == call[p].commit IN
    \/ call[p].pc = "SavePasskey" /\ SavePasskey(c, call[p].row)
    \/ call[p].pc = "TouchPasskey" /\ TouchPasskey(c, call[p].credential)
    \/ call[p].pc = "DeletePasskey" /\ DeletePasskey(c, c.subject)
    \/ call[p].pc = "CreateOAuthClient" /\ CreateOAuthClient(c, call[p].row)
    \/ call[p].pc = "UpsertOAuthCIMDClient" /\ UpsertOAuthCIMDClient(c, call[p].row)
    \/ call[p].pc = "AppendAudit" /\ AppendAudit(c)

\* A ceremony new to the store is spent whether or not the hook accepts.
Spending(c) ==
    IF c.ceremony.id # NoCeremony /\ ~Used(c)
    THEN spent \cup {[id |-> c.ceremony.id, audit |-> c.id, at |-> clock,
                      expires |-> c.ceremony.expires]}
    ELSE spent

Transact(p) ==
    /\ Store(p)
    /\ spent' = Spending(call[p].commit)
    /\ Goes(p, Idle)
    /\ UNCHANGED <<clock, lastID, issued, reports>>

\* The context is cancelled, the store method's own checks refuse, or the audit
\* cannot be written: an error, and nothing has changed.
Abandon(p) ==
    /\ call[p].pc \notin {"idle", "verified", "compromised"}
    /\ Goes(p, Idle)
    /\ UNCHANGED <<storeVars, clock, lastID, issued, reports, spent>>

-----------------------------------------------------------------------------

Zero == [seq |-> 0, hash |-> Genesis]

\* Bug: the scan starts at the checkpoint instead of after it.
ChainedFrom(after) == {e \in {audits[i] : i \in DOMAIN audits} : e.seq >= after}

Chained(after) == {e \in {audits[i] : i \in DOMAIN audits} : e.seq > after}

\* The loop over the sorted events runs to its end, at sequence n.
Extends(events, from, n) ==
    /\ {e.seq : e \in events} = (from.seq + 1)..n
    /\ \A e, f \in events : e.seq = f.seq => e = f
    /\ \A e \in events :
          /\ e.hash = ComputeAuditHash(e.prev, e)
          /\ e.seq = from.seq + 1 => e.prev = from.hash
          /\ \A f \in events : f.seq = e.seq + 1 => f.prev = e.hash

\* VerifyAuditChainFrom up to the read of the head.  The events are copied
\* under the read lock, so the loop works on one state of the log.
ScanChain(p, from) ==
    LET events == Chained(from.seq)
        Ends == {r \in {from} \cup {[seq |-> e.seq, hash |-> e.hash] : e \in events} :
                   Extends(events, from, r.seq)}
    IN
    /\ call[p] = Idle
    /\ IF Ends = {}
       THEN Goes(p, [pc |-> "compromised", seen |-> auditSequence,
                     head |-> auditSequence])
       ELSE \E r \in Ends : Goes(p, [pc |-> "scanned", seq |-> r.seq, hash |-> r.hash,
                                     seen |-> auditSequence])
    /\ UNCHANGED <<storeVars, clock, lastID, issued, reports, spent>>

CompareHead(p) ==
    /\ call[p].pc = "scanned"
    /\ IF auditSequence = call[p].seq /\ auditHead = call[p].hash
       THEN /\ Goes(p, [pc |-> "verified", seen |-> call[p].seen, head |-> auditSequence])
            /\ reports' = reports \cup {[seq |-> auditSequence, hash |-> auditHead]}
       ELSE /\ Goes(p, [pc |-> "compromised", seen |-> call[p].seen, head |-> auditSequence])
            /\ UNCHANGED reports
    /\ UNCHANGED <<storeVars, clock, lastID, issued, spent>>

Return(p) ==
    /\ call[p].pc \in {"verified", "compromised"}
    /\ Goes(p, Idle)
    /\ UNCHANGED <<storeVars, clock, lastID, issued, reports, spent>>

-----------------------------------------------------------------------------

Tick ==
    /\ clock < MaxClock
    /\ clock' = clock + 1
    /\ UNCHANGED <<storeVars, call, lastID, issued, reports, spent>>

Passkeys(p) ==
    /\ "passkeys" \in Workload
    /\ \/ \E x \in issued : decodeContinuation(p, x)
       \/ \E credential \in Credentials : \/ FinishPasskeyRegistration(p, credential)
                                          \/ FinishPasskeyAuthentication(p, credential)
       \/ FailPasskey(p)
       \/ \E k \in tables.passkeys : RemovePasskey(p, k.id)

Clients(p) ==
    /\ "clients" \in Workload
    /\ \/ RegisterOAuthClient(p)
       \/ \E url \in ClientURLs : OAuthClientByClientID(p, url)
       \/ resolveOAuthClient(p)
       \/ emitOAuthCIMDRejected(p)
       \/ recordUnknownPATRejection(p)

Verify(p) ==
    /\ "verify" \in Workload
    /\ \/ \E from \in reports \cup {Zero} : ScanChain(p, from)
       \/ CompareHead(p)
       \/ Return(p)

Next ==
    \/ "passkeys" \in Workload /\ \E kind \in Kinds : BeginPasskeyCeremony(kind)
    \/ \E p \in Requests : Passkeys(p) \/ Clients(p) \/ Verify(p)
    \/ \E p \in Requests : Transact(p) \/ Abandon(p)
    \/ Tick

Spec == Init /\ [][Next]_vars

-----------------------------------------------------------------------------

\* The chained events number 1 to auditSequence without a gap or a double,
\* each carries the hash of its predecessor, and the head is the hash of the
\* last, whatever unchained events, rejected hooks and failures came between
\* (commitAudit, finishCommitLocked).
ChainIsSound ==
    /\ Extends(Chained(0), Zero, auditSequence)
    /\ auditSequence = 0 => auditHead = Genesis
    /\ \A e \in Chained(0) : e.seq = auditSequence => auditHead = e.hash

Named(action) == {audits[i].subject : i \in {j \in DOMAIN audits : audits[j].action = action}}

\* "Implementations must commit all three stages or none of them" (Store): the
\* passkeys and the clients stored are exactly those the audit trail accounts
\* for, so no rejected, unaudited or replayed commit left a row or took one.
TrailMatchesTables ==
    /\ {k.id : k \in tables.passkeys} = Named("passkey.create") \ Named("passkey.delete")
    /\ {r.id : r \in tables.clients} = Named("oauth.client")

\* Until it expires a ceremony is presented to one commit only, also when that
\* commit's hook refused (prepareCommitLocked).  After that instant the store
\* may have forgotten it while a call that decoded it in time is in flight.
SpentWhileItLasts ==
    \A x, y \in spent : x.id = y.id /\ x # y => x.at > x.expires \/ y.at > y.expires

\* VerifyAuditChainFrom reports ErrAuditCompromised of an untouched log only
\* when a chained commit landed between its two reads, from any checkpoint an
\* earlier report gave.
AccusesOnlyRacing ==
    \A p \in Requests : call[p].pc = "compromised" => call[p].head # call[p].seen

\* The index by client_id finds every stored client and nothing else, a
\* rejected hook or not: the rollback is to leave "all three stages or none".
IndexMatchesTable == tables.clientKeys = tables.clients
=============================================================================
