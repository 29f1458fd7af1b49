---------------------------- MODULE StoreCommit -----------------------------
(***************************************************************************)
(* How memory.Store commits: prepareCommitLocked, the mutation, the        *)
(* transactional hook with its rollback, and the audit append, all under   *)
(* the store's lock and so one step.                                       *)
(*                                                                         *)
(* Three tables show the protocol: the passkeys, and the OAuth clients     *)
(* with their index by client_id.  The other tables go through the same    *)
(* lines.  A hash is the sequence of everything hashed into it, which is   *)
(* what makes SHA-256 of length-prefixed fields injective here; the empty  *)
(* sequence is the genesis.  auditIDs is the set of ids of audits.         *)
(***************************************************************************)
EXTENDS Naturals, Sequences

CONSTANTS Credentials,  \* WebAuthn credential IDs
          ClientURLs    \* client_ids of Client Identifier Metadata Documents

VARIABLES tables,        \* passkeys, clients, clientKeys
          ceremonies,    \* consumed ceremonies still remembered
          audits,        \* the audit log in commit order
          auditSequence, auditHead

trail == <<audits, auditSequence, auditHead>>
storeVars == <<tables, ceremonies, trail>>

Genesis == <<>>

\* CeremonyID 0 is no ceremony, sequence 0 an unchained event.
NoCeremony == 0
Ceremony == [id: Nat, expires: Nat]
Action == {"passkey.create", "passkey.delete", "oauth.client", "other"}
Link == [seq: Nat, id: Nat, action: Action, subject: Nat]
AuditEvent == [seq: Nat, id: Nat, action: Action, subject: Nat,
               prev: Seq(Link), hash: Seq(Link)]
Commit == [id: Nat, at: Nat, action: Action, subject: Nat, hooked: BOOLEAN,
           ceremony: Ceremony, unchained: BOOLEAN]
Passkey == [id: Nat, credential: Credentials]
OAuthClient == [id: Nat, key: ClientURLs \cup Nat]

StoreTypeOK ==
    /\ tables \in [passkeys: SUBSET Passkey, clients: SUBSET OAuthClient,
                   clientKeys: SUBSET OAuthClient]
    /\ ceremonies \in SUBSET Ceremony
    /\ audits \in Seq(AuditEvent)
    /\ auditSequence \in Nat
    /\ auditHead \in Seq(Link)

StoreInit ==
    /\ tables = [passkeys |-> {}, clients |-> {}, clientKeys |-> {}]
    /\ ceremonies = {}
    /\ audits = <<>>
    /\ auditSequence = 0
    /\ auditHead = Genesis

ComputeAuditHash(previous, event) ==
    Append(previous, [seq |-> event.seq, id |-> event.id,
                      action |-> event.action, subject |-> event.subject])

canAudit(c) == \A i \in DOMAIN audits : audits[i].id # c.id

\* Bug: a ceremony is forgotten at its last instant, while it is still good.
RememberedTooBriefly(now) == {x \in ceremonies : x.expires > now}

\* prepareCommitLocked forgets the ceremonies that ran out before this event.
Remembered(now) == {x \in ceremonies : ~(x.expires < now)}

Used(c) ==
    /\ c.ceremony.id # NoCeremony
    /\ \E x \in Remembered(c.at) : x.id = c.ceremony.id

Burned(c) == IF c.ceremony.id = NoCeremony THEN ceremonies
             ELSE Remembered(c.at) \cup {c.ceremony}

\* The copy a rejected hook puts back.  The loop that should fill the copy of
\* oauthClientKeys fills oauthClientTokenKeys a second time.
snapshotLocked == [tables EXCEPT !.clientKeys = {}]

Chain(c) == [seq |-> auditSequence + 1, id |-> c.id, action |-> c.action,
             subject |-> c.subject]

\* Bug: an unchained event is stored as the caller built it.
CommitBareUnchained(c) ==
    IF c.unchained
    THEN /\ audits' = Append(audits, c)
         /\ UNCHANGED <<auditSequence, auditHead>>
    ELSE /\ auditSequence' = auditSequence + 1
         /\ auditHead' = ComputeAuditHash(auditHead, Chain(c))
         /\ audits' = Append(audits, [seq |-> auditSequence + 1, id |-> c.id,
                 action |-> c.action, subject |-> c.subject,
                 prev |-> auditHead, hash |-> auditHead'])

\* Bug: the sequence advances before the branch for unchained events.
CommitNumbersAll(c) ==
    /\ auditSequence' = auditSequence + 1
    /\ IF c.unchained
       THEN /\ audits' = Append(audits, [seq |-> 0, id |-> c.id, action |-> c.action,
                    subject |-> c.subject, prev |-> Genesis, hash |-> Genesis])
            /\ UNCHANGED auditHead
       ELSE /\ auditHead' = ComputeAuditHash(auditHead, Chain(c))
            /\ audits' = Append(audits, [seq |-> auditSequence + 1, id |-> c.id,
                    action |-> c.action, subject |-> c.subject,
                    prev |-> auditHead, hash |-> auditHead'])

commitAudit(c) ==
    IF c.unchained
    THEN /\ audits' = Append(audits, [seq |-> 0, id |-> c.id, action |-> c.action,
                 subject |-> c.subject, prev |-> Genesis, hash |-> Genesis])
         /\ UNCHANGED <<auditSequence, auditHead>>
    ELSE /\ auditSequence' = auditSequence + 1
         /\ auditHead' = ComputeAuditHash(auditHead, Chain(c))
         /\ audits' = Append(audits, [seq |-> auditSequence + 1, id |-> c.id,
                 action |-> c.action, subject |-> c.subject,
                 prev |-> auditHead, hash |-> auditHead'])

\* The ways a transaction ends, once the store method's own checks passed.  One
\* that cannot write its audit (SetAuditFailure, a duplicate) changes nothing.
Replayed(c) ==
    /\ canAudit(c) /\ Used(c)
    /\ ceremonies' = Remembered(c.at)
    /\ UNCHANGED <<tables, trail>>

\* Bug: the audit is appended before the hook is asked.
RejectedAudited(c) ==
    /\ canAudit(c) /\ ~Used(c) /\ c.hooked
    /\ ceremonies' = Burned(c)
    /\ tables' = snapshotLocked
    /\ commitAudit(c)

Rejected(c) ==
    /\ canAudit(c) /\ ~Used(c) /\ c.hooked
    /\ ceremonies' = Burned(c)
    /\ tables' = snapshotLocked
    /\ UNCHANGED trail

Committed(c, changed) ==
    /\ canAudit(c) /\ ~Used(c)
    /\ ceremonies' = Burned(c)
    /\ tables' = changed
    /\ commitAudit(c)

Attempt(c, changed) == Replayed(c) \/ Rejected(c) \/ Committed(c, changed)

-----------------------------------------------------------------------------

SavePasskey(c, row) ==
    /\ \A k \in tables.passkeys : k.credential # row.credential
    /\ Attempt(c, [tables EXCEPT !.passkeys = @ \cup {row}])

\* The sign counter and the last use are columns no property reads.
TouchPasskey(c, credential) ==
    /\ \E k \in tables.passkeys : k.credential = credential
    /\ Attempt(c, tables)

DeletePasskey(c, id) ==
    /\ \E k \in tables.passkeys : k.id = id
    /\ Attempt(c, [tables EXCEPT !.passkeys = {k \in @ : k.id # id}])

\* The registration limits and the initial access token only refuse a call.
CreateOAuthClient(c, row) ==
    /\ \A r \in tables.clients : r.id # row.id
    /\ \A r \in tables.clientKeys : r.key # row.key
    /\ Attempt(c, [tables EXCEPT !.clients = @ \cup {row},
                                 !.clientKeys = @ \cup {row}])

UpsertOAuthCIMDClient(c, row) ==
    /\ \A r \in tables.clientKeys : r.key = row.key => r.id = row.id
    /\ Attempt(c, [tables EXCEPT
           !.clients = {r \in @ : r.id # row.id} \cup {row},
           !.clientKeys = {r \in @ : r.key # row.key} \cup {row}])

AppendAudit(c) == Attempt(c, tables)
=============================================================================
