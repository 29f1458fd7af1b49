---------------------------- MODULE AccountStore ----------------------------
(***************************************************************************)
(* The account tables of the store and its transactions: the password      *)
(* credential, the login throttle, the TOTP factor and its recovery codes, *)
(* password resets, email sign-in credentials and server-side sessions.    *)
(*                                                                         *)
(* Every operator below is one store transaction: its guard is the one     *)
(* the store evaluates under its lock, so it is one atomic step.  A guard  *)
(* that fails (ErrConflict, ErrNotFound) leaves every table untouched; the *)
(* caller sees that as the negation of the operator's guard.  The audit    *)
(* event and the transactional hooks that share the transaction are the    *)
(* subject of module StoreCommit and do not appear here.                   *)
(*                                                                         *)
(* A password hash is the password it encodes, the number of the           *)
(* replacement (change or reset) that installed it and the number of       *)
(* transparent rehashes since.  Two hashes are equal exactly when the      *)
(* stored strings are, because each Hash call draws a fresh salt.          *)
(***************************************************************************)
EXTENDS Naturals

CONSTANTS
    Users,          \* accounts
    Passwords,      \* cleartext passwords
    SessionIDs,     \* identifiers CreateSession may draw
    ResetIDs,       \* identifiers BeginPasswordReset may draw
    LinkIDs,        \* identifiers of email sign-in credentials
    CodeIDs,        \* the one-time codes among them; the others are links
    CodesPerBatch,  \* recoveryCodeCount, 10 in the code
    MaxFailedLogins,\* Config.MaxFailedLogins
    NoHash          \* no password credential / an empty fingerprint

ASSUME NoHashAssumption == NoHash \notin [pwd: Passwords, era: Nat, enc: Nat]
ASSUME ThresholdAssumption == MaxFailedLogins \in Nat \ {0}
ASSUME BatchAssumption == CodesPerBatch \in Nat \ {0}
ASSUME CodeAssumption == CodeIDs \subseteq LinkIDs

VARIABLES
    password,   \* password credential of each user
    disabled,   \* User.Disabled
    throttle,   \* LoginThrottle: attempts and lockout
    factor,     \* TOTPFactor: state, which secret, LastUsedStep
    secrets,    \* history: TOTP secrets generated so far
    codes,      \* unused recovery codes, <<batch, index>>
    batch,      \* batches of recovery codes issued so far
    resets,     \* PasswordResetCredential
    links,      \* EmailAuthenticationCredential
    sessions,   \* Session
    epoch       \* history: password replacements so far

storeVars == <<password, disabled, throttle, factor, secrets, codes, batch,
               resets, links, sessions, epoch>>

Hash == [pwd: Passwords, era: Nat, enc: Nat]
MaybeHash == Hash \cup {NoHash}

\* LockedUntil is nil, in the future or in the past.
Throttle == [fails: Nat, lock: {"open", "locked", "lapsed"}]
NoThrottle == [fails |-> 0, lock |-> "open"]

\* gen tells the secrets generated for the user apart.
Factor == [st: {"none", "pending", "active"}, gen: Nat, step: Nat]
NoFactor == [st |-> "none", gen |-> 0, step |-> 0]
RecoveryCode == Nat \X (1..CodesPerBatch)

Absent == [st |-> "absent"]
\* "lapsed": ExpiresAt has passed.  "deleted": removed by a completed reset.
Token == {Absent} \cup
         [st: {"open", "lapsed", "used", "deleted"}, user: Users]

\* digest and root are history: the fingerprint CreateSession was given, and
\* the password hash the session descends from, through any number of
\* intermediate sessions.  pending is SecondFactorRequired.
Session == {Absent} \cup
           [st: {"live", "lapsed", "revoked"}, user: Users, level: {1, 2},
            pending: BOOLEAN, digest: MaybeHash, root: MaybeHash]

StoreTypeOK ==
    /\ password \in [Users -> MaybeHash]
    /\ disabled \in [Users -> BOOLEAN]
    /\ throttle \in [Users -> Throttle]
    /\ factor \in [Users -> Factor]
    /\ secrets \in [Users -> Nat]
    /\ codes \in [Users -> SUBSET RecoveryCode]
    /\ batch \in [Users -> Nat]
    /\ resets \in [ResetIDs -> Token]
    /\ links \in [LinkIDs -> Token]
    /\ sessions \in [SessionIDs -> Session]
    /\ epoch \in [Users -> Nat]

\* Accounts that exist when the behaviour starts: with or without a password
\* (an account provisioned by SSO or SCIM has none) and a second factor.
StoreInit ==
    /\ password \in [Users -> [pwd: Passwords, era: {0}, enc: {0}]
                              \cup {NoHash}]
    /\ disabled = [u \in Users |-> FALSE]
    /\ throttle = [u \in Users |-> NoThrottle]
    /\ factor \in [Users -> {NoFactor, [NoFactor EXCEPT !.st = "active"]}]
    /\ secrets = [u \in Users |-> 0]
    /\ batch = [u \in Users |-> 1]
    /\ codes = [u \in Users |-> IF factor[u].st = "active"
                                THEN {1} \X (1..CodesPerBatch) ELSE {}]
    /\ resets = [i \in ResetIDs |-> Absent]
    /\ links = [i \in LinkIDs |-> Absent]
    /\ sessions = [i \in SessionIDs |-> Absent]
    /\ epoch = [u \in Users |-> 0]

-----------------------------------------------------------------------------
(* Reads and the cascades shared by several transactions.                  *)

Locked(u) == throttle[u].lock = "locked"

\* The user has a session that a sweep still has to stamp RevokedAt on.
Unrevoked(i) == sessions[i].st \in {"live", "lapsed"}

Revoked(i) == [sessions[i] EXCEPT !.st = "revoked"]

\* revokeUserSessionsLocked
Swept(u) ==
    [i \in SessionIDs |->
        IF Unrevoked(i) /\ sessions[i].user = u THEN Revoked(i) ELSE sessions[i]]

\* The hash Hash(pwd) yields for a replacement of u's password.
Replacement(u, pwd) == [pwd |-> pwd, era |-> epoch[u] + 1, enc |-> 0]

Matches(pwd, hash) == hash # NoHash /\ hash.pwd = pwd

-----------------------------------------------------------------------------
(* Passwords and the login throttle.                                       *)

\* Bug: the swept sessions are left to a second transaction.
ChangePasswordNoSweep(u, pwd) ==
    /\ password[u] # NoHash
    /\ password' = [password EXCEPT ![u] = Replacement(u, pwd)]
    /\ epoch' = [epoch EXCEPT ![u] = @ + 1]
    /\ UNCHANGED <<disabled, throttle, factor, secrets, codes, batch, resets,
                   links, sessions>>

StoreChangePassword(u, pwd) ==
    /\ password[u] # NoHash
    /\ password' = [password EXCEPT ![u] = Replacement(u, pwd)]
    /\ epoch' = [epoch EXCEPT ![u] = @ + 1]
    /\ sessions' = Swept(u)
    /\ UNCHANGED <<disabled, throttle, factor, secrets, codes, batch, resets,
                   links>>

Rehashed(hash) == [hash EXCEPT !.enc = @ + 1]

\* Bug: the new encoding is written without comparing the stored hash.
RehashUnguarded(u, expected) ==
    /\ password[u] # NoHash
    /\ password' = [password EXCEPT ![u] = Rehashed(expected)]
    /\ UNCHANGED <<disabled, throttle, factor, secrets, codes, batch, resets,
                   links, sessions, epoch>>

StoreRehashPassword(u, expected) ==
    /\ password[u] # NoHash
    /\ password[u] = expected
    /\ password' = [password EXCEPT ![u] = Rehashed(expected)]
    /\ UNCHANGED <<disabled, throttle, factor, secrets, codes, batch, resets,
                   links, sessions, epoch>>

\* Bug: the sign-in completes whatever the stored hash is by now.
RecordUnguarded(u, hash) ==
    /\ password[u] # NoHash
    /\ throttle' = [throttle EXCEPT ![u] = NoThrottle]
    /\ UNCHANGED <<password, disabled, factor, secrets, codes, batch, resets,
                   links, sessions, epoch>>

StoreRecordPasswordAuthentication(u, hash) ==
    /\ password[u] # NoHash
    /\ password[u] = hash
    /\ throttle' = [throttle EXCEPT ![u] = NoThrottle]
    /\ UNCHANGED <<password, disabled, factor, secrets, codes, batch, resets,
                   links, sessions, epoch>>

\* A lockout that has lapsed restarts the window; the threshold locks.
Failed(t) ==
    LET n == IF t.lock = "lapsed" THEN 1 ELSE t.fails + 1
    IN  [fails |-> n,
         lock  |-> IF n >= MaxFailedLogins THEN "locked"
                   ELSE IF t.lock = "lapsed" THEN "open" ELSE t.lock]

StoreRecordLoginFailure(u) ==
    /\ throttle' = [throttle EXCEPT ![u] = Failed(@)]
    /\ UNCHANGED <<password, disabled, factor, secrets, codes, batch, resets,
                   links, sessions, epoch>>
-----------------------------------------------------------------------------
(* Password resets and email sign-in credentials: single use.              *)

StoreCreatePasswordReset(u, id) ==
    /\ resets[id] = Absent
    /\ resets' = [resets EXCEPT ![id] = [st |-> "open", user |-> u]]
    /\ UNCHANGED <<password, disabled, throttle, factor, secrets, codes, batch,
                   links, sessions, epoch>>

\* Bug: UsedAt is checked by the Manager's read only.
RedeemableUnchecked(token) == token.st \in {"open", "lapsed", "used"}

\* UsedAt is nil: the store compares no expiry.
Redeemable(token) == token.st \in {"open", "lapsed"}

\* The redeemed reset is marked used and the user's other resets go.
Redeem(id) ==
    [i \in ResetIDs |->
        IF i = id THEN [resets[i] EXCEPT !.st = "used"]
        ELSE IF resets[i].st # "absent" /\ resets[i].user = resets[id].user
             THEN [resets[i] EXCEPT !.st = "deleted"] ELSE resets[i]]

\* revokeUserCredentialsLocked stops PATs and OAuth grants, which are not
\* tables of this module.
StoreCompletePasswordReset(id, pwd) ==
    /\ Redeemable(resets[id])
    /\ LET u == resets[id].user IN
       /\ resets' = Redeem(id)
       /\ password' = [password EXCEPT ![u] = Replacement(u, pwd)]
       /\ epoch' = [epoch EXCEPT ![u] = @ + 1]
       /\ sessions' = Swept(u)
       /\ throttle' = [throttle EXCEPT ![u] = NoThrottle]
    /\ UNCHANGED <<disabled, factor, secrets, codes, batch, links>>

StoreCreateEmailAuthentication(u, id) ==
    /\ links[id] = Absent
    /\ links' = [links EXCEPT ![id] = [st |-> "open", user |-> u]]
    /\ UNCHANGED <<password, disabled, throttle, factor, secrets, codes, batch,
                   resets, sessions, epoch>>

\* Bug: the lockout is cleared whether or not a second factor is pending.
ConsumeAlwaysClears(id, completesLogin) ==
    /\ Redeemable(links[id])
    /\ links' = [links EXCEPT ![id].st = "used"]
    /\ throttle' = [throttle EXCEPT ![links[id].user] = NoThrottle]
    /\ UNCHANGED <<password, disabled, factor, secrets, codes, batch, resets,
                   sessions, epoch>>

StoreConsumeEmailAuthentication(id, completesLogin) ==
    /\ Redeemable(links[id])
    /\ links' = [links EXCEPT ![id].st = "used"]
    /\ throttle' = [throttle EXCEPT ![links[id].user] =
                        IF completesLogin THEN NoThrottle ELSE @]
    /\ UNCHANGED <<password, disabled, factor, secrets, codes, batch, resets,
                   sessions, epoch>>

-----------------------------------------------------------------------------
(* The TOTP factor and its recovery codes.                                 *)

\* A new secret replaces a pending one.
StoreSaveTOTPEnrollment(u) ==
    /\ factor[u].st # "active"
    /\ factor' = [factor EXCEPT ![u] = [st |-> "pending", step |-> 0,
                                        gen |-> secrets[u] + 1]]
    /\ secrets' = [secrets EXCEPT ![u] = @ + 1]
    /\ codes' = [codes EXCEPT ![u] = {}]
    /\ UNCHANGED <<password, disabled, throttle, batch, resets, links,
                   sessions, epoch>>

FreshCodes(u) == {batch[u] + 1} \X (1..CodesPerBatch)

IssueCodes(u) ==
    /\ codes' = [codes EXCEPT ![u] = FreshCodes(u)]
    /\ batch' = [batch EXCEPT ![u] = @ + 1]

\* Bug: the enrollment code's step is not recorded as consumed.
ActivateForgetsStep(u, gen, step) ==
    /\ factor[u].st = "pending"
    /\ factor' = [factor EXCEPT ![u] = [st |-> "active", gen |-> gen,
                                        step |-> 0]]
    /\ IssueCodes(u)
    /\ UNCHANGED <<password, disabled, throttle, secrets, resets, links,
                   sessions, epoch>>

StoreActivateTOTP(u, gen, step) ==
    /\ factor[u].st = "pending"
    /\ factor' = [factor EXCEPT ![u] = [st |-> "active", gen |-> gen,
                                        step |-> step]]
    /\ IssueCodes(u)
    /\ UNCHANGED <<password, disabled, throttle, secrets, resets, links,
                   sessions, epoch>>

StepUnused(u, step) == step > factor[u].step

StoreUseTOTP(u, step) ==
    /\ factor[u].st = "active"
    /\ StepUnused(u, step)
    /\ factor' = [factor EXCEPT ![u].step = step]
    /\ throttle' = [throttle EXCEPT ![u] = NoThrottle]
    /\ UNCHANGED <<password, disabled, secrets, codes, batch, resets, links,
                   sessions, epoch>>

\* Bug: the code is compared but not marked used.
RecoveryCodeStays(u, code) ==
    /\ code \in codes[u]
    /\ throttle' = [throttle EXCEPT ![u] = NoThrottle]
    /\ UNCHANGED <<password, disabled, factor, secrets, codes, batch, resets,
                   links, sessions, epoch>>

StoreConsumeRecoveryCode(u, code) ==
    /\ code \in codes[u]
    /\ codes' = [codes EXCEPT ![u] = @ \ {code}]
    /\ throttle' = [throttle EXCEPT ![u] = NoThrottle]
    /\ UNCHANGED <<password, disabled, factor, secrets, batch, resets, links,
                   sessions, epoch>>

StoreDisableTOTP(u) ==
    /\ factor[u].st # "none"
    /\ factor' = [factor EXCEPT ![u] = NoFactor]
    /\ codes' = [codes EXCEPT ![u] = {}]
    /\ UNCHANGED <<password, disabled, throttle, secrets, batch, resets, links,
                   sessions, epoch>>

StoreReplaceRecoveryCodes(u) ==
    /\ factor[u].st = "active"
    /\ IssueCodes(u)
    /\ UNCHANGED <<password, disabled, throttle, factor, secrets, resets,
                   links, sessions, epoch>>

\* Passkeys, which the transaction also deletes, are not a table here.
StoreResetSecondFactor(u) ==
    /\ factor' = [factor EXCEPT ![u] = NoFactor]
    /\ codes' = [codes EXCEPT ![u] = {}]
    /\ sessions' = Swept(u)
    /\ UNCHANGED <<password, disabled, throttle, secrets, batch, resets, links,
                   epoch>>
-----------------------------------------------------------------------------
(* Server-side sessions and the account status.                            *)

\* Bug: a stored credential of any age satisfies the guard.
FingerprintPresent(u, digest) == digest = NoHash \/ password[u] # NoHash

\* A context with a fingerprint must match the credential stored now; an
\* empty fingerprint skips the comparison.
FingerprintCurrent(u, digest) == digest = NoHash \/ digest = password[u]

NewSession(ctx) ==
    [st |-> "live", user |-> ctx.user, level |-> ctx.level,
     pending |-> ctx.pending, digest |-> ctx.digest, root |-> ctx.root]

StoreCreateSession(id, ctx) ==
    /\ sessions[id] = Absent
    /\ FingerprintCurrent(ctx.user, ctx.digest)
    /\ sessions' = [sessions EXCEPT ![id] = NewSession(ctx)]
    /\ UNCHANGED <<password, disabled, throttle, factor, secrets, codes, batch,
                   resets, links, epoch>>

\* Refreshing LastSeenAt ends an idle lapse, never an absolute expiry.
StoreTouchSession(id) ==
    /\ Unrevoked(id)
    /\ \E st \in {"live", sessions[id].st} :
          sessions' = [sessions EXCEPT ![id].st = st]
    /\ UNCHANGED <<password, disabled, throttle, factor, secrets, codes, batch,
                   resets, links, epoch>>

StoreRevokeSession(id) ==
    /\ sessions[id] # Absent
    /\ sessions' = [sessions EXCEPT ![id] = Revoked(id)]
    /\ UNCHANGED <<password, disabled, throttle, factor, secrets, codes, batch,
                   resets, links, epoch>>

StoreRevokeUserSessions(u) ==
    /\ sessions' = Swept(u)
    /\ UNCHANGED <<password, disabled, throttle, factor, secrets, codes, batch,
                   resets, links, epoch>>

\* RevokeUserCredentials differs in the PATs and OAuth grants it also stops.
StoreRevokeUserCredentials(u) ==
    /\ sessions' = Swept(u)
    /\ UNCHANGED <<password, disabled, throttle, factor, secrets, codes, batch,
                   resets, links, epoch>>

\* The guards for the last root and the last workspace administrator, here
\* and in AnonymizeUser, belong to the governance tables; when they fail
\* nothing changes.
StoreSetUserDisabled(u, off) ==
    /\ disabled' = [disabled EXCEPT ![u] = off]
    /\ sessions' = IF off THEN Swept(u) ELSE sessions
    /\ UNCHANGED <<password, throttle, factor, secrets, codes, batch, resets,
                   links, epoch>>

\* The personal data it scrubs is in no table here; the password stays.
StoreAnonymizeUser(u) ==
    /\ disabled' = [disabled EXCEPT ![u] = TRUE]
    /\ factor' = [factor EXCEPT ![u] = NoFactor]
    /\ codes' = [codes EXCEPT ![u] = {}]
    /\ sessions' = Swept(u)
    /\ UNCHANGED <<password, throttle, secrets, batch, resets, links, epoch>>

-----------------------------------------------------------------------------
(* The passing of time.                                                    *)

LockLapses(u) ==
    /\ Locked(u)
    /\ throttle' = [throttle EXCEPT ![u].lock = "lapsed"]
    /\ UNCHANGED <<password, disabled, factor, secrets, codes, batch, resets,
                   links, sessions, epoch>>

ResetLapses(id) ==
    /\ resets[id].st = "open"
    /\ resets' = [resets EXCEPT ![id].st = "lapsed"]
    /\ UNCHANGED <<password, disabled, throttle, factor, secrets, codes, batch,
                   links, sessions, epoch>>

LinkLapses(id) ==
    /\ links[id].st = "open"
    /\ links' = [links EXCEPT ![id].st = "lapsed"]
    /\ UNCHANGED <<password, disabled, throttle, factor, secrets, codes, batch,
                   resets, sessions, epoch>>

SessionLapses(id) ==
    /\ sessions[id].st = "live"
    /\ sessions' = [sessions EXCEPT ![id].st = "lapsed"]
    /\ UNCHANGED <<password, disabled, throttle, factor, secrets, codes, batch,
                   resets, links, epoch>>
=============================================================================
