------------------------------ MODULE Accounts ------------------------------
(***************************************************************************)
(* The Manager's account operations as concurrent calls over AccountStore. *)
(*                                                                         *)
(* A call reads the store, decides, and commits in one transaction, with   *)
(* other calls' transactions falling between any two of its steps.  Each   *)
(* store access is one step; what the call remembers between two steps is  *)
(* its record in `call`.  A call that is refused has changed nothing and   *)
(* ends: which error it reports is not modelled.                           *)
(*                                                                         *)
(* `held` is what the host keeps: every Authentication any call returned,  *)
(* usable until the host drops it.  Recency (Config.StepUpMaxAge), the SSO *)
(* enforcement of the address and the email issuance throttle can only     *)
(* refuse a call, so a call they refuse is one that does not start.        *)
(***************************************************************************)
EXTENDS AccountStore, Sequences, FiniteSets

CONSTANTS
    Requests,     \* concurrent calls into the Manager
    Mixes,        \* what the host may call: operations, rehashes per password
    MaxEra,       \* bound: a password replacement starts below this epoch
    MaxHeld,      \* bound: a sign-in starts while fewer contexts are held
    MaxSecrets,   \* bound: an enrollment starts below this many secrets
    MaxBatch,     \* bound: recovery codes are issued below this batch
    MaxClock,     \* bound: TOTP time steps
    Skew          \* totpadapter Config.Skew

ASSUME BoundsAssumption ==
    {MaxEra, MaxHeld, MaxSecrets, MaxBatch, MaxClock, Skew} \subseteq Nat

\* newID never repeats an identifier.
ASSUME IdentifierAssumption == ResetIDs \cap LinkIDs = {}

VARIABLES
    mix,          \* the operations of this behaviour and its bound on rehashes
    call,         \* in-flight calls
    held,         \* Authentications the host holds
    clock,        \* the TOTP time step of the wall clock
    accepted,     \* history: time steps accepted since the factor was activated
    burned,       \* history: recovery codes accepted
    redeemed,     \* history: times each reset and each link was redeemed
    tally         \* history: wrong second-factor codes since a completed sign-in

history == <<accepted, burned, redeemed, tally>>
vars == <<storeVars, mix, call, held, clock, history>>

\* root is history: the password hash this context descends from.
Authentication == [user: Users, level: {1, 2}, pending: BOOLEAN,
                   digest: MaybeHash, root: MaybeHash]

Idle == [pc |-> "idle"]

\* What an in-flight call remembers at each point between two store accesses.
SignInStart == [pc: {"signin.password"}, user: Users, pwd: Passwords,
                off: BOOLEAN]
SignInRead == [pc: {"signin.throttle"}, user: Users, pwd: Passwords,
               off: BOOLEAN, hash: MaybeHash]
SignInVerified == [pc: {"signin.rehash", "signin.factor", "signin.confirm"},
                   user: Users, pwd: Passwords, hash: Hash]
SignInFinal == [pc: {"signin.record"}, user: Users, pwd: Passwords,
                hash: Hash, tries: 0..2]
SignInRetry == [pc: {"signin.retry"}, user: Users, pwd: Passwords,
                hash: Hash, tries: 0..1]
ChangeCall == [pc: {"change.throttle", "change.password"}, user: Users,
               pwd: Passwords, new: Passwords]
ChangeFinal == [pc: {"change.commit"}, user: Users, new: Passwords]
ResetCall == [pc: {"reset.user", "reset.commit"}, id: ResetIDs, user: Users,
              new: Passwords]
ForgotCall == [pc: {"forgot.commit"}, user: Users, id: ResetIDs]
SessionCall == [pc: {"session.commit", "auth.user", "auth.touch"},
                id: SessionIDs, ctx: Authentication]
SignOutCall == [pc: {"signout.commit"}, id: SessionIDs]
MailCall == [pc: {"mail.commit", "link.user", "link.throttle", "link.factor"},
             user: Users, id: LinkIDs]
LinkCall == [pc: {"link.commit"}, user: Users, id: LinkIDs, pending: BOOLEAN]
TOTPCall == [pc: {"totp.user", "totp.factor", "totp.gate"},
             ctx: Authentication, off: BOOLEAN]
UseCall == [pc: {"totp.use"}, ctx: Authentication, off: BOOLEAN, step: Nat]
RecoverCall == [pc: {"totp.recover"}, ctx: Authentication, off: BOOLEAN,
                code: RecoveryCode]
ActivateCall == [pc: {"activate.commit"}, user: Users, gen: Nat, step: Nat]
\* Calls that remember only their user.
UserCall == [pc: {"signin.fail", "change.fail", "link.fail", "totp.fail",
                  "totp.disable", "enroll.commit", "activate.factor",
                  "regenerate.factor", "regenerate.commit"}, user: Users]

Call ==
    {Idle} \cup SignInStart \cup SignInRead \cup SignInVerified
    \cup SignInFinal \cup SignInRetry \cup ChangeCall \cup ChangeFinal
    \cup ResetCall \cup ForgotCall \cup SessionCall \cup SignOutCall
    \cup MailCall \cup LinkCall \cup TOTPCall \cup UseCall
    \cup RecoverCall \cup ActivateCall \cup UserCall

TypeOK ==
    /\ StoreTypeOK
    /\ mix \in Mixes
    /\ call \in [Requests -> Call]
    /\ held \subseteq Authentication
    /\ clock \in Nat \ (0..Skew)
    /\ accepted \in [Users -> Seq(Nat)]
    /\ burned \in [Users -> Seq(RecoveryCode)]
    /\ redeemed \in [ResetIDs \cup LinkIDs -> Nat]
    /\ tally \in [Users -> Nat]

Init ==
    /\ StoreInit
    /\ mix \in Mixes
    /\ call = [r \in Requests |-> Idle]
    /\ held = {}
    /\ clock = Skew + 1
    /\ accepted = [u \in Users |-> << >>]
    /\ burned = [u \in Users |-> << >>]
    /\ redeemed = [i \in ResetIDs \cup LinkIDs |-> 0]
    /\ tally = [u \in Users |-> 0]

-----------------------------------------------------------------------------
(* The steps of a call.                                                    *)

\* r starts the operation op; the rest of the action is its first store read.
Starts(r, op) == call[r] = Idle /\ op \in mix.ops

At(r, pc) == call[r].pc = pc

Goto(r, next) == call' = [call EXCEPT ![r] = next]

\* r reads the store and goes on.
Reads(r, next) ==
    Goto(r, next) /\ UNCHANGED <<storeVars, mix, held, clock, history>>

\* r ends having changed nothing.
Refused(r) == Reads(r, Idle)

\* r ends, returning no context.
Ends(r) == Goto(r, Idle) /\ UNCHANGED <<mix, held, clock>>

\* r ends, returning ctx to the host.
Returns(r, ctx) ==
    Goto(r, Idle) /\ held' = held \cup {ctx} /\ UNCHANGED <<mix, clock>>

\* r hands the counted failure to RecordLoginFailure and ends.
CountsFailure(r, pc, guess) ==
    /\ At(r, pc)
    /\ LET u == call[r].user
       IN  /\ StoreRecordLoginFailure(u)
           /\ tally' = [tally EXCEPT ![u] =
                            (IF throttle[u].lock = "lapsed" THEN 0 ELSE @) + guess]
    /\ Ends(r)
    /\ UNCHANGED <<accepted, burned, redeemed>>

\* A sign-in of u completed, and with it the lockout window.
Completed(u) == tally' = [tally EXCEPT ![u] = 0]

\* requireRecentInteractive and requireInteractive: no second factor pending,
\* account enabled.
Gate(ctx) == ~ctx.pending /\ ~disabled[ctx.user]

\* StepUpPolicyRequired, the default policy of every scope.
StepUp(ctx) == Gate(ctx) /\ ctx.level = 2

-----------------------------------------------------------------------------
(* AuthenticatePassword.                                                   *)

\* UserByEmail: user.Disabled is remembered from this read on.
SignIn(r) ==
    /\ Starts(r, "SignIn")
    /\ Cardinality(held) < MaxHeld
    /\ \E u \in Users, pwd \in Passwords :
          Reads(r, [pc |-> "signin.password", user |-> u, pwd |-> pwd,
                    off |-> disabled[u]])

SignInReadsPassword(r) ==
    /\ At(r, "signin.password")
    /\ LET c == call[r]
       IN  Reads(r, [pc |-> "signin.throttle", user |-> c.user, pwd |-> c.pwd,
                     off |-> c.off, hash |-> password[c.user]])

\* Reads the throttle, then decides: locked, counted failure, uncounted
\* failure, or verified, with a rehash if the hasher asks for one.
SignInVerifies(r) ==
    /\ At(r, "signin.throttle")
    /\ LET c == call[r]
           verified(pc) == [pc |-> pc, user |-> c.user, pwd |-> c.pwd,
                            hash |-> c.hash]
       IN  \/ /\ Locked(c.user) \/ c.off
              /\ Refused(r)
           \/ /\ ~Locked(c.user) /\ ~c.off /\ ~Matches(c.pwd, c.hash)
              /\ Reads(r, [pc |-> "signin.fail", user |-> c.user])
           \/ /\ ~Locked(c.user) /\ ~c.off /\ Matches(c.pwd, c.hash)
              /\ \/ c.hash.enc < mix.rehashes /\ Reads(r, verified("signin.rehash"))
                 \/ Reads(r, verified("signin.factor"))

SignInFails(r) == CountsFailure(r, "signin.fail", 0)

\* A conflict keeps the verified hash and leaves it to the finalization.
SignInRehashes(r) ==
    /\ At(r, "signin.rehash")
    /\ LET c == call[r]
       IN  \/ /\ StoreRehashPassword(c.user, c.hash)
              /\ Goto(r, [c EXCEPT !.pc = "signin.factor",
                                   !.hash = Rehashed(c.hash)])
              /\ UNCHANGED <<mix, held, clock, history>>
           \/ /\ password[c.user] # c.hash
              /\ Reads(r, [c EXCEPT !.pc = "signin.factor"])

\* TOTPByUserID decides between the pending and the completing path.
SignInReadsFactor(r) ==
    /\ At(r, "signin.factor")
    /\ LET c == call[r]
       IN  IF factor[c.user].st = "active"
           THEN Reads(r, [c EXCEPT !.pc = "signin.confirm"])
           ELSE Reads(r, [pc |-> "signin.record", user |-> c.user,
                          pwd |-> c.pwd, hash |-> c.hash, tries |-> 0])

PasswordContext(u, hash, pending) ==
    [user |-> u, level |-> 1, pending |-> pending, digest |-> hash,
     root |-> hash]

\* confirmPasswordCurrent: the stored hash, while pwd still verifies against it.
Current(u, pwd) == Matches(pwd, password[u])

\* Pending second factor: the re-read is the last look at the credential.
SignInConfirms(r) ==
    /\ At(r, "signin.confirm")
    /\ LET c == call[r]
       IN  IF Current(c.user, c.pwd)
           THEN /\ Returns(r, PasswordContext(c.user, password[c.user], TRUE))
                /\ UNCHANGED <<storeVars, history>>
           ELSE Refused(r)

\* Bug: the bound on the attempts is off by one.
SignInRecordsTooOften(r) ==
    /\ At(r, "signin.record")
    /\ LET c == call[r]
       IN  \/ /\ StoreRecordPasswordAuthentication(c.user, c.hash)
              /\ Returns(r, PasswordContext(c.user, c.hash, FALSE))
              /\ Completed(c.user)
              /\ UNCHANGED <<accepted, burned, redeemed>>
           \/ /\ password[c.user] # c.hash
              /\ IF c.tries > 2 THEN Refused(r)
                 ELSE Reads(r, [c EXCEPT !.pc = "signin.retry"])

\* recordPasswordAuthentication, at most three times.
SignInRecords(r) ==
    /\ At(r, "signin.record")
    /\ LET c == call[r]
       IN  \/ /\ StoreRecordPasswordAuthentication(c.user, c.hash)
              /\ Returns(r, PasswordContext(c.user, c.hash, FALSE))
              /\ Completed(c.user)
              /\ UNCHANGED <<accepted, burned, redeemed>>
           \/ /\ password[c.user] # c.hash
              /\ IF c.tries = 2 THEN Refused(r)
                 ELSE Reads(r, [c EXCEPT !.pc = "signin.retry"])

\* Bug: the retry keeps the hash it already failed with and is not counted.
SignInRetriesBlindly(r) ==
    /\ At(r, "signin.retry")
    /\ Reads(r, [call[r] EXCEPT !.pc = "signin.record"])

SignInRetries(r) ==
    /\ At(r, "signin.retry")
    /\ LET c == call[r]
       IN  IF Current(c.user, c.pwd)
           THEN Reads(r, [pc |-> "signin.record", user |-> c.user,
                          pwd |-> c.pwd, hash |-> password[c.user],
                          tries |-> c.tries + 1])
           ELSE Refused(r)

-----------------------------------------------------------------------------
(* ChangePassword and the reset by email.                                  *)

ChangePassword(r) ==
    /\ Starts(r, "ChangePassword")
    /\ \E ctx \in held, pwd \in Passwords, new \in Passwords :
          /\ Gate(ctx)
          /\ epoch[ctx.user] < MaxEra
          /\ Reads(r, [pc |-> "change.throttle", user |-> ctx.user,
                       pwd |-> pwd, new |-> new])

ChangeReadsThrottle(r) ==
    /\ At(r, "change.throttle")
    /\ IF Locked(call[r].user) THEN Refused(r)
       ELSE Reads(r, [call[r] EXCEPT !.pc = "change.password"])

ChangeVerifies(r) ==
    /\ At(r, "change.password")
    /\ LET c == call[r]
       IN  \/ password[c.user] = NoHash /\ Refused(r)
           \/ /\ Matches(c.pwd, password[c.user])
              /\ Reads(r, [pc |-> "change.commit", user |-> c.user,
                           new |-> c.new])
           \/ /\ password[c.user] # NoHash /\ ~Matches(c.pwd, password[c.user])
              /\ Reads(r, [pc |-> "change.fail", user |-> c.user])

ChangeFails(r) == CountsFailure(r, "change.fail", 0)

ChangeCommits(r) ==
    /\ At(r, "change.commit")
    /\ StoreChangePassword(call[r].user, call[r].new)
    /\ Ends(r)
    /\ UNCHANGED history

Reserved(id) == \E r \in Requests : "id" \in DOMAIN call[r] /\ call[r].id = id

BeginPasswordReset(r) ==
    /\ Starts(r, "BeginPasswordReset")
    /\ \E u \in Users, id \in ResetIDs :
          /\ ~disabled[u]
          /\ resets[id] = Absent /\ ~Reserved(id)
          /\ Reads(r, [pc |-> "forgot.commit", user |-> u, id |-> id])

ForgotCommits(r) ==
    /\ At(r, "forgot.commit")
    /\ StoreCreatePasswordReset(call[r].user, call[r].id)
    /\ Ends(r)
    /\ UNCHANGED history

CompletePasswordReset(r) ==
    /\ Starts(r, "CompletePasswordReset")
    /\ \E id \in ResetIDs, new \in Passwords :
          /\ resets[id].st = "open"
          /\ epoch[resets[id].user] < MaxEra
          /\ Reads(r, [pc |-> "reset.user", id |-> id, user |-> resets[id].user,
                       new |-> new])

ResetReadsUser(r) ==
    /\ At(r, "reset.user")
    /\ IF disabled[call[r].user] THEN Refused(r)
       ELSE Reads(r, [call[r] EXCEPT !.pc = "reset.commit"])

\* The guard of the store, not the earlier read, decides who redeems.
ResetCommits(r) ==
    /\ At(r, "reset.commit")
    /\ LET c == call[r]
       IN  \/ /\ StoreCompletePasswordReset(c.id, c.new)
              /\ redeemed' = [redeemed EXCEPT ![c.id] = @ + 1]
              /\ Completed(resets[c.id].user)
              /\ Ends(r)
              /\ UNCHANGED <<accepted, burned>>
           \/ ~Redeemable(resets[c.id]) /\ Refused(r)

-----------------------------------------------------------------------------
(* Server-side sessions.                                                   *)

CreateSession(r) ==
    /\ Starts(r, "CreateSession")
    /\ \E ctx \in held, id \in SessionIDs :
          /\ ~disabled[ctx.user]
          /\ sessions[id] = Absent /\ ~Reserved(id)
          /\ Reads(r, [pc |-> "session.commit", id |-> id, ctx |-> ctx])

SessionCommits(r) ==
    /\ At(r, "session.commit")
    /\ LET c == call[r]
       IN  \/ /\ StoreCreateSession(c.id, c.ctx)
              /\ Ends(r)
              /\ UNCHANGED history
           \/ ~FingerprintCurrent(c.ctx.user, c.ctx.digest) /\ Refused(r)

\* The Authentication rebuilt from a session has no fingerprint.
SessionContext(id) ==
    [user |-> sessions[id].user, level |-> sessions[id].level,
     pending |-> sessions[id].pending, digest |-> NoHash,
     root |-> sessions[id].root]

AuthenticateSession(r) ==
    /\ Starts(r, "AuthenticateSession")
    /\ Cardinality(held) < MaxHeld
    /\ \E id \in SessionIDs :
          /\ sessions[id].st = "live"
          /\ Reads(r, [pc |-> "auth.user", id |-> id,
                       ctx |-> SessionContext(id)])

\* Config.SessionTouchInterval: a session touched recently is not touched.
AuthReadsUser(r) ==
    /\ At(r, "auth.user")
    /\ LET c == call[r]
       IN  \/ disabled[c.ctx.user] /\ Refused(r)
           \/ /\ ~disabled[c.ctx.user]
              /\ \/ Reads(r, [c EXCEPT !.pc = "auth.touch"])
                 \/ Returns(r, c.ctx) /\ UNCHANGED <<storeVars, history>>

AuthTouches(r) ==
    /\ At(r, "auth.touch")
    /\ LET c == call[r]
       IN  \/ /\ StoreTouchSession(c.id)
              /\ Returns(r, c.ctx)
              /\ UNCHANGED history
           \/ ~Unrevoked(c.id) /\ Refused(r)

\* SignOut holds the token; RevokeSession holds a stepped-up context.
SignOut(r) ==
    /\ Starts(r, "SignOut")
    /\ \E id \in SessionIDs :
          /\ Unrevoked(id)
          /\ Reads(r, [pc |-> "signout.commit", id |-> id])

RevokeSession(r) ==
    /\ Starts(r, "RevokeSession")
    /\ \E ctx \in held, id \in SessionIDs :
          /\ StepUp(ctx)
          /\ sessions[id] # Absent /\ sessions[id].user = ctx.user
          /\ Reads(r, [pc |-> "signout.commit", id |-> id])

SignOutCommits(r) ==
    /\ At(r, "signout.commit")
    /\ StoreRevokeSession(call[r].id)
    /\ Ends(r)
    /\ UNCHANGED history

-----------------------------------------------------------------------------
(* Email sign-in: magic link and one-time code.                            *)

\* An enabled user is sent the credential id.
Mails(r, id) ==
    /\ links[id] = Absent /\ ~Reserved(id)
    /\ \E u \in Users :
          /\ ~disabled[u]
          /\ Reads(r, [pc |-> "mail.commit", user |-> u, id |-> id])

BeginEmailAuthentication(r) ==
    /\ Starts(r, "BeginEmailAuthentication")
    /\ \E id \in LinkIDs \ CodeIDs : Mails(r, id)

BeginEmailOTP(r) ==
    /\ Starts(r, "BeginEmailOTP")
    /\ \E id \in CodeIDs : Mails(r, id)

MailCommits(r) ==
    /\ At(r, "mail.commit")
    /\ StoreCreateEmailAuthentication(call[r].user, call[r].id)
    /\ Ends(r)
    /\ UNCHANGED history

\* The credential id is presented, neither used nor expired.
Presents(r, id) ==
    /\ links[id].st = "open"
    /\ Reads(r, [pc |-> "link.user", user |-> links[id].user, id |-> id])

CompleteEmailAuthentication(r) ==
    /\ Starts(r, "CompleteEmailAuthentication")
    /\ Cardinality(held) < MaxHeld
    /\ \E id \in LinkIDs \ CodeIDs : Presents(r, id)

CompleteEmailOTP(r) ==
    /\ Starts(r, "CompleteEmailOTP")
    /\ Cardinality(held) < MaxHeld
    /\ \E id \in CodeIDs : Presents(r, id)

LinkReadsUser(r) ==
    /\ At(r, "link.user")
    /\ IF disabled[call[r].user] THEN Refused(r)
       ELSE Reads(r, [call[r] EXCEPT !.pc = "link.throttle"])

\* A one-time code is compared here and may be wrong; a link was compared
\* before the user was read.
LinkReadsThrottle(r) ==
    /\ At(r, "link.throttle")
    /\ LET c == call[r]
       IN  \/ Locked(c.user) /\ Refused(r)
           \/ /\ ~Locked(c.user)
              /\ \/ Reads(r, [c EXCEPT !.pc = "link.factor"])
                 \/ c.id \in CodeIDs /\ Reads(r, [pc |-> "link.fail", user |-> c.user])

LinkFails(r) == CountsFailure(r, "link.fail", 0)

LinkReadsFactor(r) ==
    /\ At(r, "link.factor")
    /\ LET c == call[r]
       IN  Reads(r, [pc |-> "link.commit", user |-> c.user, id |-> c.id,
                     pending |-> factor[c.user].st = "active"])

EmailContext(u, pending) ==
    [user |-> u, level |-> 1, pending |-> pending, digest |-> NoHash,
     root |-> NoHash]

LinkCommits(r) ==
    /\ At(r, "link.commit")
    /\ LET c == call[r]
       IN  \/ /\ StoreConsumeEmailAuthentication(c.id, ~c.pending)
              /\ redeemed' = [redeemed EXCEPT ![c.id] = @ + 1]
              /\ IF c.pending THEN UNCHANGED tally ELSE Completed(links[c.id].user)
              /\ Returns(r, EmailContext(c.user, c.pending))
              /\ UNCHANGED <<accepted, burned>>
           \/ ~Redeemable(links[c.id]) /\ Refused(r)

-----------------------------------------------------------------------------
(* TOTP enrollment, verification and recovery codes.                       *)

\* The time steps totpadapter's Validate accepts now.
Window == (clock - Skew)..(clock + Skew)

BeginTOTPEnrollment(r) ==
    /\ Starts(r, "BeginTOTPEnrollment")
    /\ \E ctx \in held :
          /\ Gate(ctx)
          /\ secrets[ctx.user] < MaxSecrets
          /\ Reads(r, [pc |-> "enroll.commit", user |-> ctx.user])

EnrollCommits(r) ==
    /\ At(r, "enroll.commit")
    /\ LET u == call[r].user
       IN  \/ StoreSaveTOTPEnrollment(u) /\ Ends(r) /\ UNCHANGED history
           \/ factor[u].st = "active" /\ Refused(r)

ConfirmTOTPEnrollment(r) ==
    /\ Starts(r, "ConfirmTOTPEnrollment")
    /\ \E ctx \in held :
          /\ Gate(ctx)
          /\ batch[ctx.user] < MaxBatch
          /\ Reads(r, [pc |-> "activate.factor", user |-> ctx.user])

\* A wrong enrollment code is audited, not counted.
ActivateReadsFactor(r) ==
    /\ At(r, "activate.factor")
    /\ LET u == call[r].user
       IN  \/ Refused(r)
           \/ /\ factor[u].st = "pending"
              /\ \E step \in Window :
                    Reads(r, [pc |-> "activate.commit", user |-> u,
                              gen |-> factor[u].gen, step |-> step])

ActivateCommits(r) ==
    /\ At(r, "activate.commit")
    /\ LET c == call[r]
       IN  \/ /\ StoreActivateTOTP(c.user, c.gen, c.step)
              /\ accepted' = [accepted EXCEPT ![c.user] = <<c.step>>]
              /\ Ends(r)
              /\ UNCHANGED <<burned, redeemed, tally>>
           \/ factor[c.user].st # "pending" /\ Refused(r)

\* VerifyTOTP, and DisableTOTP which begins with it (off).
VerifyTOTP(r) ==
    /\ Starts(r, "VerifyTOTP")
    /\ \E ctx \in held, off \in BOOLEAN :
          /\ off => "DisableTOTP" \in mix.ops
          /\ ~Locked(ctx.user)
          /\ Reads(r, [pc |-> "totp.user", ctx |-> ctx, off |-> off])

TOTPReadsUser(r) ==
    /\ At(r, "totp.user")
    /\ IF disabled[call[r].ctx.user] THEN Refused(r)
       ELSE Reads(r, [call[r] EXCEPT !.pc = "totp.factor"])

\* The code is a TOTP of the stored secret, or it is tried as a recovery
\* code: one of those issued so far, or (batch 0) a wrong guess.
TOTPValidates(r) ==
    /\ At(r, "totp.factor")
    /\ LET c == call[r]
           u == c.ctx.user
       IN  \/ factor[u].st # "active" /\ Refused(r)
           \/ /\ factor[u].st = "active"
              /\ \/ \E step \in Window :
                       Reads(r, [pc |-> "totp.use", ctx |-> c.ctx,
                                 off |-> c.off, step |-> step])
                 \/ \E code \in {<<0, 1>>} \cup ((1..batch[u]) \X (1..CodesPerBatch)) :
                       Reads(r, [pc |-> "totp.recover", ctx |-> c.ctx,
                                 off |-> c.off, code |-> code])

\* promoteTOTP: the fingerprint of the first factor travels along.
Promoted(ctx) == [ctx EXCEPT !.level = 2, !.pending = FALSE]

\* VerifyTOTP returns the promotion; DisableTOTP goes on with it.
Promotes(r) ==
    LET c == call[r]
    IN  IF c.off
        THEN /\ Goto(r, [pc |-> "totp.gate", ctx |-> Promoted(c.ctx), off |-> TRUE])
             /\ UNCHANGED <<mix, held, clock>>
        ELSE Returns(r, Promoted(c.ctx))

\* A replayed step is refused and not counted.
TOTPUses(r) ==
    /\ At(r, "totp.use")
    /\ LET c == call[r]
           u == c.ctx.user
       IN  \/ /\ StoreUseTOTP(u, c.step)
              /\ accepted' = [accepted EXCEPT ![u] = Append(@, c.step)]
              /\ Completed(u)
              /\ Promotes(r)
              /\ UNCHANGED <<burned, redeemed>>
           \/ /\ factor[u].st # "active" \/ ~StepUnused(u, c.step)
              /\ Refused(r)

TOTPRecovers(r) ==
    /\ At(r, "totp.recover")
    /\ LET c == call[r]
           u == c.ctx.user
       IN  \/ /\ StoreConsumeRecoveryCode(u, c.code)
              /\ burned' = [burned EXCEPT ![u] = Append(@, c.code)]
              /\ Completed(u)
              /\ Promotes(r)
              /\ UNCHANGED <<accepted, redeemed>>
           \/ /\ c.code \notin codes[u]
              /\ Reads(r, [pc |-> "totp.fail", user |-> u])

TOTPFails(r) == CountsFailure(r, "totp.fail", 1)

\* requireScopedStepUp on the promoted context re-reads the account status.
DisablePassesGate(r) ==
    /\ At(r, "totp.gate")
    /\ LET u == call[r].ctx.user
       IN  IF disabled[u] THEN Refused(r)
           ELSE Reads(r, [pc |-> "totp.disable", user |-> u])

DisableCommits(r) ==
    /\ At(r, "totp.disable")
    /\ LET u == call[r].user
       IN  \/ /\ StoreDisableTOTP(u)
              /\ accepted' = [accepted EXCEPT ![u] = << >>]
              /\ Ends(r)
              /\ UNCHANGED <<burned, redeemed, tally>>
           \/ factor[u].st = "none" /\ Refused(r)

RegenerateRecoveryCodes(r) ==
    /\ Starts(r, "RegenerateRecoveryCodes")
    /\ \E ctx \in held :
          /\ StepUp(ctx)
          /\ batch[ctx.user] < MaxBatch
          /\ Reads(r, [pc |-> "regenerate.factor", user |-> ctx.user])

RegenerateReadsFactor(r) ==
    /\ At(r, "regenerate.factor")
    /\ IF factor[call[r].user].st = "active"
       THEN Reads(r, [call[r] EXCEPT !.pc = "regenerate.commit"])
       ELSE Refused(r)

RegenerateCommits(r) ==
    /\ At(r, "regenerate.commit")
    /\ LET u == call[r].user
       IN  \/ StoreReplaceRecoveryCodes(u) /\ Ends(r) /\ UNCHANGED history
           \/ factor[u].st # "active" /\ Refused(r)

-----------------------------------------------------------------------------
(* Administration: what authorizes the actor is another account's state, so *)
(* as far as the target is concerned each operation is its transaction.     *)

Admin(op) == op \in mix.ops /\ UNCHANGED <<mix, call, held, clock>>

\* Two calls that read the same status both commit, so off may be no change.
SetUserDisabled(u) ==
    /\ Admin("SetUserDisabled")
    /\ \E off \in BOOLEAN : StoreSetUserDisabled(u, off)
    /\ UNCHANGED history

RevokeUserSessions(u) ==
    /\ Admin("RevokeUserSessions")
    /\ StoreRevokeUserSessions(u)
    /\ UNCHANGED history

RevokeUserCredentials(u) ==
    /\ Admin("RevokeUserCredentials")
    /\ StoreRevokeUserCredentials(u)
    /\ UNCHANGED history

AdminResetSecondFactor(u) ==
    /\ Admin("AdminResetSecondFactor")
    /\ StoreResetSecondFactor(u)
    /\ accepted' = [accepted EXCEPT ![u] = << >>]
    /\ UNCHANGED <<burned, redeemed, tally>>

AnonymizeUser(u) ==
    /\ Admin("AnonymizeUser")
    /\ StoreAnonymizeUser(u)
    /\ accepted' = [accepted EXCEPT ![u] = << >>]
    /\ UNCHANGED <<burned, redeemed, tally>>

-----------------------------------------------------------------------------
(* Time: deadlines pass, and the TOTP step advances.                       *)

Lapse ==
    /\ "Lapse" \in mix.ops
    /\ \/ \E u \in Users : LockLapses(u)
       \/ \E id \in ResetIDs : ResetLapses(id)
       \/ \E id \in LinkIDs : LinkLapses(id)
       \/ \E id \in SessionIDs : SessionLapses(id)
    /\ UNCHANGED <<mix, call, held, clock, history>>

Tick ==
    /\ "Tick" \in mix.ops
    /\ clock < MaxClock
    /\ clock' = clock + 1
    /\ UNCHANGED <<storeVars, mix, call, held, history>>

\* The host drops a context, for instance when its client goes away.
Forget ==
    /\ \E ctx \in held : held' = held \ {ctx}
    /\ UNCHANGED <<storeVars, mix, call, clock, history>>

-----------------------------------------------------------------------------

Start(r) ==
    \/ SignIn(r) \/ ChangePassword(r) \/ BeginPasswordReset(r)
    \/ CompletePasswordReset(r) \/ CreateSession(r) \/ AuthenticateSession(r)
    \/ SignOut(r) \/ RevokeSession(r)
    \/ BeginEmailAuthentication(r) \/ BeginEmailOTP(r)
    \/ CompleteEmailAuthentication(r) \/ CompleteEmailOTP(r)
    \/ BeginTOTPEnrollment(r)
    \/ ConfirmTOTPEnrollment(r) \/ VerifyTOTP(r) \/ RegenerateRecoveryCodes(r)

\* The next store access of an in-flight call.
Step(r) ==
    \/ SignInReadsPassword(r) \/ SignInVerifies(r) \/ SignInFails(r)
    \/ SignInRehashes(r) \/ SignInReadsFactor(r) \/ SignInConfirms(r)
    \/ SignInRecords(r) \/ SignInRetries(r)
    \/ ChangeReadsThrottle(r) \/ ChangeVerifies(r) \/ ChangeFails(r)
    \/ ChangeCommits(r) \/ ForgotCommits(r) \/ ResetReadsUser(r)
    \/ ResetCommits(r)
    \/ SessionCommits(r) \/ AuthReadsUser(r) \/ AuthTouches(r)
    \/ SignOutCommits(r)
    \/ MailCommits(r) \/ LinkReadsUser(r) \/ LinkReadsThrottle(r)
    \/ LinkFails(r) \/ LinkReadsFactor(r) \/ LinkCommits(r)
    \/ EnrollCommits(r) \/ ActivateReadsFactor(r) \/ ActivateCommits(r)
    \/ TOTPReadsUser(r) \/ TOTPValidates(r) \/ TOTPUses(r) \/ TOTPRecovers(r)
    \/ TOTPFails(r) \/ DisablePassesGate(r) \/ DisableCommits(r)
    \/ RegenerateReadsFactor(r) \/ RegenerateCommits(r)

Administer(u) ==
    \/ SetUserDisabled(u) \/ RevokeUserSessions(u) \/ RevokeUserCredentials(u)
    \/ AdminResetSecondFactor(u) \/ AnonymizeUser(u)

Next ==
    \/ \E r \in Requests : Start(r) \/ Step(r)
    \/ \E u \in Users : Administer(u)
    \/ Lapse \/ Tick \/ Forget

Spec == Init /\ [][Next]_vars

\* A call in flight is a running goroutine: it takes its next step.  Nothing
\* makes the host start calls or time reach a deadline.
FairSpec == Spec /\ \A r \in Requests : WF_vars(Step(r))

-----------------------------------------------------------------------------
(* Properties.                                                             *)

\* The stored hash always encodes the latest replacement: a sign-in that
\* verified an older hash never writes its rehash over a change or a reset
\* (RehashPassword compares the hash the verification ran against).
RehashNeverResurrects ==
    \A u \in Users : password[u] # NoHash => password[u].era = epoch[u]

\* No session minted from a password outlives that password: whatever the
\* interleaving of sign-in, second factor, CreateSession and ChangePassword
\* or CompletePasswordReset, an unrevoked session whose context carried a
\* fingerprint descends from the password installed now.
NoStaleSession ==
    \A i \in SessionIDs :
        Unrevoked(i) /\ sessions[i].digest # NoHash
        => /\ password[sessions[i].user] # NoHash
           /\ sessions[i].digest.era = password[sessions[i].user].era

\* A password sign-in that returns a complete context (no second factor
\* pending) does so at an instant when the hash it verified is the stored one,
\* however many rehashes, changes and resets it raced.
CompletesOnlyCurrent ==
    [][\A ctx \in held' \ held :
          ctx.digest # NoHash /\ ctx.level = 1 /\ ~ctx.pending
          => ctx.digest = password[ctx.user]]_vars

\* A reset token or an email sign-in credential is redeemed at most once,
\* however many calls read it unused before the first of them commits.
RedeemedOnce == \A i \in ResetIDs \cup LinkIDs : redeemed[i] <= 1

\* Only a completed sign-in forgives wrong second-factor codes: signing in
\* again with the password, or redeeming fresh links, while a factor is
\* pending never lowers the count the lockout is based on.
GuessesAreCounted == \A u \in Users : tally[u] <= throttle[u].fails

\* The time steps accepted for an installed factor strictly increase, the
\* enrollment code's included, so no code works twice in its window.
StepsIncrease ==
    \A u \in Users : \A i, j \in 1..Len(accepted[u]) :
        i < j => accepted[u][i] < accepted[u][j]

\* No recovery code is accepted twice, across regenerations and re-enrollment.
CodesBurnOnce ==
    \A u \in Users : \A i, j \in 1..Len(burned[u]) :
        i # j => burned[u][i] # burned[u][j]

\* The abstract view of the session table.
PromisedSession ==
    [i \in SessionIDs |->
        IF sessions[i] = Absent THEN [st |-> "unborn"]
        ELSE [st   |-> IF Unrevoked(i) THEN "live" ELSE "dead",
              user |-> sessions[i].user,
              gen  |-> IF sessions[i].digest = NoHash THEN NoHash
                       ELSE sessions[i].digest.era]]

Promise == INSTANCE CredentialPromise
           WITH Free <- NoHash, generation <- epoch, session <- PromisedSession

\* The account operations implement CredentialPromise: a replacement ends all
\* sessions in its own step, minting is for the password in force, and what
\* has ended stays ended.
KeepsPromise == Promise!PromiseSpec

\* Every call is answered: the finalization retries after a conflict, but
\* never for ever.
CallsAreAnswered == \A r \in Requests : call[r] # Idle ~> call[r] = Idle

\* What Authentication.CredentialDigest is documented to give: no session
\* whose authentication goes back to a replaced password survives the
\* replacement, intermediate sessions included.
SweepIsExhaustive ==
    \A i \in SessionIDs :
        Unrevoked(i) /\ sessions[i].root # NoHash
        => sessions[i].root.era = epoch[sessions[i].user]
=============================================================================
