--------------------------- MODULE AccountsProofs ---------------------------
(***************************************************************************)
(* Proofs about Accounts, for any sets of users, passwords, identifiers    *)
(* and concurrent calls, and any bounds.  First the types; then what a     *)
(* step does to credentials and sessions (CredentialEffects) and the       *)
(* theorems on those, refinement of CredentialPromise among them; then     *)
(* what a step does to the lockout, the single-use tokens, the TOTP steps  *)
(* and the recovery codes (HistoryEffects), each theorem with an inductive *)
(* invariant of its own over the effects.                                  *)
(***************************************************************************)
EXTENDS Accounts, TLAPS

-----------------------------------------------------------------------------
(* The store's transactions preserve its types.                            *)

\* What a stored session holds.
LEMMA SessionShape ==
  ASSUME NEW s \in Session, s.st # "absent"
  PROVE  /\ s.user \in Users /\ s.level \in {1, 2} /\ s.pending \in BOOLEAN
         /\ s.root \in MaybeHash
  BY DEF Session, Absent

\* revokeUserSessionsLocked yields session records.
LEMMA SweptType ==
    ASSUME StoreTypeOK, NEW u \in Users
    PROVE  Swept(u) \in [SessionIDs -> Session]
  BY DEF StoreTypeOK, Swept, Session, Unrevoked, Revoked, Absent

\* A replacement is a hash of the next era.
LEMMA ReplacementType ==
    ASSUME StoreTypeOK, NEW u \in Users, NEW pwd \in Passwords
    PROVE  Replacement(u, pwd) \in Hash
  BY DEF StoreTypeOK, Replacement, Hash

\* Store.ChangePassword.
LEMMA ChangePasswordType ==
    ASSUME StoreTypeOK, NEW u \in Users, NEW pwd \in Passwords,
           StoreChangePassword(u, pwd)
    PROVE  StoreTypeOK'
  BY SweptType, ReplacementType DEF StoreChangePassword, StoreTypeOK, MaybeHash

\* A rehash keeps the password and the era.
LEMMA RehashedType ==
    ASSUME NEW hash \in Hash
    PROVE  Rehashed(hash) \in Hash /\ Rehashed(hash).era = hash.era
  BY DEF Rehashed, Hash

\* Store.RehashPassword.
LEMMA RehashType ==
    ASSUME StoreTypeOK, NEW u \in Users, NEW expected \in Hash,
           StoreRehashPassword(u, expected)
    PROVE  StoreTypeOK'
  BY DEF StoreRehashPassword, StoreTypeOK, MaybeHash, Hash, Rehashed

\* Store.RecordPasswordAuthentication.
LEMMA RecordType ==
    ASSUME StoreTypeOK, NEW u \in Users, NEW hash,
           StoreRecordPasswordAuthentication(u, hash)
    PROVE  StoreTypeOK'
  BY DEF StoreRecordPasswordAuthentication, StoreTypeOK, Throttle, NoThrottle

\* Store.RecordLoginFailure.
LEMMA FailureType ==
    ASSUME StoreTypeOK, NEW u \in Users, StoreRecordLoginFailure(u)
    PROVE  StoreTypeOK'
  BY DEF StoreRecordLoginFailure, StoreTypeOK, Throttle, Failed

\* Store.CreatePasswordReset.
LEMMA CreateResetType ==
    ASSUME StoreTypeOK, NEW u \in Users, NEW id \in ResetIDs,
           StoreCreatePasswordReset(u, id)
    PROVE  StoreTypeOK'
  BY DEF StoreCreatePasswordReset, StoreTypeOK, Token

\* Store.CompletePasswordReset.
LEMMA CompleteResetType ==
    ASSUME StoreTypeOK, NEW id \in ResetIDs, NEW pwd \in Passwords,
           StoreCompletePasswordReset(id, pwd)
    PROVE  StoreTypeOK'
  <1>1. resets[id].user \in Users
    BY DEF StoreCompletePasswordReset, Redeemable, StoreTypeOK, Token, Absent
  <1>2. Redeem(id) \in [ResetIDs -> Token]
    BY DEF StoreCompletePasswordReset, Redeemable, Redeem, StoreTypeOK, Token,
       Absent
  <1> QED
    BY <1>1, <1>2, SweptType, ReplacementType
    DEF StoreCompletePasswordReset, StoreTypeOK, MaybeHash, Throttle, NoThrottle

\* Store.CreateEmailAuthentication.
LEMMA CreateLinkType ==
    ASSUME StoreTypeOK, NEW u \in Users, NEW id \in LinkIDs,
           StoreCreateEmailAuthentication(u, id)
    PROVE  StoreTypeOK'
  BY DEF StoreCreateEmailAuthentication, StoreTypeOK, Token

\* Store.ConsumeEmailAuthentication.
LEMMA ConsumeLinkType ==
    ASSUME StoreTypeOK, NEW id \in LinkIDs, NEW completesLogin \in BOOLEAN,
           StoreConsumeEmailAuthentication(id, completesLogin)
    PROVE  StoreTypeOK'
  <1>1. links[id].user \in Users /\ links' \in [LinkIDs -> Token]
    BY DEF StoreConsumeEmailAuthentication, Redeemable, StoreTypeOK, Token,
       Absent
  <1> QED
    BY <1>1 DEF StoreConsumeEmailAuthentication, StoreTypeOK, Throttle,
       NoThrottle

\* Store.SaveTOTPEnrollment.
LEMMA EnrollType ==
    ASSUME StoreTypeOK, NEW u \in Users,
           StoreSaveTOTPEnrollment(u)
    PROVE  StoreTypeOK'
  BY DEF StoreSaveTOTPEnrollment, StoreTypeOK, Factor

\* A fresh batch of recovery codes.
LEMMA IssueType ==
    ASSUME StoreTypeOK, NEW u \in Users, IssueCodes(u)
    PROVE  codes' \in [Users -> SUBSET RecoveryCode] /\ batch' \in [Users -> Nat]
  BY DEF IssueCodes, StoreTypeOK, FreshCodes, RecoveryCode

\* Store.ActivateTOTP.
LEMMA ActivateType ==
    ASSUME StoreTypeOK, NEW u \in Users, NEW gen \in Nat, NEW step \in Nat,
           StoreActivateTOTP(u, gen, step)
    PROVE  StoreTypeOK'
  BY IssueType DEF StoreActivateTOTP, StoreTypeOK, Factor

\* Store.UseTOTP.
LEMMA UseType ==
    ASSUME StoreTypeOK, NEW u \in Users, NEW step \in Nat,
           StoreUseTOTP(u, step)
    PROVE  StoreTypeOK'
  BY DEF StoreUseTOTP, StoreTypeOK, Factor, Throttle, NoThrottle

\* Store.ConsumeRecoveryCode.
LEMMA RecoverType ==
    ASSUME StoreTypeOK, NEW u \in Users, NEW code,
           StoreConsumeRecoveryCode(u, code)
    PROVE  StoreTypeOK'
  BY DEF StoreConsumeRecoveryCode, StoreTypeOK, Throttle, NoThrottle

\* Store.DisableTOTP.
LEMMA DisableType ==
    ASSUME StoreTypeOK, NEW u \in Users,
           StoreDisableTOTP(u)
    PROVE  StoreTypeOK'
  BY DEF StoreDisableTOTP, StoreTypeOK, Factor, NoFactor

\* Store.ReplaceRecoveryCodes.
LEMMA RegenerateType ==
    ASSUME StoreTypeOK, NEW u \in Users,
           StoreReplaceRecoveryCodes(u)
    PROVE  StoreTypeOK'
  BY IssueType DEF StoreReplaceRecoveryCodes, StoreTypeOK

\* Store.ResetSecondFactor.
LEMMA ResetFactorType ==
    ASSUME StoreTypeOK, NEW u \in Users,
           StoreResetSecondFactor(u)
    PROVE  StoreTypeOK'
  BY SweptType DEF StoreResetSecondFactor, StoreTypeOK, Factor, NoFactor

\* Store.CreateSession.
LEMMA CreateSessionType ==
    ASSUME StoreTypeOK, NEW id \in SessionIDs, NEW ctx \in Authentication,
           StoreCreateSession(id, ctx)
    PROVE  StoreTypeOK'
  BY DEF StoreCreateSession, StoreTypeOK, Session, NewSession, Authentication

\* Store.TouchSession.
LEMMA TouchType ==
    ASSUME StoreTypeOK, NEW id \in SessionIDs,
           StoreTouchSession(id)
    PROVE  StoreTypeOK'
  BY DEF StoreTouchSession, StoreTypeOK, Session, Unrevoked, Absent

\* Store.RevokeSession.
LEMMA RevokeType ==
    ASSUME StoreTypeOK, NEW id \in SessionIDs,
           StoreRevokeSession(id)
    PROVE  StoreTypeOK'
  BY DEF StoreRevokeSession, StoreTypeOK, Session, Revoked, Absent

\* Store.RevokeUserSessions.
LEMMA RevokeAllType ==
    ASSUME StoreTypeOK, NEW u \in Users,
           StoreRevokeUserSessions(u)
    PROVE  StoreTypeOK'
  BY SweptType DEF StoreRevokeUserSessions, StoreTypeOK

\* Store.RevokeUserCredentials.
LEMMA RevokeCredentialsType ==
    ASSUME StoreTypeOK, NEW u \in Users,
           StoreRevokeUserCredentials(u)
    PROVE  StoreTypeOK'
  BY SweptType DEF StoreRevokeUserCredentials, StoreTypeOK

\* Store.AnonymizeUser.
LEMMA AnonymizeType ==
    ASSUME StoreTypeOK, NEW u \in Users,
           StoreAnonymizeUser(u)
    PROVE  StoreTypeOK'
  BY SweptType DEF StoreAnonymizeUser, StoreTypeOK, Factor, NoFactor

\* Store.SetUserDisabled.
LEMMA DisabledType ==
    ASSUME StoreTypeOK, NEW u \in Users, NEW off \in BOOLEAN,
           StoreSetUserDisabled(u, off)
    PROVE  StoreTypeOK'
  BY SweptType DEF StoreSetUserDisabled, StoreTypeOK

\* Deadlines that pass.
LEMMA LapseType ==
    ASSUME StoreTypeOK, Lapse
    PROVE  StoreTypeOK'
  <1>1. CASE \E u \in Users : LockLapses(u)
    BY <1>1 DEF LockLapses, StoreTypeOK, Throttle
  <1>2. CASE \E id \in ResetIDs : ResetLapses(id)
    BY <1>2 DEF ResetLapses, StoreTypeOK, Token, Absent
  <1>3. CASE \E id \in LinkIDs : LinkLapses(id)
    BY <1>3 DEF LinkLapses, StoreTypeOK, Token, Absent
  <1>4. CASE \E id \in SessionIDs : SessionLapses(id)
    BY <1>4 DEF SessionLapses, StoreTypeOK, Session, Absent
  <1> QED BY <1>1, <1>2, <1>3, <1>4 DEF Lapse

-----------------------------------------------------------------------------
(* Calls.                                                                  *)

\* A call's program point determines what it remembers.
LEMMA CallShapes ==
    ASSUME NEW c \in Call
    PROVE
      /\ c.pc \in {"signin.password"}
         => c \in SignInStart
      /\ c.pc \in {"signin.throttle"}
         => c \in SignInRead
      /\ c.pc \in {"signin.rehash", "signin.factor", "signin.confirm"}
         => c \in SignInVerified
      /\ c.pc \in {"signin.record"}
         => c \in SignInFinal
      /\ c.pc \in {"signin.retry"}
         => c \in SignInRetry
      /\ c.pc \in {"change.throttle", "change.password"}
         => c \in ChangeCall
      /\ c.pc \in {"change.commit"}
         => c \in ChangeFinal
      /\ c.pc \in {"reset.user", "reset.commit"}
         => c \in ResetCall
      /\ c.pc \in {"forgot.commit"}
         => c \in ForgotCall
      /\ c.pc \in {"session.commit", "auth.user", "auth.touch"}
         => c \in SessionCall
      /\ c.pc \in {"signout.commit"}
         => c \in SignOutCall
      /\ c.pc \in {"mail.commit", "link.user", "link.throttle",
                   "link.factor"}
         => c \in MailCall
      /\ c.pc \in {"link.commit"}
         => c \in LinkCall
      /\ c.pc \in {"totp.user", "totp.factor", "totp.gate"}
         => c \in TOTPCall
      /\ c.pc \in {"totp.use"}
         => c \in UseCall
      /\ c.pc \in {"totp.recover"}
         => c \in RecoverCall
      /\ c.pc \in {"activate.commit"}
         => c \in ActivateCall
      /\ c.pc \in {"signin.fail", "change.fail", "link.fail", "totp.fail",
                   "totp.disable", "enroll.commit", "activate.factor",
                   "regenerate.factor", "regenerate.commit"}
         => c \in UserCall
  BY DEF Call, Idle, SignInStart, SignInRead, SignInVerified, SignInFinal,
         SignInRetry, ChangeCall, ChangeFinal, ResetCall, ForgotCall,
         SessionCall, SignOutCall, MailCall, LinkCall, TOTPCall, UseCall, RecoverCall,
         ActivateCall, UserCall

\* The part of the state that no read of a call touches.
LEMMA ReadsType ==
    ASSUME TypeOK, NEW r \in Requests, NEW next \in Call, Reads(r, next)
    PROVE  TypeOK'
  BY DEF TypeOK, StoreTypeOK, Reads, Goto, storeVars, history

\* A refused call.
LEMMA RefusedType ==
    ASSUME TypeOK, NEW r \in Requests, Refused(r)
    PROVE  TypeOK'
  BY ReadsType DEF Refused, Call

\* A counted failure.
LEMMA CountsFailureType ==
    ASSUME TypeOK, NEW r \in Requests, NEW guess \in {0, 1},
           NEW pc \in {"signin.fail", "change.fail", "link.fail", "totp.fail"},
           CountsFailure(r, pc, guess)
    PROVE  TypeOK'
  <1>1. call[r] \in UserCall
    BY CallShapes DEF TypeOK, CountsFailure, At
  <1>2. StoreTypeOK'
    BY <1>1, FailureType DEF TypeOK, CountsFailure, UserCall
  <1>3. tally' \in [Users -> Nat]
    BY <1>1 DEF TypeOK, CountsFailure, UserCall
  <1>4. call' \in [Requests -> Call] /\ UNCHANGED <<mix, held, clock>>
    BY DEF TypeOK, CountsFailure, Ends, Goto, Call
  <1> QED
    BY <1>2, <1>3, <1>4 DEF TypeOK, CountsFailure

\* Validate's window holds time steps only: the clock starts beyond the skew.
LEMMA WindowType ==
    ASSUME TypeOK
    PROVE  Window \subseteq Nat
  BY BoundsAssumption DEF TypeOK, Window

\* AuthenticatePassword.
LEMMA SignInType ==
    ASSUME TypeOK, NEW r \in Requests,
           \/ SignIn(r) \/ SignInReadsPassword(r) \/ SignInVerifies(r)
           \/ SignInFails(r) \/ SignInRehashes(r) \/ SignInReadsFactor(r)
           \/ SignInConfirms(r) \/ SignInRecords(r) \/ SignInRetries(r)
    PROVE  TypeOK'
  <1>0. call[r] \in Call
    BY DEF TypeOK
  <1>1. CASE SignIn(r)
    <2>1. PICK u \in Users, pwd \in Passwords :
            Reads(r, [pc |-> "signin.password", user |-> u, pwd |-> pwd,
                      off |-> disabled[u]])
      BY <1>1 DEF SignIn
    <2>2. [pc |-> "signin.password", user |-> u, pwd |-> pwd,
           off |-> disabled[u]] \in Call
      BY DEF Call, SignInStart, TypeOK, StoreTypeOK
    <2> QED BY <2>1, <2>2, ReadsType
  <1>2. CASE SignInReadsPassword(r)
    <2>1. call[r] \in SignInStart
      BY <1>0, <1>2, CallShapes DEF SignInReadsPassword, At
    <2>2. [pc |-> "signin.throttle", user |-> call[r].user, pwd |-> call[r].pwd,
           off |-> call[r].off, hash |-> password[call[r].user]] \in Call
      BY <2>1 DEF Call, SignInStart, SignInRead, TypeOK, StoreTypeOK
    <2> QED BY <1>2, <2>2, ReadsType DEF SignInReadsPassword
  <1>3. CASE SignInVerifies(r)
    <2>1. call[r] \in SignInRead
      BY <1>0, <1>3, CallShapes DEF SignInVerifies, At
    <2>2. [pc |-> "signin.fail", user |-> call[r].user] \in Call
      BY <2>1 DEF Call, SignInRead, UserCall
    <2>3. ASSUME Matches(call[r].pwd, call[r].hash),
                 NEW pc \in {"signin.rehash", "signin.factor"}
          PROVE  [pc |-> pc, user |-> call[r].user, pwd |-> call[r].pwd,
                  hash |-> call[r].hash] \in Call
      BY <2>1, <2>3 DEF Call, SignInRead, SignInVerified, Matches, MaybeHash
    <2> QED
      BY <1>3, <2>2, <2>3, ReadsType, RefusedType DEF SignInVerifies
  <1>4. CASE SignInFails(r)
    BY <1>4, CountsFailureType DEF SignInFails
  <1>5. CASE SignInRehashes(r)
    <2>1. call[r] \in SignInVerified
      BY <1>0, <1>5, CallShapes DEF SignInRehashes, At
    <2>2. [call[r] EXCEPT !.pc = "signin.factor"] \in Call
      BY <2>1 DEF Call, SignInVerified
    <2>3. [call[r] EXCEPT !.pc = "signin.factor",
                          !.hash = Rehashed(call[r].hash)] \in Call
      BY Zenon, <2>1, RehashedType DEF Call, SignInVerified
    <2>4. CASE StoreRehashPassword(call[r].user, call[r].hash)
      BY ZenonT(40), <1>5, <2>1, <2>3, <2>4, RehashType
      DEF SignInRehashes, TypeOK, SignInVerified, Goto, history, StoreRehashPassword
    <2> QED BY <1>5, <2>2, <2>4, ReadsType DEF SignInRehashes
  <1>6. CASE SignInReadsFactor(r)
    <2>1. call[r] \in SignInVerified
      BY <1>0, <1>6, CallShapes DEF SignInReadsFactor, At
    <2>2. /\ [call[r] EXCEPT !.pc = "signin.confirm"] \in Call
          /\ [pc |-> "signin.record", user |-> call[r].user,
              pwd |-> call[r].pwd, hash |-> call[r].hash, tries |-> 0] \in Call
      BY <2>1 DEF Call, SignInVerified, SignInFinal
    <2> QED BY <1>6, <2>2, ReadsType DEF SignInReadsFactor
  <1>7. CASE SignInConfirms(r)
    <2>1. call[r] \in SignInVerified
      BY <1>0, <1>7, CallShapes DEF SignInConfirms, At
    <2>2. PasswordContext(call[r].user, password[call[r].user], TRUE)
            \in Authentication
      BY <2>1 DEF SignInVerified, PasswordContext, Authentication, TypeOK,
         StoreTypeOK
    <2>3. Idle \in Call
      BY DEF Call
    <2> QED
      BY Zenon, <1>7, <2>2, <2>3, RefusedType
      DEF SignInConfirms, Returns, Goto, TypeOK, StoreTypeOK, storeVars, history
  <1>8. CASE SignInRecords(r)
    <2>1. call[r] \in SignInFinal
      BY <1>0, <1>8, CallShapes DEF SignInRecords, At
    <2>2. call[r].tries # 2 => [call[r] EXCEPT !.pc = "signin.retry"] \in Call
      BY <2>1 DEF Call, SignInFinal, SignInRetry
    <2>3. PasswordContext(call[r].user, call[r].hash, FALSE) \in Authentication
      BY <2>1 DEF SignInFinal, PasswordContext, Authentication, MaybeHash
    <2>4. CASE StoreRecordPasswordAuthentication(call[r].user, call[r].hash)
               /\ Returns(r, PasswordContext(call[r].user, call[r].hash, FALSE))
               /\ Completed(call[r].user)
               /\ UNCHANGED <<accepted, burned, redeemed>>
      <3>1. StoreTypeOK'
        BY <2>1, <2>4, RecordType DEF TypeOK, SignInFinal
      <3> QED
        BY Zenon, <2>1, <2>3, <2>4, <3>1 DEF TypeOK, SignInFinal, Returns,
           Goto, Completed, Call
    <2> QED BY Zenon, <1>8, <2>2, <2>4, ReadsType, RefusedType
               DEF SignInRecords
  <1>9. CASE SignInRetries(r)
    <2>1. call[r] \in SignInRetry
      BY <1>0, <1>9, CallShapes DEF SignInRetries, At
    <2>2. password[call[r].user] \in MaybeHash
      BY <2>1 DEF SignInRetry, TypeOK, StoreTypeOK
    <2>3. /\ call[r].tries + 1 \in 0..2
          /\ call[r].user \in Users /\ call[r].pwd \in Passwords
      BY <2>1 DEF SignInRetry
    <2>4. Current(call[r].user, call[r].pwd) => password[call[r].user] \in Hash
      BY <2>2 DEF Current, Matches, MaybeHash
    <2>5. Current(call[r].user, call[r].pwd)
          => [pc |-> "signin.record", user |-> call[r].user,
              pwd |-> call[r].pwd, hash |-> password[call[r].user],
              tries |-> call[r].tries + 1] \in Call
      BY <2>3, <2>4 DEF Call, SignInFinal
    <2> QED BY <1>9, <2>5, ReadsType, RefusedType DEF SignInRetries
  <1> QED
    BY <1>1, <1>2, <1>3, <1>4, <1>5, <1>6, <1>7, <1>8, <1>9

\* ChangePassword.
LEMMA ChangeType ==
    ASSUME TypeOK, NEW r \in Requests,
           \/ ChangePassword(r) \/ ChangeReadsThrottle(r) \/ ChangeVerifies(r)
           \/ ChangeFails(r) \/ ChangeCommits(r)
    PROVE  TypeOK'
  <1>0. call[r] \in Call
    BY DEF TypeOK
  <1>1. CASE ChangePassword(r)
    <2>1. PICK ctx \in held, pwd \in Passwords, new \in Passwords :
            Reads(r, [pc |-> "change.throttle", user |-> ctx.user,
                      pwd |-> pwd, new |-> new])
      BY <1>1 DEF ChangePassword
    <2>2. [pc |-> "change.throttle", user |-> ctx.user, pwd |-> pwd,
           new |-> new] \in Call
      BY DEF Call, ChangeCall, TypeOK, Authentication
    <2> QED BY <2>1, <2>2, ReadsType
  <1>2. CASE ChangeReadsThrottle(r)
    <2>1. call[r] \in ChangeCall
      BY <1>0, <1>2, CallShapes DEF ChangeReadsThrottle, At
    <2>2. [call[r] EXCEPT !.pc = "change.password"] \in Call
      BY <2>1 DEF Call, ChangeCall
    <2> QED BY <1>2, <2>2, ReadsType, RefusedType DEF ChangeReadsThrottle
  <1>3. CASE ChangeVerifies(r)
    <2>1. call[r] \in ChangeCall
      BY <1>0, <1>3, CallShapes DEF ChangeVerifies, At
    <2>2. /\ [pc |-> "change.commit", user |-> call[r].user,
              new |-> call[r].new] \in Call
          /\ [pc |-> "change.fail", user |-> call[r].user] \in Call
      BY <2>1 DEF Call, ChangeCall, ChangeFinal, UserCall
    <2> QED BY <1>3, <2>2, ReadsType, RefusedType DEF ChangeVerifies
  <1>4. CASE ChangeFails(r)
    BY <1>4, CountsFailureType DEF ChangeFails
  <1>5. CASE ChangeCommits(r)
    <2>1. call[r] \in ChangeFinal
      BY <1>0, <1>5, CallShapes DEF ChangeCommits, At
    <2>2. StoreTypeOK'
      BY <1>5, <2>1, ChangePasswordType DEF TypeOK, ChangeCommits, ChangeFinal
    <2> QED
      BY <1>5, <2>2 DEF TypeOK, ChangeCommits, Ends, Goto, Call, history
  <1> QED BY <1>1, <1>2, <1>3, <1>4, <1>5

\* BeginPasswordReset and CompletePasswordReset.
LEMMA ResetType ==
    ASSUME TypeOK, NEW r \in Requests,
           \/ BeginPasswordReset(r) \/ ForgotCommits(r)
           \/ CompletePasswordReset(r) \/ ResetReadsUser(r) \/ ResetCommits(r)
    PROVE  TypeOK'
  <1>0. call[r] \in Call
    BY DEF TypeOK
  <1>1. CASE BeginPasswordReset(r)
    <2>1. PICK u \in Users, id \in ResetIDs :
            Reads(r, [pc |-> "forgot.commit", user |-> u, id |-> id])
      BY <1>1 DEF BeginPasswordReset
    <2>2. [pc |-> "forgot.commit", user |-> u, id |-> id] \in Call
      BY DEF Call, ForgotCall
    <2> QED BY <2>1, <2>2, ReadsType
  <1>2. CASE ForgotCommits(r)
    <2>1. call[r] \in ForgotCall
      BY <1>0, <1>2, CallShapes DEF ForgotCommits, At
    <2>2. StoreTypeOK'
      BY <1>2, <2>1, CreateResetType DEF TypeOK, ForgotCommits, ForgotCall
    <2> QED
      BY <1>2, <2>2 DEF TypeOK, ForgotCommits, Ends, Goto, Call, history
  <1>3. CASE CompletePasswordReset(r)
    <2>1. PICK id \in ResetIDs, new \in Passwords :
            /\ resets[id].st = "open"
            /\ Reads(r, [pc |-> "reset.user", id |-> id,
                         user |-> resets[id].user, new |-> new])
      BY <1>3 DEF CompletePasswordReset
    <2>a. resets[id] \in Token
      BY DEF TypeOK, StoreTypeOK
    <2>2. resets[id].user \in Users
      BY <2>1, <2>a DEF Token, Absent
    <2>3. [pc |-> "reset.user", id |-> id, user |-> resets[id].user,
           new |-> new] \in Call
      BY <2>2 DEF Call, ResetCall
    <2> QED BY <2>1, <2>3, ReadsType
  <1>4. CASE ResetReadsUser(r)
    <2>1. call[r] \in ResetCall
      BY <1>0, <1>4, CallShapes DEF ResetReadsUser, At
    <2>2. [call[r] EXCEPT !.pc = "reset.commit"] \in Call
      BY <2>1 DEF Call, ResetCall
    <2> QED BY <1>4, <2>2, ReadsType, RefusedType DEF ResetReadsUser
  <1>5. CASE ResetCommits(r)
    <2>1. call[r] \in ResetCall
      BY <1>0, <1>5, CallShapes DEF ResetCommits, At
    <2>2. CASE /\ StoreCompletePasswordReset(call[r].id, call[r].new)
               /\ redeemed' = [redeemed EXCEPT ![call[r].id] = @ + 1]
               /\ Completed(resets[call[r].id].user)
               /\ Ends(r)
               /\ UNCHANGED <<accepted, burned>>
      <3>1. StoreTypeOK'
        BY <2>1, <2>2, CompleteResetType DEF TypeOK, ResetCall
      <3>2. tally' \in [Users -> Nat]
        BY ZenonT(40), <2>2 DEF TypeOK, Completed
      <3>3. redeemed' \in [ResetIDs \cup LinkIDs -> Nat]
        BY <2>1, <2>2 DEF TypeOK, ResetCall
      <3> QED BY <2>2, <3>1, <3>2, <3>3 DEF TypeOK, Ends, Goto, Call
    <2> QED BY <1>5, <2>2, RefusedType DEF ResetCommits
  <1> QED BY <1>1, <1>2, <1>3, <1>4, <1>5

\* CreateSession, AuthenticateSession, SignOut and RevokeSession.
LEMMA SessionType ==
    ASSUME TypeOK, NEW r \in Requests,
           \/ CreateSession(r) \/ SessionCommits(r) \/ AuthenticateSession(r)
           \/ AuthReadsUser(r) \/ AuthTouches(r) \/ SignOut(r)
           \/ RevokeSession(r) \/ SignOutCommits(r)
    PROVE  TypeOK'
  <1>0. call[r] \in Call
    BY DEF TypeOK
  <1>1. CASE CreateSession(r)
    <2>1. PICK ctx \in held, id \in SessionIDs :
            Reads(r, [pc |-> "session.commit", id |-> id, ctx |-> ctx])
      BY <1>1 DEF CreateSession
    <2>2. [pc |-> "session.commit", id |-> id, ctx |-> ctx] \in Call
      BY DEF Call, SessionCall, TypeOK
    <2> QED BY <2>1, <2>2, ReadsType
  <1>2. CASE SessionCommits(r)
    <2>1. call[r] \in SessionCall
      BY <1>0, <1>2, CallShapes DEF SessionCommits, At
    <2>2. CASE /\ StoreCreateSession(call[r].id, call[r].ctx)
               /\ Ends(r) /\ UNCHANGED history
      <3>1. StoreTypeOK'
        BY <2>1, <2>2, CreateSessionType DEF TypeOK, SessionCall
      <3> QED BY <2>2, <3>1 DEF TypeOK, Ends, Goto, Call, history
    <2> QED BY <1>2, <2>2, RefusedType DEF SessionCommits
  <1>3. CASE AuthenticateSession(r)
    <2>1. PICK id \in SessionIDs :
            /\ sessions[id].st = "live"
            /\ Reads(r, [pc |-> "auth.user", id |-> id,
                         ctx |-> SessionContext(id)])
      BY <1>3 DEF AuthenticateSession
    <2>2. SessionContext(id) \in Authentication
      <3>1. sessions[id] \in Session
        BY DEF TypeOK, StoreTypeOK
      <3>2. /\ sessions[id].user \in Users /\ sessions[id].level \in {1, 2}
            /\ sessions[id].pending \in BOOLEAN /\ sessions[id].root \in MaybeHash
        BY <2>1, <3>1, SessionShape
      <3> QED BY <3>2 DEF SessionContext, Authentication, MaybeHash
    <2>3. [pc |-> "auth.user", id |-> id, ctx |-> SessionContext(id)] \in Call
      BY <2>2 DEF Call, SessionCall
    <2> QED BY <2>1, <2>3, ReadsType
  <1>4. CASE AuthReadsUser(r)
    <2>1. call[r] \in SessionCall
      BY <1>0, <1>4, CallShapes DEF AuthReadsUser, At
    <2>2. [call[r] EXCEPT !.pc = "auth.touch"] \in Call
      BY <2>1 DEF Call, SessionCall
    <2>3. CASE Returns(r, call[r].ctx) /\ UNCHANGED <<storeVars, history>>
      BY <2>1, <2>3
      DEF TypeOK, StoreTypeOK, SessionCall, Returns, Goto, Call, storeVars, history
    <2> QED BY <1>4, <2>2, <2>3, ReadsType, RefusedType DEF AuthReadsUser
  <1>5. CASE AuthTouches(r)
    <2>1. call[r] \in SessionCall
      BY <1>0, <1>5, CallShapes DEF AuthTouches, At
    <2>2. CASE /\ StoreTouchSession(call[r].id)
               /\ Returns(r, call[r].ctx) /\ UNCHANGED history
      <3>1. StoreTypeOK'
        BY <2>1, <2>2, TouchType DEF TypeOK, SessionCall
      <3> QED BY <2>1, <2>2, <3>1 DEF TypeOK, SessionCall, Returns, Goto,
                 Call, history
    <2> QED BY <1>5, <2>2, RefusedType DEF AuthTouches
  <1>6. CASE SignOut(r) \/ RevokeSession(r)
    <2>1. PICK id \in SessionIDs : Reads(r, [pc |-> "signout.commit", id |-> id])
      BY <1>6 DEF SignOut, RevokeSession
    <2>2. [pc |-> "signout.commit", id |-> id] \in Call
      BY DEF Call, SignOutCall
    <2> QED BY <2>1, <2>2, ReadsType
  <1>7. CASE SignOutCommits(r)
    <2>1. call[r] \in SignOutCall
      BY <1>0, <1>7, CallShapes DEF SignOutCommits, At
    <2>2. StoreTypeOK'
      BY <1>7, <2>1, RevokeType DEF TypeOK, SignOutCommits, SignOutCall
    <2> QED BY <1>7, <2>2 DEF TypeOK, SignOutCommits, Ends, Goto, Call, history
  <1> QED BY <1>1, <1>2, <1>3, <1>4, <1>5, <1>6, <1>7

\* Sign-in by email.
LEMMA EmailType ==
    ASSUME TypeOK, NEW r \in Requests,
           \/ BeginEmailAuthentication(r) \/ BeginEmailOTP(r) \/ MailCommits(r)
           \/ CompleteEmailAuthentication(r) \/ CompleteEmailOTP(r)
           \/ LinkReadsUser(r)
           \/ LinkReadsThrottle(r) \/ LinkFails(r) \/ LinkReadsFactor(r)
           \/ LinkCommits(r)
    PROVE  TypeOK'
  <1>0. call[r] \in Call
    BY DEF TypeOK
  <1>1. CASE BeginEmailAuthentication(r) \/ BeginEmailOTP(r)
    <2>1. PICK u \in Users, id \in LinkIDs :
            Reads(r, [pc |-> "mail.commit", user |-> u, id |-> id])
      BY ZenonT(40), <1>1, CodeAssumption DEF BeginEmailAuthentication,
         BeginEmailOTP, Mails
    <2>2. [pc |-> "mail.commit", user |-> u, id |-> id] \in Call
      BY DEF Call, MailCall
    <2> QED BY <2>1, <2>2, ReadsType
  <1>2. CASE MailCommits(r)
    <2>1. call[r] \in MailCall
      BY Zenon, <1>0, <1>2, CallShapes DEF MailCommits, At
    <2>2. StoreTypeOK'
      BY Zenon, <1>2, <2>1, CreateLinkType DEF TypeOK, MailCommits, MailCall
    <2> QED BY <1>2, <2>2 DEF TypeOK, MailCommits, Ends, Goto, Call, history
  <1>3. CASE CompleteEmailAuthentication(r) \/ CompleteEmailOTP(r)
    <2>1. PICK id \in LinkIDs :
            /\ links[id].st = "open"
            /\ Reads(r, [pc |-> "link.user", user |-> links[id].user, id |-> id])
      BY <1>3, CodeAssumption
      DEF CompleteEmailAuthentication, CompleteEmailOTP, Presents
    <2>a. links[id] \in Token
      BY DEF TypeOK, StoreTypeOK
    <2>2. links[id].user \in Users
      BY <2>1, <2>a DEF Token, Absent
    <2>3. [pc |-> "link.user", user |-> links[id].user, id |-> id] \in Call
      BY <2>2 DEF Call, MailCall
    <2> QED BY <2>1, <2>3, ReadsType
  <1>4. CASE LinkReadsUser(r)
    <2>1. call[r] \in MailCall
      BY <1>0, <1>4, CallShapes DEF LinkReadsUser, At
    <2>2. [call[r] EXCEPT !.pc = "link.throttle"] \in Call
      BY <2>1 DEF Call, MailCall
    <2> QED BY <1>4, <2>2, ReadsType, RefusedType DEF LinkReadsUser
  <1>5. CASE LinkReadsThrottle(r)
    <2>1. call[r] \in MailCall
      BY <1>0, <1>5, CallShapes DEF LinkReadsThrottle, At
    <2>2. /\ [call[r] EXCEPT !.pc = "link.factor"] \in Call
          /\ [pc |-> "link.fail", user |-> call[r].user] \in Call
      BY <2>1 DEF Call, MailCall, UserCall
    <2> QED BY <1>5, <2>2, ReadsType, RefusedType DEF LinkReadsThrottle
  <1>6. CASE LinkFails(r)
    BY <1>6, CountsFailureType DEF LinkFails
  <1>7. CASE LinkReadsFactor(r)
    <2>1. call[r] \in MailCall
      BY ZenonT(40), <1>0, <1>7, CallShapes DEF LinkReadsFactor, At
    <2>2. [pc |-> "link.commit", user |-> call[r].user, id |-> call[r].id,
           pending |-> factor[call[r].user].st = "active"] \in Call
      BY ZenonT(40), <2>1 DEF Call, MailCall, LinkCall
    <2> QED BY <1>7, <2>2, ReadsType DEF LinkReadsFactor
  <1>8. CASE LinkCommits(r)
    <2>1. call[r] \in LinkCall
      BY ZenonT(40), <1>0, <1>8, CallShapes DEF LinkCommits, At
    <2>2. EmailContext(call[r].user, call[r].pending) \in Authentication
      BY ZenonT(40), <2>1 DEF LinkCall, EmailContext, Authentication, MaybeHash
    <2>3. CASE /\ StoreConsumeEmailAuthentication(call[r].id, ~call[r].pending)
               /\ redeemed' = [redeemed EXCEPT ![call[r].id] = @ + 1]
               /\ IF call[r].pending THEN UNCHANGED tally ELSE Completed(links[call[r].id].user)
               /\ Returns(r, EmailContext(call[r].user, call[r].pending))
               /\ UNCHANGED <<accepted, burned>>
      <3>1. StoreTypeOK'
        BY Zenon, <2>1, <2>3, ConsumeLinkType DEF TypeOK, LinkCall
      <3>2. tally' \in [Users -> Nat]
        <4>1. CASE call[r].pending
          BY <2>3, <4>1 DEF TypeOK
        <4>2. CASE ~call[r].pending
          <5>1. Completed(links[call[r].id].user)
            BY <2>3, <4>2
          <5> QED BY ZenonT(40), <5>1 DEF TypeOK, Completed
        <4> QED BY <4>1, <4>2
      <3> QED
        BY <2>1, <2>2, <2>3, <3>1, <3>2 DEF TypeOK, LinkCall, Returns, Goto,
           Call
    <2> QED BY ZenonT(40), <1>8, <2>3, RefusedType DEF LinkCommits
  <1> QED BY <1>1, <1>2, <1>3, <1>4, <1>5, <1>6, <1>7, <1>8

\* TOTP enrollment and the regeneration of recovery codes.
LEMMA EnrollmentType ==
    ASSUME TypeOK, NEW r \in Requests,
           \/ BeginTOTPEnrollment(r) \/ EnrollCommits(r)
           \/ ConfirmTOTPEnrollment(r) \/ ActivateReadsFactor(r)
           \/ ActivateCommits(r) \/ RegenerateRecoveryCodes(r)
           \/ RegenerateReadsFactor(r) \/ RegenerateCommits(r)
    PROVE  TypeOK'
  <1>0. call[r] \in Call
    BY DEF TypeOK
  <1>1. ASSUME NEW ctx \in held, NEW pc \in {"enroll.commit", "activate.factor",
                                             "regenerate.factor"}
        PROVE  [pc |-> pc, user |-> ctx.user] \in Call
    BY DEF Call, UserCall, TypeOK, Authentication
  <1>2. CASE BeginTOTPEnrollment(r)
    BY Zenon, <1>1, <1>2, ReadsType DEF BeginTOTPEnrollment
  <1>3. CASE EnrollCommits(r)
    <2>1. call[r] \in UserCall
      BY Zenon, <1>0, <1>3, CallShapes DEF EnrollCommits, At
    <2>2. CASE StoreSaveTOTPEnrollment(call[r].user) /\ Ends(r) /\ UNCHANGED history
      <3>1. StoreTypeOK'
        BY <2>1, <2>2, EnrollType DEF TypeOK, UserCall
      <3> QED BY <2>2, <3>1 DEF TypeOK, Ends, Goto, Call, history
    <2> QED BY ZenonT(40), <1>3, <2>2, RefusedType DEF EnrollCommits
  <1>4. CASE ConfirmTOTPEnrollment(r)
    BY Zenon, <1>1, <1>4, ReadsType DEF ConfirmTOTPEnrollment
  <1>5. CASE ActivateReadsFactor(r)
    <2>1. call[r] \in UserCall
      BY Zenon, <1>0, <1>5, CallShapes DEF ActivateReadsFactor, At
    <2>2. factor[call[r].user].gen \in Nat
      BY <2>1 DEF TypeOK, StoreTypeOK, Factor, UserCall
    <2>3. Window \subseteq Nat
      BY WindowType
    <2>4. ASSUME NEW step \in Window
          PROVE  [pc |-> "activate.commit", user |-> call[r].user,
                  gen |-> factor[call[r].user].gen, step |-> step] \in Call
      BY ZenonT(40), <2>1, <2>2, <2>3 DEF Call, ActivateCall, UserCall
    <2> QED BY Zenon, <1>5, <2>4, ReadsType, RefusedType
               DEF ActivateReadsFactor
  <1>6. CASE ActivateCommits(r)
    <2>1. call[r] \in ActivateCall
      BY ZenonT(40), <1>0, <1>6, CallShapes DEF ActivateCommits, At
    <2>2. CASE /\ StoreActivateTOTP(call[r].user, call[r].gen, call[r].step)
               /\ accepted' = [accepted EXCEPT ![call[r].user] = <<call[r].step>>]
               /\ Ends(r)
               /\ UNCHANGED <<burned, redeemed, tally>>
      <3>1. StoreTypeOK'
        BY <2>1, <2>2, ActivateType DEF TypeOK, ActivateCall
      <3>2. accepted' \in [Users -> Seq(Nat)]
        BY <2>1, <2>2 DEF TypeOK, ActivateCall
      <3> QED BY <2>2, <3>1, <3>2 DEF TypeOK, Ends, Goto, Call
    <2> QED BY ZenonT(40), <1>6, <2>2, RefusedType DEF ActivateCommits
  <1>7. CASE RegenerateRecoveryCodes(r)
    BY Zenon, <1>1, <1>7, ReadsType DEF RegenerateRecoveryCodes
  <1>8. CASE RegenerateReadsFactor(r)
    <2>1. call[r] \in UserCall
      BY <1>0, <1>8, CallShapes DEF RegenerateReadsFactor, At
    <2>2. [call[r] EXCEPT !.pc = "regenerate.commit"] \in Call
      BY <2>1 DEF Call, UserCall
    <2> QED BY <1>8, <2>2, ReadsType, RefusedType DEF RegenerateReadsFactor
  <1>9. CASE RegenerateCommits(r)
    <2>1. call[r] \in UserCall
      BY ZenonT(40), <1>0, <1>9, CallShapes DEF RegenerateCommits, At
    <2>2. CASE StoreReplaceRecoveryCodes(call[r].user) /\ Ends(r) /\ UNCHANGED history
      <3>1. StoreTypeOK'
        BY <2>1, <2>2, RegenerateType DEF TypeOK, UserCall
      <3> QED BY <2>2, <3>1 DEF TypeOK, Ends, Goto, Call, history
    <2> QED BY ZenonT(40), <1>9, <2>2, RefusedType DEF RegenerateCommits
  <1> QED BY <1>2, <1>3, <1>4, <1>5, <1>6, <1>7, <1>8, <1>9

\* A promoted context is a context, whether it is returned or goes on to
\* DisableTOTP.
LEMMA PromotesType ==
    ASSUME TypeOK, NEW r \in Requests, call[r].ctx \in Authentication,
           Promotes(r)
    PROVE  /\ call' \in [Requests -> Call]
           /\ held' \subseteq Authentication
           /\ clock' = clock /\ mix' = mix
  <1>1. Promoted(call[r].ctx) \in Authentication
    BY Zenon DEF Promoted, Authentication
  <1>2. [pc |-> "totp.gate", ctx |-> Promoted(call[r].ctx), off |-> TRUE] \in Call
    BY <1>1 DEF Call, TOTPCall
  <1> QED BY Zenon, <1>1, <1>2 DEF Promotes, Returns, Goto, TypeOK, Call

\* VerifyTOTP and DisableTOTP.
LEMMA SecondFactorType ==
    ASSUME TypeOK, NEW r \in Requests,
           \/ VerifyTOTP(r) \/ TOTPReadsUser(r) \/ TOTPValidates(r)
           \/ TOTPUses(r) \/ TOTPRecovers(r) \/ TOTPFails(r)
           \/ DisablePassesGate(r) \/ DisableCommits(r)
    PROVE  TypeOK'
  <1>0. call[r] \in Call
    BY DEF TypeOK
  <1>1. CASE VerifyTOTP(r)
    <2>1. PICK ctx \in held, off \in BOOLEAN :
            Reads(r, [pc |-> "totp.user", ctx |-> ctx, off |-> off])
      BY <1>1 DEF VerifyTOTP
    <2>2. [pc |-> "totp.user", ctx |-> ctx, off |-> off] \in Call
      BY DEF Call, TOTPCall, TypeOK
    <2> QED BY <2>1, <2>2, ReadsType
  <1>2. CASE TOTPReadsUser(r)
    <2>1. call[r] \in TOTPCall
      BY <1>0, <1>2, CallShapes DEF TOTPReadsUser, At
    <2>2. [call[r] EXCEPT !.pc = "totp.factor"] \in Call
      BY <2>1 DEF Call, TOTPCall
    <2> QED BY <1>2, <2>2, ReadsType, RefusedType DEF TOTPReadsUser
  <1>3. CASE TOTPValidates(r)
    <2> DEFINE c == call[r]
               u == c.ctx.user
    <2>1. call[r] \in TOTPCall
      BY Zenon, <1>0, <1>3, CallShapes DEF TOTPValidates, At
    <2>2. u \in Users /\ batch[u] \in Nat
      BY <2>1 DEF TypeOK, StoreTypeOK, TOTPCall, Authentication
    <2>3. ASSUME NEW step \in Window
          PROVE  [pc |-> "totp.use", ctx |-> c.ctx, off |-> c.off,
                  step |-> step] \in Call
      BY ZenonT(40), <2>1, WindowType DEF Call, UseCall, TOTPCall
    <2>4. ASSUME NEW code \in {<<0, 1>>} \cup ((1..batch[u]) \X (1..CodesPerBatch))
          PROVE  [pc |-> "totp.recover", ctx |-> c.ctx, off |-> c.off,
                  code |-> code] \in Call
      <3>1. code \in RecoveryCode
        <4>1. <<0, 1>> \in Nat \X (1..CodesPerBatch)
          <5>1. 1 \in 1..CodesPerBatch
            BY BatchAssumption
          <5> QED  BY <5>1
        <4>n. \A n \in Nat : 1..n \subseteq Nat
          OBVIOUS
        <4>2. 1..batch[u] \subseteq Nat
          BY <2>2, <4>n
        <4> HIDE DEF u
        <4>3. (1..batch[u]) \X (1..CodesPerBatch) \subseteq Nat \X (1..CodesPerBatch)
          BY <4>2
        <4> QED BY <2>4, <4>1, <4>3 DEF RecoveryCode
      <3> QED BY <2>1, <3>1 DEF Call, RecoverCall, TOTPCall
    <2> QED
      BY ZenonT(40), <1>3, <2>3, <2>4, ReadsType, RefusedType DEF TOTPValidates
  <1>4. CASE TOTPUses(r)
    <2> DEFINE u == call[r].ctx.user
    <2>1. call[r] \in UseCall
      BY ZenonT(40), <1>0, <1>4, CallShapes DEF TOTPUses, At
    <2>2. CASE /\ StoreUseTOTP(u, call[r].step)
               /\ accepted' = [accepted EXCEPT ![u] = Append(@, call[r].step)]
               /\ Completed(u)
               /\ Promotes(r)
               /\ UNCHANGED <<burned, redeemed>>
      <3>1. u \in Users /\ call[r].step \in Nat
        BY <2>1 DEF UseCall, Authentication
      <3>2. StoreTypeOK'
        BY <2>2, <3>1, UseType DEF TypeOK
      <3>3. accepted' \in [Users -> Seq(Nat)] /\ tally' \in [Users -> Nat]
        BY <2>2, <3>1 DEF TypeOK, Completed
      <3>4. /\ call' \in [Requests -> Call] /\ held' \subseteq Authentication
            /\ clock' = clock /\ mix' = mix
        BY <2>1, <2>2, PromotesType DEF UseCall
      <3> QED BY <2>2, <3>2, <3>3, <3>4 DEF TypeOK
    <2> QED BY ZenonT(40), <1>4, <2>2, RefusedType DEF TOTPUses
  <1>5. CASE TOTPRecovers(r)
    <2> DEFINE u == call[r].ctx.user
    <2>1. call[r] \in RecoverCall
      BY ZenonT(40), <1>0, <1>5, CallShapes DEF TOTPRecovers, At
    <2>2. u \in Users /\ call[r].code \in RecoveryCode
      BY <2>1 DEF RecoverCall, Authentication
    <2>3. [pc |-> "totp.fail", user |-> u] \in Call
      BY <2>2 DEF Call, UserCall
    <2>4. CASE /\ StoreConsumeRecoveryCode(u, call[r].code)
               /\ burned' = [burned EXCEPT ![u] = Append(@, call[r].code)]
               /\ Completed(u)
               /\ Promotes(r)
               /\ UNCHANGED <<accepted, redeemed>>
      <3>2. StoreTypeOK'
        BY <2>2, <2>4, RecoverType DEF TypeOK
      <3>1. /\ burned \in [Users -> Seq(RecoveryCode)] /\ tally \in [Users -> Nat]
            /\ burned[u] \in Seq(RecoveryCode)
        BY <2>2 DEF TypeOK
      <3>a. Append(burned[u], call[r].code) \in Seq(RecoveryCode)
        BY <2>2, <3>1
      <3>3. burned' \in [Users -> Seq(RecoveryCode)] /\ tally' \in [Users -> Nat]
        BY <2>2, <2>4, <3>1, <3>a DEF Completed
      <3>4. /\ call' \in [Requests -> Call] /\ held' \subseteq Authentication
            /\ clock' = clock /\ mix' = mix
        BY <2>1, <2>4, PromotesType DEF RecoverCall
      <3> QED BY <2>4, <3>2, <3>3, <3>4 DEF TypeOK
    <2> QED BY ZenonT(40), <1>5, <2>3, <2>4, ReadsType DEF TOTPRecovers
  <1>6. CASE TOTPFails(r)
    BY <1>6, CountsFailureType DEF TOTPFails
  <1>7. CASE DisablePassesGate(r)
    <2>1. call[r] \in TOTPCall
      BY ZenonT(40), <1>0, <1>7, CallShapes DEF DisablePassesGate, At
    <2>2. [pc |-> "totp.disable", user |-> call[r].ctx.user] \in Call
      BY ZenonT(40), <2>1 DEF Call, UserCall, TOTPCall, Authentication
    <2> QED BY <1>7, <2>2, ReadsType, RefusedType DEF DisablePassesGate
  <1>8. CASE DisableCommits(r)
    <2>1. call[r] \in UserCall
      BY ZenonT(40), <1>0, <1>8, CallShapes DEF DisableCommits, At
    <2>2. CASE /\ StoreDisableTOTP(call[r].user)
               /\ accepted' = [accepted EXCEPT ![call[r].user] = << >>]
               /\ Ends(r)
               /\ UNCHANGED <<burned, redeemed, tally>>
      <3>1. StoreTypeOK'
        BY <2>1, <2>2, DisableType DEF TypeOK, UserCall
      <3>2. accepted' \in [Users -> Seq(Nat)]
        BY <2>1, <2>2 DEF TypeOK, UserCall
      <3> QED BY <2>2, <3>1, <3>2 DEF TypeOK, Ends, Goto, Call
    <2> QED BY ZenonT(40), <1>8, <2>2, RefusedType DEF DisableCommits
  <1> QED BY <1>1, <1>2, <1>3, <1>4, <1>5, <1>6, <1>7, <1>8

-----------------------------------------------------------------------------
(* Type correctness.                                                       *)

\* Every step of the system preserves the types.
LEMMA NextType ==
    ASSUME TypeOK, [Next]_vars
    PROVE  TypeOK'
  <1>1. ASSUME NEW r \in Requests, Start(r) \/ Step(r)
        PROVE  TypeOK'
    BY <1>1, SignInType, ChangeType, ResetType, SessionType, EmailType,
       EnrollmentType, SecondFactorType
    DEF Start, Step
  <1>2. ASSUME NEW u \in Users, Administer(u)
        PROVE  TypeOK'
    <2>1. CASE SetUserDisabled(u)
      <3>1. StoreTypeOK'
        BY <2>1, DisabledType DEF TypeOK, SetUserDisabled
      <3> QED BY <2>1, <3>1 DEF TypeOK, SetUserDisabled, Admin, history
    <2>2. CASE RevokeUserSessions(u)
      <3>1. StoreTypeOK'
        BY <2>2, RevokeAllType DEF TypeOK, RevokeUserSessions
      <3> QED BY <2>2, <3>1 DEF TypeOK, RevokeUserSessions, Admin, history
    <2>3. CASE AdminResetSecondFactor(u)
      <3>1. StoreTypeOK'
        BY <2>3, ResetFactorType DEF TypeOK, AdminResetSecondFactor
      <3>2. accepted' \in [Users -> Seq(Nat)]
        BY <2>3 DEF TypeOK, AdminResetSecondFactor
      <3> QED BY <2>3, <3>1, <3>2 DEF TypeOK, AdminResetSecondFactor, Admin
    <2>4. CASE RevokeUserCredentials(u)
      <3>1. StoreTypeOK'
        BY <2>4, RevokeCredentialsType DEF TypeOK, RevokeUserCredentials
      <3> QED BY <2>4, <3>1 DEF TypeOK, RevokeUserCredentials, Admin, history
    <2>5. CASE AnonymizeUser(u)
      <3>1. StoreTypeOK'
        BY <2>5, AnonymizeType DEF TypeOK, AnonymizeUser
      <3>2. accepted' \in [Users -> Seq(Nat)]
        BY <2>5 DEF TypeOK, AnonymizeUser
      <3> QED BY <2>5, <3>1, <3>2 DEF TypeOK, AnonymizeUser, Admin
    <2> QED BY <1>2, <2>1, <2>2, <2>3, <2>4, <2>5 DEF Administer
  <1>3. CASE Lapse
    <2>1. StoreTypeOK'
      BY <1>3, LapseType DEF TypeOK
    <2> QED BY <1>3, <2>1 DEF TypeOK, Lapse, history
  <1>4. CASE Tick
    <2>0. clock \in Nat \ (0..Skew) /\ Skew \in Nat /\ clock' = clock + 1
      BY <1>4, BoundsAssumption DEF TypeOK, Tick
    <2>1. clock' \in Nat \ (0..Skew)
      BY <2>0
    <2> QED BY <1>4, <2>1 DEF TypeOK, StoreTypeOK, Tick, storeVars, history
  <1>5. CASE Forget
    BY <1>5 DEF TypeOK, StoreTypeOK, Forget, storeVars, history
  <1>6. CASE UNCHANGED vars
    BY <1>6 DEF TypeOK, StoreTypeOK, vars, storeVars, history
  <1> QED BY <1>1, <1>2, <1>3, <1>4, <1>5, <1>6 DEF Next

\* The initial accounts are well typed.
LEMMA InitType == Init => TypeOK
  <1> SUFFICES ASSUME Init PROVE TypeOK
    OBVIOUS
  <1>1. StoreTypeOK
    <2>1. password \in [Users -> MaybeHash]
      BY DEF Init, StoreInit, MaybeHash, Hash
    <2>2. factor \in [Users -> Factor] /\ secrets \in [Users -> Nat]
      BY DEF Init, StoreInit, Factor, NoFactor
    <2>3. codes \in [Users -> SUBSET RecoveryCode] /\ batch \in [Users -> Nat]
      BY DEF Init, StoreInit, RecoveryCode
    <2> QED
      BY <2>1, <2>2, <2>3
      DEF Init, StoreInit, StoreTypeOK, Throttle, NoThrottle, Token, Session
  <1>2. clock \in Nat \ (0..Skew)
    BY BoundsAssumption DEF Init
  <1> QED BY <1>1, <1>2 DEF Init, TypeOK, Call

\* Every record in the store, every in-flight call and every context the host
\* holds is well formed in every reachable state, whatever calls interleave.
THEOREM Typing == Spec => []TypeOK
  BY InitType, NextType, PTL DEF Spec
-----------------------------------------------------------------------------
(* What a step may do to credentials and sessions.                         *)

\* ChangePassword and CompletePasswordReset.
Replaces(u, pwd) ==
    /\ password' = [password EXCEPT ![u] = Replacement(u, pwd)]
    /\ epoch' = [epoch EXCEPT ![u] = @ + 1]
    /\ sessions' = Swept(u)

\* RehashPassword.
Rehashes(u) ==
    /\ password[u] \in Hash
    /\ password' = [password EXCEPT ![u] = Rehashed(password[u])]
    /\ UNCHANGED <<epoch, sessions>>

\* CreateSession.
Mints(id, ctx) ==
    /\ sessions[id] = Absent
    /\ FingerprintCurrent(ctx.user, ctx.digest)
    /\ sessions' = [sessions EXCEPT ![id] = NewSession(ctx)]
    /\ UNCHANGED <<password, epoch>>

\* TouchSession and the passing of a deadline.
Ages(id) ==
    /\ Unrevoked(id)
    /\ \E st \in {"live", "lapsed"} :
          sessions' = [sessions EXCEPT ![id].st = st]
    /\ UNCHANGED <<password, epoch>>

\* SignOut and RevokeSession.
Drops(id) ==
    /\ sessions[id] # Absent
    /\ sessions' = [sessions EXCEPT ![id] = Revoked(id)]
    /\ UNCHANGED <<password, epoch>>

\* RevokeUserSessions, DisableUser and the other cascades.
Sweeps(u) == sessions' = Swept(u) /\ UNCHANGED <<password, epoch>>

CredentialStep ==
    \/ UNCHANGED <<password, epoch, sessions>>
    \/ \E u \in Users, pwd \in Passwords : Replaces(u, pwd)
    \/ \E u \in Users : Rehashes(u) \/ Sweeps(u)
    \/ \E id \in SessionIDs, ctx \in Authentication : Mints(id, ctx)
    \/ \E id \in SessionIDs : Ages(id) \/ Drops(id)

\* A step that only reads, and a refused call.
LEMMA ReadsEffect ==
    ASSUME NEW r, NEW next, Reads(r, next)
    PROVE  CredentialStep
  BY DEF Reads, storeVars, CredentialStep

\* A counted failure touches the throttle only.
LEMMA FailureEffect ==
    ASSUME NEW r, NEW pc, NEW guess, CountsFailure(r, pc, guess)
    PROVE  CredentialStep
  BY DEF CountsFailure, StoreRecordLoginFailure, CredentialStep

\* Of the steps of in-flight calls, only six commits reach the credential or
\* the session table.
LEMMA CallEffects ==
    ASSUME TypeOK, NEW r \in Requests, Start(r) \/ Step(r)
    PROVE  CredentialStep
  <1>0. call[r] \in Call
    BY DEF TypeOK
  <1>1. CASE Start(r)
    BY ZenonT(40), <1>1, ReadsEffect
    DEF Start, SignIn, ChangePassword, BeginPasswordReset, CompletePasswordReset,
        CreateSession, AuthenticateSession, SignOut, RevokeSession,
        BeginEmailAuthentication, BeginEmailOTP, Mails,
        CompleteEmailAuthentication, CompleteEmailOTP, Presents,
        BeginTOTPEnrollment, ConfirmTOTPEnrollment, VerifyTOTP,
        RegenerateRecoveryCodes
  <1>2. CASE \/ SignInReadsPassword(r) \/ SignInVerifies(r) \/ SignInReadsFactor(r)
             \/ SignInRetries(r) \/ ChangeReadsThrottle(r) \/ ChangeVerifies(r)
             \/ ResetReadsUser(r) \/ LinkReadsUser(r) \/ LinkReadsThrottle(r)
             \/ LinkReadsFactor(r) \/ ActivateReadsFactor(r) \/ TOTPReadsUser(r)
             \/ TOTPValidates(r) \/ DisablePassesGate(r) \/ RegenerateReadsFactor(r)
    BY Zenon, <1>2, ReadsEffect
    DEF SignInReadsPassword, SignInVerifies, SignInReadsFactor, SignInRetries,
        ChangeReadsThrottle, ChangeVerifies, ResetReadsUser, LinkReadsUser,
        LinkReadsThrottle, LinkReadsFactor, ActivateReadsFactor, TOTPReadsUser,
        TOTPValidates, DisablePassesGate, RegenerateReadsFactor, Refused
  <1>3. CASE SignInFails(r) \/ ChangeFails(r) \/ LinkFails(r) \/ TOTPFails(r)
    BY <1>3, FailureEffect DEF SignInFails, ChangeFails, LinkFails, TOTPFails
  <1>4. CASE \/ SignInConfirms(r) \/ SignInRecords(r) \/ AuthReadsUser(r)
             \/ ForgotCommits(r) \/ MailCommits(r) \/ LinkCommits(r)
    BY Zenon, <1>4, ReadsEffect
    DEF SignInConfirms, SignInRecords, AuthReadsUser, ForgotCommits, MailCommits,
        LinkCommits, Refused, StoreRecordPasswordAuthentication,
        StoreCreatePasswordReset, StoreCreateEmailAuthentication,
        StoreConsumeEmailAuthentication, storeVars, CredentialStep
  <1>5. CASE \/ EnrollCommits(r) \/ ActivateCommits(r) \/ TOTPUses(r)
             \/ TOTPRecovers(r) \/ DisableCommits(r) \/ RegenerateCommits(r)
    BY Zenon, <1>5, ReadsEffect
    DEF EnrollCommits, ActivateCommits, TOTPUses, TOTPRecovers, DisableCommits,
        RegenerateCommits, Refused, StoreSaveTOTPEnrollment, StoreActivateTOTP,
        StoreUseTOTP, StoreConsumeRecoveryCode, StoreDisableTOTP,
        StoreReplaceRecoveryCodes, CredentialStep
  <1>6. CASE SignInRehashes(r)
    <2>1. call[r] \in SignInVerified
      BY <1>0, <1>6, CallShapes DEF SignInRehashes, At
    <2>2. CASE StoreRehashPassword(call[r].user, call[r].hash)
      <3>1. call[r].user \in Users /\ call[r].hash \in Hash
        BY Zenon, <2>1 DEF SignInVerified
      <3>2. Rehashes(call[r].user)
        BY <2>2, <3>1 DEF StoreRehashPassword, Rehashes
      <3> QED BY <3>1, <3>2 DEF CredentialStep
    <2> QED BY <1>6, <2>2, ReadsEffect DEF SignInRehashes
  <1>7. CASE ChangeCommits(r)
    <2>1. call[r] \in ChangeFinal
      BY <1>0, <1>7, CallShapes DEF ChangeCommits, At
    <2>2. call[r].user \in Users /\ call[r].new \in Passwords
      BY <2>1 DEF ChangeFinal
    <2>3. Replaces(call[r].user, call[r].new)
      BY <1>7 DEF ChangeCommits, StoreChangePassword, Replaces
    <2> QED BY <2>2, <2>3 DEF CredentialStep
  <1>8. CASE ResetCommits(r)
    <2>1. call[r] \in ResetCall
      BY ZenonT(40), <1>0, <1>8, CallShapes DEF ResetCommits, At
    <2>2. CASE StoreCompletePasswordReset(call[r].id, call[r].new)
      <3>1. call[r].id \in ResetIDs /\ call[r].new \in Passwords
        BY <2>1 DEF ResetCall
      <3>a. resets[call[r].id] \in Token
        BY <3>1 DEF TypeOK, StoreTypeOK
      <3>2. resets[call[r].id].user \in Users
        <4>1. resets[call[r].id] # Absent
          BY <2>2 DEF StoreCompletePasswordReset, Redeemable, Absent
        <4> QED BY <3>a, <4>1 DEF Token
      <3>3. Replaces(resets[call[r].id].user, call[r].new)
        BY Zenon, <2>2 DEF StoreCompletePasswordReset, Replaces
      <3> QED BY Zenon, <3>1, <3>2, <3>3 DEF CredentialStep
    <2> QED BY ZenonT(40), <1>8, <2>2, ReadsEffect DEF ResetCommits, Refused
  <1>9. CASE SessionCommits(r)
    <2>1. call[r] \in SessionCall
      BY <1>0, <1>9, CallShapes DEF SessionCommits, At
    <2>2. CASE StoreCreateSession(call[r].id, call[r].ctx)
      <3>1. call[r].id \in SessionIDs /\ call[r].ctx \in Authentication
        BY <2>1 DEF SessionCall
      <3>2. Mints(call[r].id, call[r].ctx)
        BY <2>2 DEF StoreCreateSession, Mints
      <3> QED BY <3>1, <3>2 DEF CredentialStep
    <2> QED BY <1>9, <2>2, ReadsEffect DEF SessionCommits, Refused
  <1>10. CASE AuthTouches(r)
    <2>1. call[r] \in SessionCall
      BY <1>0, <1>10, CallShapes DEF AuthTouches, At
    <2>2. CASE StoreTouchSession(call[r].id)
      <3>1. call[r].id \in SessionIDs
        BY <2>1 DEF SessionCall
      <3>2. Ages(call[r].id)
        BY Zenon, <2>2 DEF StoreTouchSession, Ages, Unrevoked
      <3> QED BY <3>1, <3>2 DEF CredentialStep
    <2> QED BY <1>10, <2>2, ReadsEffect DEF AuthTouches, Refused
  <1>11. CASE SignOutCommits(r)
    <2>1. call[r] \in SignOutCall
      BY <1>0, <1>11, CallShapes DEF SignOutCommits, At
    <2>2. call[r].id \in SessionIDs /\ Drops(call[r].id)
      BY Zenon, <1>11, <2>1 DEF SignOutCommits, SignOutCall,
         StoreRevokeSession, Drops
    <2> QED BY <2>2 DEF CredentialStep
  <1> QED
    BY <1>1, <1>2, <1>3, <1>4, <1>5, <1>6, <1>7, <1>8, <1>9, <1>10, <1>11
       DEF Step

\* Every step of the system is one of the effects above.
LEMMA CredentialEffects ==
    ASSUME TypeOK, [Next]_vars
    PROVE  CredentialStep
  <1>1. ASSUME NEW u \in Users, Administer(u)
        PROVE  CredentialStep
    <2>1. \/ Sweeps(u) \/ UNCHANGED <<password, epoch, sessions>>
      BY <1>1
      DEF Administer, SetUserDisabled, RevokeUserSessions, AdminResetSecondFactor,
          RevokeUserCredentials, AnonymizeUser, StoreSetUserDisabled,
          StoreRevokeUserSessions, StoreRevokeUserCredentials,
          StoreResetSecondFactor, StoreAnonymizeUser, Sweeps
    <2> QED BY <2>1 DEF CredentialStep
  <1>2. CASE Lapse
    <2>1. \/ UNCHANGED <<password, epoch, sessions>>
          \/ \E id \in SessionIDs : Ages(id)
      BY <1>2 DEF Lapse, LockLapses, ResetLapses, LinkLapses, SessionLapses,
                  Ages, Unrevoked
    <2> QED BY <2>1 DEF CredentialStep
  <1>3. CASE Tick \/ Forget \/ UNCHANGED vars
    BY <1>3 DEF Tick, Forget, vars, storeVars, CredentialStep
  <1> QED BY <1>1, <1>2, <1>3, CallEffects DEF Next

-----------------------------------------------------------------------------
(* No session outlives the password it was minted from.                    *)

\* Neither invariant is inductive alone: that a minted session is of the
\* stored password's era says nothing about the era unless rehashes keep it.
Currency == TypeOK /\ RehashNeverResurrects /\ NoStaleSession

\* A sweep leaves the user no unrevoked session and touches no other user's.
LEMMA SweptEffect ==
    ASSUME StoreTypeOK, NEW u \in Users, sessions' = Swept(u),
           NEW i \in SessionIDs, Unrevoked(i)'
    PROVE  sessions'[i] = sessions[i] /\ sessions[i].user # u /\ Unrevoked(i)
  BY DEF StoreTypeOK, Swept, Unrevoked, Revoked, Session, Absent

\* Replacing a password starts an era in which the user has no session yet.
LEMMA ReplacesCurrency ==
    ASSUME Currency, NEW u \in Users, NEW pwd \in Passwords, Replaces(u, pwd)
    PROVE  RehashNeverResurrects' /\ NoStaleSession'
  <1>1. StoreTypeOK
    BY DEF Currency, TypeOK
  <1>2. RehashNeverResurrects'
    BY <1>1 DEF Currency, RehashNeverResurrects, Replaces, Replacement,
       StoreTypeOK
  <1>3. ASSUME NEW i \in SessionIDs, Unrevoked(i)', sessions'[i].digest # NoHash
        PROVE  /\ password'[sessions'[i].user] # NoHash
               /\ sessions'[i].digest.era = password'[sessions'[i].user].era
    <2>1. sessions'[i] = sessions[i] /\ sessions[i].user # u /\ Unrevoked(i)
      BY <1>1, <1>3, SweptEffect DEF Replaces
    <2>2. sessions[i].user \in Users
      BY <1>1, <2>1 DEF StoreTypeOK, Session, Unrevoked, Absent
    <2>3. password'[sessions[i].user] = password[sessions[i].user]
      BY <1>1, <2>1, <2>2 DEF Replaces, StoreTypeOK
    <2> QED BY ZenonT(40), <1>3, <2>1, <2>3 DEF Currency, NoStaleSession
  <1> QED BY Zenon, <1>2, <1>3 DEF NoStaleSession

\* A rehash changes the encoding, not the era.
LEMMA RehashesCurrency ==
    ASSUME Currency, NEW u \in Users, Rehashes(u)
    PROVE  RehashNeverResurrects' /\ NoStaleSession'
  <1>1. StoreTypeOK
    BY DEF Currency, TypeOK
  <1>2. \A v \in Users : (password'[v] = NoHash) = (password[v] = NoHash)
    BY <1>1, NoHashAssumption, RehashedType DEF Rehashes, StoreTypeOK, Hash
  <1>3. \A v \in Users : password[v] # NoHash => password'[v].era = password[v].era
    BY <1>1, RehashedType DEF Rehashes, StoreTypeOK
  <1>4. RehashNeverResurrects'
    BY <1>1, <1>2, <1>3 DEF Currency, RehashNeverResurrects, Rehashes
  <1>5. ASSUME NEW i \in SessionIDs, Unrevoked(i)', sessions'[i].digest # NoHash
        PROVE  /\ password'[sessions'[i].user] # NoHash
               /\ sessions'[i].digest.era = password'[sessions'[i].user].era
    <2>1. sessions'[i] = sessions[i] /\ Unrevoked(i)
      BY <1>5 DEF Rehashes, Unrevoked
    <2>2. sessions[i].user \in Users
      BY <1>1, <2>1 DEF StoreTypeOK, Session, Unrevoked, Absent
    <2> QED BY Zenon, <1>2, <1>3, <1>5, <2>1, <2>2 DEF Currency, NoStaleSession
  <1> QED BY <1>4, <1>5 DEF NoStaleSession

\* The fingerprint guard of Store.CreateSession.
LEMMA MintsCurrency ==
    ASSUME Currency, NEW id \in SessionIDs, NEW ctx \in Authentication,
           Mints(id, ctx)
    PROVE  RehashNeverResurrects' /\ NoStaleSession'
  <1>1. StoreTypeOK
    BY DEF Currency, TypeOK
  <1>2. RehashNeverResurrects'
    BY DEF Currency, RehashNeverResurrects, Mints
  <1>3. ASSUME NEW i \in SessionIDs, Unrevoked(i)', sessions'[i].digest # NoHash
        PROVE  /\ password[sessions'[i].user] # NoHash
               /\ sessions'[i].digest.era = password[sessions'[i].user].era
    <2>1. CASE i = id
      BY <1>1, <1>3, <2>1
      DEF Mints, NewSession, FingerprintCurrent, StoreTypeOK, Authentication
    <2>2. CASE i # id
      BY ZenonT(40), <1>1, <1>3, <2>2
      DEF Currency, NoStaleSession, Mints, StoreTypeOK, Unrevoked
    <2> QED BY ZenonT(40), <2>1, <2>2
  <1> QED BY <1>2, <1>3 DEF NoStaleSession, Mints

\* Touching, expiring and revoking sessions.
LEMMA FadesCurrency ==
    ASSUME Currency,
           \/ \E id \in SessionIDs : Ages(id) \/ Drops(id)
           \/ \E u \in Users : Sweeps(u)
    PROVE  RehashNeverResurrects' /\ NoStaleSession'
  <1>1. StoreTypeOK
    BY DEF Currency, TypeOK
  <1>2. UNCHANGED <<password, epoch>>
    BY DEF Ages, Drops, Sweeps
  <1>3. RehashNeverResurrects'
    BY ZenonT(40), <1>2 DEF Currency, RehashNeverResurrects
  <1>4. ASSUME NEW i \in SessionIDs, Unrevoked(i)'
        PROVE  /\ Unrevoked(i)
               /\ sessions'[i].user = sessions[i].user
               /\ sessions'[i].digest = sessions[i].digest
    <2>1. CASE \E id \in SessionIDs : Ages(id)
      BY <1>1, <1>4, <2>1 DEF Ages, Unrevoked, StoreTypeOK, Session, Absent
    <2>2. CASE \E id \in SessionIDs : Drops(id)
      BY <1>1, <1>4, <2>2 DEF Drops, Unrevoked, Revoked, StoreTypeOK, Session,
         Absent
    <2>3. CASE \E u \in Users : Sweeps(u)
      BY <1>1, <1>4, <2>3, SweptEffect DEF Sweeps
    <2> QED BY <2>1, <2>2, <2>3
  <1> QED BY Zenon, <1>2, <1>3, <1>4 DEF Currency, NoStaleSession

\* The pair of invariants is preserved by every step.
LEMMA CurrencyStep ==
    ASSUME Currency, [Next]_vars
    PROVE  Currency'
  <1>1. TypeOK'
    BY NextType DEF Currency
  <1>2. CredentialStep
    BY CredentialEffects DEF Currency
  <1>3. ASSUME UNCHANGED <<password, epoch, sessions>>
        PROVE  RehashNeverResurrects' /\ NoStaleSession'
    BY <1>3 DEF Currency, RehashNeverResurrects, NoStaleSession, Unrevoked
  <1>4. RehashNeverResurrects' /\ NoStaleSession'
    BY <1>2, <1>3, ReplacesCurrency, RehashesCurrency, MintsCurrency,
       FadesCurrency
    DEF CredentialStep
  <1> QED BY <1>1, <1>4 DEF Currency

\* The initial accounts are of era zero and have no session.
LEMMA CurrencyInit == Init => Currency
  <1> SUFFICES ASSUME Init PROVE Currency
    OBVIOUS
  <1>1. RehashNeverResurrects
    BY DEF Init, StoreInit, RehashNeverResurrects
  <1>2. NoStaleSession
    BY DEF Init, StoreInit, NoStaleSession, Unrevoked, Absent
  <1> QED BY <1>1, <1>2, InitType DEF Currency

\* A rehash never writes an older password over a change or a reset.
THEOREM Resurrection == Spec => []RehashNeverResurrects
  <1>1. Currency => RehashNeverResurrects
    BY DEF Currency
  <1> QED BY <1>1, CurrencyInit, CurrencyStep, PTL DEF Spec

\* A session minted with a password fingerprint never survives, and is never
\* created after, the replacement of that password.
THEOREM StaleSessions == Spec => []NoStaleSession
  <1>1. Currency => NoStaleSession
    BY DEF Currency
  <1> QED BY <1>1, CurrencyInit, CurrencyStep, PTL DEF Spec

-----------------------------------------------------------------------------
(* The account operations implement CredentialPromise.                     *)

\* The sessions the abstract specification calls live.
LEMMA PromisedLive ==
    Promise!Live = {i \in SessionIDs : Unrevoked(i)}
  <1>1. ASSUME NEW i \in SessionIDs
        PROVE  (PromisedSession[i].st = "live") <=> Unrevoked(i)
    <2>1. CASE sessions[i] = Absent
      <3>1. PromisedSession[i] = [st |-> "unborn"]
        BY <2>1 DEF PromisedSession
      <3>2. ~Unrevoked(i)
        BY <2>1 DEF Unrevoked, Absent
      <3> QED BY <3>1, <3>2
    <2>2. CASE sessions[i] # Absent
      BY <2>2 DEF PromisedSession
    <2> QED BY <2>1, <2>2
  <1> QED BY <1>1 DEF Promise!Live

\* Ending a set of live sessions, concretely: they are stamped revoked and
\* the others do not change their abstract view.
LEMMA PromisedEnding ==
    ASSUME TypeOK, NEW ended \in SUBSET SessionIDs,
           \A i \in ended : Unrevoked(i) /\ sessions'[i] = Revoked(i),
           \A i \in SessionIDs \ ended : PromisedSession'[i] = PromisedSession[i]
    PROVE  PromisedSession' = Promise!Ending(ended)
  <1>1. ASSUME NEW i \in ended
        PROVE  PromisedSession'[i] = [PromisedSession[i] EXCEPT !.st = "dead"]
    <2>1. sessions[i] # Absent /\ Unrevoked(i) /\ sessions'[i] = Revoked(i)
      BY <1>1 DEF Unrevoked, Absent
    <2>2. sessions[i] \in Session \ {Absent}
      BY <2>1 DEF TypeOK, StoreTypeOK
    <2>3. /\ sessions'[i] # Absent /\ ~Unrevoked(i)'
          /\ sessions'[i].user = sessions[i].user
          /\ sessions'[i].digest = sessions[i].digest
      BY <2>1, <2>2 DEF Revoked, Session, Absent, Unrevoked
    <2>4. PromisedSession'[i] =
             [st |-> "dead", user |-> sessions[i].user,
              gen |-> IF sessions[i].digest = NoHash THEN NoHash
                      ELSE sessions[i].digest.era]
      BY ZenonT(40), <2>3 DEF PromisedSession
    <2>5. PromisedSession[i] =
             [st |-> "live", user |-> sessions[i].user,
              gen |-> IF sessions[i].digest = NoHash THEN NoHash
                      ELSE sessions[i].digest.era]
      BY <2>1 DEF PromisedSession
    <2> QED BY <2>4, <2>5
  <1>2. /\ PromisedSession' = [i \in SessionIDs |-> PromisedSession'[i]]
        /\ DOMAIN PromisedSession' = SessionIDs
    BY Zenon DEF PromisedSession
  <1>3. \A i \in SessionIDs : PromisedSession'[i] =
            IF i \in ended THEN [PromisedSession[i] EXCEPT !.st = "dead"]
            ELSE PromisedSession[i]
    BY <1>1
  <1> QED BY <1>2, <1>3 DEF Promise!Ending

\* Each effect is a step of the abstract specification or no step of it.
LEMMA PromiseStep ==
    ASSUME Currency, CredentialStep
    PROVE  [Promise!PromiseNext]_<<epoch, PromisedSession>>
  <1>0. TypeOK /\ StoreTypeOK
    BY DEF Currency, TypeOK
  <1>1. CASE UNCHANGED <<password, epoch, sessions>>
    BY <1>1 DEF PromisedSession, Unrevoked
  <1>2. ASSUME NEW u \in Users, sessions' = Swept(u)
        PROVE  PromisedSession' =
                 Promise!Ending({i \in Promise!Live : PromisedSession[i].user = u})
    <2> DEFINE ended == {i \in Promise!Live : PromisedSession[i].user = u}
    <2>1. \A i \in SessionIDs : Unrevoked(i) => PromisedSession[i].user = sessions[i].user
      BY DEF PromisedSession, Unrevoked, Absent
    <2>2. ended = {i \in SessionIDs : Unrevoked(i) /\ sessions[i].user = u}
      BY <2>1, PromisedLive
    <2>3. \A i \in ended : Unrevoked(i) /\ sessions'[i] = Revoked(i)
      BY <1>2, <2>2 DEF Swept
    <2>4. \A i \in SessionIDs \ ended : sessions'[i] = sessions[i]
      BY <1>2, <2>2 DEF Swept
    <2>5. \A i \in SessionIDs \ ended : PromisedSession'[i] = PromisedSession[i]
      BY <2>4 DEF PromisedSession, Unrevoked
    <2>6. ended \in SUBSET SessionIDs
      BY <2>2
    <2> HIDE DEF ended
    <2>7. PromisedSession' = Promise!Ending(ended)
      BY <1>0, <2>3, <2>5, <2>6, PromisedEnding
    <2> QED BY <2>7 DEF ended
  <1>3. ASSUME NEW u \in Users, NEW pwd \in Passwords, Replaces(u, pwd)
        PROVE  Promise!Replace(u)
    BY <1>2, <1>3 DEF Replaces, Promise!Replace
  <1>4. ASSUME NEW u \in Users, Sweeps(u)
        PROVE  Promise!Revoke
    BY Zenon, <1>2, <1>4 DEF Sweeps, Promise!Revoke
  <1>5. ASSUME NEW u \in Users, Rehashes(u)
        PROVE  UNCHANGED <<epoch, PromisedSession>>
    BY <1>5 DEF Rehashes, PromisedSession, Unrevoked
  <1>6. ASSUME NEW id \in SessionIDs, NEW ctx \in Authentication, Mints(id, ctx)
        PROVE  Promise!Mint(id, ctx.user)
    <2> DEFINE g == IF ctx.digest = NoHash THEN NoHash ELSE ctx.digest.era
    <2>1. ctx.user \in Users
      BY DEF Authentication
    <2>2. g \in {NoHash, epoch[ctx.user]}
      BY <1>6, <2>1 DEF Mints, FingerprintCurrent, Currency,
         RehashNeverResurrects
    <2>3. PromisedSession[id] = Promise!Unborn
      BY <1>6 DEF Mints, PromisedSession, Promise!Unborn
    <2>4. sessions'[id] = NewSession(ctx)
      BY <1>0, <1>6 DEF Mints, StoreTypeOK
    <2>5. /\ sessions'[id] # Absent /\ Unrevoked(id)'
          /\ sessions'[id].user = ctx.user /\ sessions'[id].digest = ctx.digest
      BY <2>4 DEF NewSession, Absent, Unrevoked
    <2>6. PromisedSession'[id] = [st |-> "live", user |-> ctx.user, gen |-> g]
      BY <2>5 DEF PromisedSession
    <2>7. \A i \in SessionIDs \ {id} : sessions'[i] = sessions[i]
      BY <1>0, <1>6 DEF Mints, StoreTypeOK
    <2>8. \A i \in SessionIDs \ {id} : PromisedSession'[i] = PromisedSession[i]
      BY <2>7 DEF PromisedSession, Unrevoked
    <2> HIDE DEF g
    <2>9. PromisedSession' = [PromisedSession EXCEPT ![id] =
                                [st |-> "live", user |-> ctx.user, gen |-> g]]
      <3>1. /\ PromisedSession = [i \in SessionIDs |-> PromisedSession[i]]
            /\ PromisedSession' = [i \in SessionIDs |-> PromisedSession'[i]]
        BY Zenon DEF PromisedSession
      <3> QED BY <2>6, <2>8, <3>1
    <2> QED BY Zenon, <1>6, <2>2, <2>3, <2>9 DEF Mints, Promise!Mint
  <1>7. ASSUME NEW id \in SessionIDs, Ages(id)
        PROVE  UNCHANGED <<epoch, PromisedSession>>
    <2>1. \A i \in SessionIDs :
             /\ (sessions'[i] = Absent) = (sessions[i] = Absent)
             /\ Unrevoked(i)' = Unrevoked(i)
             /\ sessions'[i].user = sessions[i].user
             /\ sessions'[i].digest = sessions[i].digest
      BY <1>0, <1>7 DEF Ages, Unrevoked, StoreTypeOK, Session, Absent
    <2> QED BY <1>7, <2>1 DEF Ages, PromisedSession
  <1>8. ASSUME NEW id \in SessionIDs, Drops(id)
        PROVE  Promise!Revoke \/ UNCHANGED <<epoch, PromisedSession>>
    <2>0. \A i \in SessionIDs \ {id} : sessions'[i] = sessions[i]
      BY <1>0, <1>8 DEF Drops, StoreTypeOK
    <2>1. \A i \in SessionIDs \ {id} : PromisedSession'[i] = PromisedSession[i]
      BY Zenon, <2>0 DEF PromisedSession, Unrevoked
    <2>2. sessions'[id] = Revoked(id)
      BY <1>0, <1>8 DEF Drops, StoreTypeOK
    <2>3. CASE Unrevoked(id)
      <3>1. PromisedSession' = Promise!Ending({id})
        BY <1>0, <2>1, <2>2, <2>3, PromisedEnding
      <3>2. {id} \in SUBSET Promise!Live
        BY <2>3, PromisedLive
      <3> QED BY <1>8, <3>1, <3>2 DEF Drops, Promise!Revoke
    <2>4. CASE ~Unrevoked(id)
      <3>1. sessions[id] \in Session \ {Absent} /\ sessions[id].st = "revoked"
        BY <1>0, <1>8, <2>4 DEF Drops, StoreTypeOK, Session, Unrevoked
      <3>2. sessions'[id] = sessions[id]
        BY <2>2, <3>1 DEF Revoked, Session, Absent
      <3>3. \A i \in SessionIDs : sessions'[i] = sessions[i]
        BY <2>0, <3>2
      <3> QED BY <1>8, <3>3 DEF Drops, PromisedSession, Unrevoked
    <2> QED BY <2>3, <2>4
  <1>9. \A ctx \in Authentication : ctx.user \in Users
    BY DEF Authentication
  <1> QED
    BY <1>1, <1>3, <1>4, <1>5, <1>6, <1>7, <1>8, <1>9
    DEF CredentialStep, Promise!PromiseNext

\* The account operations, with all their interleavings, implement the
\* abstract promise: minting only for the password in force, a replacement
\* ending every session of the user in its own step, no resurrection.
THEOREM PromiseKept == Spec => KeepsPromise
  <1>1. Init => Promise!PromiseInit
    BY DEF Init, StoreInit, Promise!PromiseInit, Promise!Unborn,
       PromisedSession
  <1>2. Currency /\ [Next]_vars => [Promise!PromiseNext]_<<epoch, PromisedSession>>
    BY CredentialEffects, PromiseStep DEF Currency
  <1> QED
    BY <1>1, <1>2, CurrencyInit, CurrencyStep, PTL
    DEF Spec, KeepsPromise, Promise!PromiseSpec
-----------------------------------------------------------------------------
(* What a step may do to the tables the history is about.                  *)

Quiet == UNCHANGED <<throttle, factor, codes, batch, resets, links, history>>

\* A counted failure.
Fails(u) ==
    /\ throttle' = [throttle EXCEPT ![u] = Failed(@)]
    /\ \E guess \in {0, 1} :
          tally' = [tally EXCEPT ![u] =
                       (IF throttle[u].lock = "lapsed" THEN 0 ELSE @) + guess]
    /\ UNCHANGED <<factor, codes, batch, resets, links, accepted, burned, redeemed>>

\* The lockout window of u is over: a sign-in completed.
Clears(u) ==
    /\ throttle' = [throttle EXCEPT ![u] = NoThrottle]
    /\ tally' = [tally EXCEPT ![u] = 0]

SignsIn(u) ==
    /\ Clears(u)
    /\ UNCHANGED <<factor, codes, batch, resets, links, accepted, burned, redeemed>>

\* BeginPasswordReset and BeginEmailAuthentication.
Issues ==
    /\ \/ /\ \E id \in ResetIDs, u \in Users : StoreCreatePasswordReset(u, id)
          /\ UNCHANGED links
       \/ /\ \E id \in LinkIDs, u \in Users : StoreCreateEmailAuthentication(u, id)
          /\ UNCHANGED resets
    /\ UNCHANGED <<throttle, factor, codes, batch, history>>

Resets(id) ==
    /\ Redeemable(resets[id])
    /\ resets' = Redeem(id)
    /\ redeemed' = [redeemed EXCEPT ![id] = @ + 1]
    /\ Clears(resets[id].user)
    /\ UNCHANGED <<factor, codes, batch, links, accepted, burned>>

Links(id) ==
    /\ Redeemable(links[id])
    /\ links' = [links EXCEPT ![id].st = "used"]
    /\ redeemed' = [redeemed EXCEPT ![id] = @ + 1]
    /\ Clears(links[id].user) \/ UNCHANGED <<throttle, tally>>
    /\ UNCHANGED <<factor, codes, batch, resets, accepted, burned>>

Enrolls(u) ==
    /\ factor[u].st # "active"
    /\ \E gen \in Nat :
          factor' = [factor EXCEPT ![u] = [st |-> "pending", step |-> 0, gen |-> gen]]
    /\ codes' = [codes EXCEPT ![u] = {}]
    /\ UNCHANGED <<throttle, batch, resets, links, history>>

Activates(u, gen, step) ==
    /\ factor[u].st = "pending"
    /\ factor' = [factor EXCEPT ![u] = [st |-> "active", gen |-> gen, step |-> step]]
    /\ IssueCodes(u)
    /\ accepted' = [accepted EXCEPT ![u] = <<step>>]
    /\ UNCHANGED <<throttle, resets, links, burned, redeemed, tally>>

Uses(u, step) ==
    /\ factor[u].st = "active"
    /\ StepUnused(u, step)
    /\ factor' = [factor EXCEPT ![u].step = step]
    /\ Clears(u)
    /\ accepted' = [accepted EXCEPT ![u] = Append(@, step)]
    /\ UNCHANGED <<codes, batch, resets, links, burned, redeemed>>

Burns(u, code) ==
    /\ code \in codes[u]
    /\ codes' = [codes EXCEPT ![u] = @ \ {code}]
    /\ Clears(u)
    /\ burned' = [burned EXCEPT ![u] = Append(@, code)]
    /\ UNCHANGED <<factor, batch, resets, links, accepted, redeemed>>

\* DisableTOTP, AdminResetSecondFactor and AnonymizeUser.
Removes(u) ==
    /\ factor' = [factor EXCEPT ![u] = NoFactor]
    /\ codes' = [codes EXCEPT ![u] = {}]
    /\ accepted' = [accepted EXCEPT ![u] = << >>]
    /\ UNCHANGED <<throttle, batch, resets, links, burned, redeemed, tally>>

Regenerates(u) ==
    /\ IssueCodes(u)
    /\ UNCHANGED <<throttle, factor, resets, links, history>>

\* A deadline passes.
Expires ==
    /\ \/ \E u \in Users : LockLapses(u)
       \/ \E id \in ResetIDs : ResetLapses(id)
       \/ \E id \in LinkIDs : LinkLapses(id)
    /\ UNCHANGED history

HistoryStep ==
    \/ Quiet
    \/ \E u \in Users : \/ Fails(u) \/ SignsIn(u) \/ Enrolls(u) \/ Removes(u)
                        \/ Regenerates(u)
    \/ Issues \/ Expires
    \/ \E id \in ResetIDs : Resets(id)
    \/ \E id \in LinkIDs : Links(id)
    \/ \E u \in Users, gen \in Nat, step \in Nat : Activates(u, gen, step)
    \/ \E u \in Users, step \in Nat : Uses(u, step)
    \/ \E u \in Users, code \in RecoveryCode : Burns(u, code)

\* A step that only reads, and a refused call.
LEMMA ReadsQuiet ==
    ASSUME NEW r, NEW next, Reads(r, next)
    PROVE  HistoryStep
  BY DEF Reads, storeVars, Quiet, HistoryStep

\* A counted failure of a call.
LEMMA CountsFailureFails ==
    ASSUME TypeOK, NEW r \in Requests, NEW guess \in {0, 1},
           NEW pc \in {"signin.fail", "change.fail", "link.fail", "totp.fail"},
           CountsFailure(r, pc, guess)
    PROVE  HistoryStep
  <1>1. call[r] \in UserCall
    BY CallShapes DEF TypeOK, CountsFailure, At
  <1>2. call[r].user \in Users /\ Fails(call[r].user)
    BY Zenon, <1>1 DEF CountsFailure, StoreRecordLoginFailure, UserCall, Fails
  <1> QED BY <1>2 DEF HistoryStep

\* The commits of sign-ins, resets and email credentials.
LEMMA SignInEffects ==
    ASSUME TypeOK, NEW r \in Requests,
           \/ SignInRehashes(r) \/ SignInConfirms(r) \/ SignInRecords(r)
           \/ ChangeCommits(r) \/ ForgotCommits(r) \/ ResetCommits(r)
           \/ SessionCommits(r) \/ AuthReadsUser(r) \/ AuthTouches(r)
           \/ SignOutCommits(r) \/ MailCommits(r) \/ LinkCommits(r)
    PROVE  HistoryStep
  <1>0. call[r] \in Call
    BY DEF TypeOK
  <1>1. CASE \/ SignInRehashes(r) \/ SignInConfirms(r) \/ ChangeCommits(r)
             \/ SessionCommits(r) \/ AuthReadsUser(r) \/ AuthTouches(r)
             \/ SignOutCommits(r)
    BY Zenon, <1>1, ReadsQuiet
    DEF SignInRehashes, SignInConfirms, ChangeCommits, SessionCommits,
        AuthReadsUser, AuthTouches, SignOutCommits, Refused, storeVars,
        StoreRehashPassword, StoreChangePassword, StoreCreateSession,
        StoreTouchSession, StoreRevokeSession, Quiet, HistoryStep
  <1>2. CASE SignInRecords(r)
    <2>1. call[r] \in SignInFinal
      BY <1>0, <1>2, CallShapes DEF SignInRecords, At
    <2>2. CASE /\ StoreRecordPasswordAuthentication(call[r].user, call[r].hash)
               /\ Completed(call[r].user)
               /\ UNCHANGED <<accepted, burned, redeemed>>
      <3>1. call[r].user \in Users /\ SignsIn(call[r].user)
        BY Zenon, <2>1, <2>2
        DEF SignInFinal, StoreRecordPasswordAuthentication, Completed, SignsIn, Clears
      <3> QED BY <3>1 DEF HistoryStep
    <2> QED BY Zenon, <1>2, <2>2, ReadsQuiet DEF SignInRecords, Refused
  <1>3. CASE ForgotCommits(r)
    <2>1. call[r] \in ForgotCall
      BY ZenonT(40), <1>0, <1>3, CallShapes DEF ForgotCommits, At
    <2>2. Issues
      BY ZenonT(40), <1>3, <2>1 DEF ForgotCommits, ForgotCall,
         StoreCreatePasswordReset, Issues
    <2> QED BY <2>2 DEF HistoryStep
  <1>4. CASE MailCommits(r)
    <2>1. call[r] \in MailCall
      BY ZenonT(40), <1>0, <1>4, CallShapes DEF MailCommits, At
    <2>2. Issues
      BY ZenonT(40), <1>4, <2>1 DEF MailCommits, MailCall,
         StoreCreateEmailAuthentication, Issues
    <2> QED BY <2>2 DEF HistoryStep
  <1>5. CASE ResetCommits(r)
    <2>1. call[r] \in ResetCall
      BY Zenon, <1>0, <1>5, CallShapes DEF ResetCommits, At
    <2>2. CASE /\ StoreCompletePasswordReset(call[r].id, call[r].new)
               /\ redeemed' = [redeemed EXCEPT ![call[r].id] = @ + 1]
               /\ Completed(resets[call[r].id].user)
               /\ UNCHANGED <<accepted, burned>>
      <3>1. call[r].id \in ResetIDs /\ Resets(call[r].id)
        BY ZenonT(40), <2>1, <2>2
        DEF ResetCall, StoreCompletePasswordReset, Completed, Resets, Clears
      <3> QED BY <3>1 DEF HistoryStep
    <2> QED BY ZenonT(40), <1>5, <2>2, ReadsQuiet DEF ResetCommits, Refused
  <1>6. CASE LinkCommits(r)
    <2> DEFINE id == call[r].id
    <2>1. call[r] \in LinkCall
      BY Zenon, <1>0, <1>6, CallShapes DEF LinkCommits, At
    <2>2. CASE /\ StoreConsumeEmailAuthentication(id, ~call[r].pending)
               /\ redeemed' = [redeemed EXCEPT ![id] = @ + 1]
               /\ IF call[r].pending THEN UNCHANGED tally ELSE Completed(links[id].user)
               /\ UNCHANGED <<accepted, burned>>
      <3>1. id \in LinkIDs
        BY <2>1 DEF LinkCall
      <3>2. links[id].user \in Users
        BY <2>2, <3>1
        DEF StoreConsumeEmailAuthentication, Redeemable, TypeOK, StoreTypeOK, Token, Absent
      <3>3. CASE call[r].pending
        <4>1. throttle' = throttle
          BY <2>2, <3>2, <3>3 DEF StoreConsumeEmailAuthentication, TypeOK,
             StoreTypeOK
        <4>2. Links(id)
          BY <2>2, <3>3, <4>1 DEF StoreConsumeEmailAuthentication, Links
        <4> QED BY <3>1, <4>2 DEF HistoryStep
      <3>4. CASE ~call[r].pending
        <4>1. Completed(links[id].user)
          BY Zenon, <2>2, <3>4
        <4>2. throttle' = [throttle EXCEPT ![links[id].user] = NoThrottle]
          BY <2>2, <3>4 DEF StoreConsumeEmailAuthentication
        <4>3. Links(id)
          BY ZenonT(40), <2>2, <4>1, <4>2
          DEF StoreConsumeEmailAuthentication, Completed, Links, Clears
        <4> QED BY <3>1, <4>3 DEF HistoryStep
      <3> QED BY <3>3, <3>4
    <2> QED BY ZenonT(40), <1>6, <2>2, ReadsQuiet DEF LinkCommits, Refused
  <1> QED BY <1>1, <1>2, <1>3, <1>4, <1>5, <1>6

\* The commits about the second factor.
LEMMA FactorEffects ==
    ASSUME TypeOK, NEW r \in Requests,
           \/ EnrollCommits(r) \/ ActivateCommits(r) \/ TOTPUses(r)
           \/ TOTPRecovers(r) \/ DisableCommits(r) \/ RegenerateCommits(r)
    PROVE  HistoryStep
  <1>0. call[r] \in Call
    BY DEF TypeOK
  <1>1. CASE EnrollCommits(r)
    <2>1. call[r] \in UserCall
      BY ZenonT(40), <1>0, <1>1, CallShapes DEF EnrollCommits, At
    <2>2. CASE StoreSaveTOTPEnrollment(call[r].user) /\ UNCHANGED history
      <3>1. call[r].user \in Users /\ secrets[call[r].user] + 1 \in Nat
        BY <2>1 DEF UserCall, TypeOK, StoreTypeOK
      <3>2. Enrolls(call[r].user)
        BY ZenonT(40), <2>2, <3>1 DEF StoreSaveTOTPEnrollment, Enrolls
      <3> QED BY ZenonT(40), <3>1, <3>2 DEF HistoryStep
    <2> QED BY <1>1, <2>2, ReadsQuiet DEF EnrollCommits, Refused
  <1>2. CASE ActivateCommits(r)
    <2>1. call[r] \in ActivateCall
      BY ZenonT(40), <1>0, <1>2, CallShapes DEF ActivateCommits, At
    <2>2. CASE /\ StoreActivateTOTP(call[r].user, call[r].gen, call[r].step)
               /\ accepted' = [accepted EXCEPT ![call[r].user] = <<call[r].step>>]
               /\ UNCHANGED <<burned, redeemed, tally>>
      <3>1. call[r].user \in Users /\ call[r].gen \in Nat /\ call[r].step \in Nat
        BY ZenonT(40), <2>1 DEF ActivateCall
      <3>2. Activates(call[r].user, call[r].gen, call[r].step)
        BY <2>2 DEF StoreActivateTOTP, Activates
      <3> QED BY ZenonT(40), <3>1, <3>2 DEF HistoryStep
    <2> QED BY Zenon, <1>2, <2>2, ReadsQuiet DEF ActivateCommits, Refused
  <1>3. CASE TOTPUses(r)
    <2> DEFINE u == call[r].ctx.user
    <2>1. call[r] \in UseCall
      BY ZenonT(40), <1>0, <1>3, CallShapes DEF TOTPUses, At
    <2>2. CASE /\ StoreUseTOTP(u, call[r].step)
               /\ accepted' = [accepted EXCEPT ![u] = Append(@, call[r].step)]
               /\ Completed(u)
               /\ UNCHANGED <<burned, redeemed>>
      <3>1. u \in Users /\ call[r].step \in Nat
        BY <2>1 DEF UseCall, Authentication
      <3>2. Uses(u, call[r].step)
        BY <2>2 DEF StoreUseTOTP, Completed, Uses, Clears
      <3> QED BY ZenonT(40), <3>1, <3>2 DEF HistoryStep
    <2> QED BY ZenonT(40), <1>3, <2>2, ReadsQuiet DEF TOTPUses, Refused
  <1>4. CASE TOTPRecovers(r)
    <2> DEFINE u == call[r].ctx.user
    <2>1. call[r] \in RecoverCall
      BY Zenon, <1>0, <1>4, CallShapes DEF TOTPRecovers, At
    <2>2. CASE /\ StoreConsumeRecoveryCode(u, call[r].code)
               /\ burned' = [burned EXCEPT ![u] = Append(@, call[r].code)]
               /\ Completed(u)
               /\ UNCHANGED <<accepted, redeemed>>
      <3>1. u \in Users /\ call[r].code \in RecoveryCode
        BY ZenonT(40), <2>1 DEF RecoverCall, Authentication
      <3>2. Burns(u, call[r].code)
        BY <2>2 DEF StoreConsumeRecoveryCode, Completed, Burns, Clears
      <3> QED BY <3>1, <3>2 DEF HistoryStep
    <2> QED BY ZenonT(40), <1>4, <2>2, ReadsQuiet DEF TOTPRecovers
  <1>5. CASE DisableCommits(r)
    <2>1. call[r] \in UserCall
      BY Zenon, <1>0, <1>5, CallShapes DEF DisableCommits, At
    <2>2. CASE /\ StoreDisableTOTP(call[r].user)
               /\ accepted' = [accepted EXCEPT ![call[r].user] = << >>]
               /\ UNCHANGED <<burned, redeemed, tally>>
      <3>1. call[r].user \in Users /\ Removes(call[r].user)
        BY <2>1, <2>2 DEF UserCall, StoreDisableTOTP, Removes
      <3> QED BY <3>1 DEF HistoryStep
    <2> QED BY <1>5, <2>2, ReadsQuiet DEF DisableCommits, Refused
  <1>6. CASE RegenerateCommits(r)
    <2>1. call[r] \in UserCall
      BY Zenon, <1>0, <1>6, CallShapes DEF RegenerateCommits, At
    <2>2. CASE StoreReplaceRecoveryCodes(call[r].user) /\ UNCHANGED history
      <3>1. call[r].user \in Users /\ Regenerates(call[r].user)
        BY Zenon, <2>1, <2>2 DEF UserCall, StoreReplaceRecoveryCodes,
           Regenerates
      <3> QED BY <3>1 DEF HistoryStep
    <2> QED BY ZenonT(40), <1>6, <2>2, ReadsQuiet DEF RegenerateCommits,
               Refused
  <1> QED BY <1>1, <1>2, <1>3, <1>4, <1>5, <1>6

\* Every step of the system is one of the effects above.
LEMMA HistoryEffects ==
    ASSUME TypeOK, [Next]_vars
    PROVE  HistoryStep
  <1>1. ASSUME NEW r \in Requests, Start(r)
        PROVE  HistoryStep
    BY ZenonT(40), <1>1, ReadsQuiet
    DEF Start, SignIn, ChangePassword, BeginPasswordReset, CompletePasswordReset,
        CreateSession, AuthenticateSession, SignOut, RevokeSession,
        BeginEmailAuthentication, BeginEmailOTP, Mails,
        CompleteEmailAuthentication, CompleteEmailOTP, Presents,
        BeginTOTPEnrollment, ConfirmTOTPEnrollment, VerifyTOTP,
        RegenerateRecoveryCodes
  <1>2. ASSUME NEW r \in Requests, Step(r)
        PROVE  HistoryStep
    <2>1. CASE \/ SignInReadsPassword(r) \/ SignInVerifies(r) \/ SignInReadsFactor(r)
               \/ SignInRetries(r) \/ ChangeReadsThrottle(r) \/ ChangeVerifies(r)
               \/ ResetReadsUser(r) \/ LinkReadsUser(r) \/ LinkReadsThrottle(r)
               \/ LinkReadsFactor(r) \/ ActivateReadsFactor(r) \/ TOTPReadsUser(r)
               \/ TOTPValidates(r) \/ DisablePassesGate(r) \/ RegenerateReadsFactor(r)
      BY Zenon, <2>1, ReadsQuiet
      DEF SignInReadsPassword, SignInVerifies, SignInReadsFactor, SignInRetries,
          ChangeReadsThrottle, ChangeVerifies, ResetReadsUser, LinkReadsUser,
          LinkReadsThrottle, LinkReadsFactor, ActivateReadsFactor, TOTPReadsUser,
          TOTPValidates, DisablePassesGate, RegenerateReadsFactor, Refused
    <2>2. CASE SignInFails(r) \/ ChangeFails(r) \/ LinkFails(r) \/ TOTPFails(r)
      BY <2>2, CountsFailureFails DEF SignInFails, ChangeFails, LinkFails,
         TOTPFails
    <2> QED BY <1>2, <2>1, <2>2, SignInEffects, FactorEffects DEF Step
  <1>3. ASSUME NEW u \in Users, Administer(u)
        PROVE  HistoryStep
    <2>1. Quiet \/ Removes(u)
      BY <1>3
      DEF Administer, SetUserDisabled, RevokeUserSessions, RevokeUserCredentials,
          AdminResetSecondFactor, AnonymizeUser, StoreSetUserDisabled,
          StoreRevokeUserSessions, StoreRevokeUserCredentials,
          StoreResetSecondFactor, StoreAnonymizeUser, Quiet, Removes
    <2> QED BY <2>1 DEF HistoryStep
  <1>4. CASE Lapse
    <2>1. Expires \/ Quiet
      BY <1>4 DEF Lapse, SessionLapses, Expires, Quiet
    <2> QED BY <2>1 DEF HistoryStep
  <1>5. CASE Tick \/ Forget \/ UNCHANGED vars
    <2>1. Quiet
      BY <1>5 DEF Tick, Forget, vars, storeVars, Quiet
    <2> QED BY <2>1 DEF HistoryStep
  <1> QED BY <1>1, <1>2, <1>3, <1>4, <1>5 DEF Next

-----------------------------------------------------------------------------
(* The lockout count.                                                      *)

\* Wrong second-factor codes are counted by the lockout until a sign-in
\* completes: neither a pending password sign-in nor a redeemed link forgives
\* them (AuthenticatePassword and ConsumeEmailAuthentication).
THEOREM GuessesCounted == Spec => []GuessesAreCounted
  <1>1. Init => GuessesAreCounted
    <2>1. NoThrottle.fails = 0
      BY DEF NoThrottle
    <2> SUFFICES ASSUME Init, NEW u \in Users
                 PROVE  tally[u] <= throttle[u].fails
      BY DEF GuessesAreCounted
    <2>2. tally[u] = 0
      BY DEF Init
    <2>3. throttle[u].fails = 0
      BY <2>1 DEF Init, StoreInit
    <2> QED BY <2>2, <2>3
  <1>2. ASSUME TypeOK, GuessesAreCounted, HistoryStep
        PROVE  GuessesAreCounted'
    <2>1. /\ throttle \in [Users -> Throttle] /\ tally \in [Users -> Nat]
          /\ \A u \in Users : tally[u] \in Nat /\ throttle[u].fails \in Nat
      BY <1>2 DEF TypeOK, StoreTypeOK, Throttle
    <2>2. ASSUME NEW u \in Users, Fails(u)
          PROVE  GuessesAreCounted'
      <3>1. PICK guess \in {0, 1} :
              tally' = [tally EXCEPT ![u] =
                         (IF throttle[u].lock = "lapsed" THEN 0 ELSE @) + guess]
        BY ZenonT(40), <2>2 DEF Fails
      <3>2. Failed(throttle[u]).fails =
              IF throttle[u].lock = "lapsed" THEN 1 ELSE throttle[u].fails + 1
        BY DEF Failed
      <3>3. throttle'[u].fails =
              IF throttle[u].lock = "lapsed" THEN 1 ELSE throttle[u].fails + 1
        BY <2>1, <2>2, <3>2 DEF Fails
      <3>4. tally'[u] <= throttle'[u].fails
        BY <1>2, <2>1, <3>1, <3>3 DEF GuessesAreCounted
      <3>5. \A v \in Users \ {u} : tally'[v] = tally[v] /\ throttle'[v] = throttle[v]
        BY <2>1, <2>2, <3>1 DEF Fails
      <3> QED BY <1>2, <3>4, <3>5 DEF GuessesAreCounted
    <2>3. ASSUME NEW u, Clears(u)
          PROVE  GuessesAreCounted'
      BY <1>2, <2>1, <2>3 DEF Clears, NoThrottle, GuessesAreCounted
    <2>4. ASSUME UNCHANGED <<throttle, tally>>
          PROVE  GuessesAreCounted'
      BY <1>2, <2>4 DEF GuessesAreCounted
    <2>5. CASE Expires
      <3>1. tally' = tally /\ \A u \in Users : throttle'[u].fails = throttle[u].fails
        BY <2>1, <2>5
        DEF Expires, LockLapses, ResetLapses, LinkLapses, history, Throttle
      <3> QED BY <1>2, <3>1 DEF GuessesAreCounted
    <2>6. CASE \/ Quiet \/ Issues
               \/ \E u \in Users : Enrolls(u) \/ Removes(u) \/ Regenerates(u)
               \/ \E u \in Users, gen \in Nat, step \in Nat : Activates(u, gen, step)
      BY <2>4, <2>6
      DEF Quiet, Issues, Enrolls, Removes, Regenerates, Activates, history
    <2> QED
      BY <1>2, <2>2, <2>3, <2>4, <2>5, <2>6
      DEF HistoryStep, SignsIn, Resets, Links, Uses, Burns
  <1>3. TypeOK /\ GuessesAreCounted /\ [Next]_vars => GuessesAreCounted'
    BY <1>2, HistoryEffects
  <1> QED BY <1>1, <1>3, Typing, PTL DEF Spec

-----------------------------------------------------------------------------
(* Single-use tokens.                                                      *)

\* RedeemedOnce is not inductive: a token that can still be redeemed must not
\* have been.
Unspent ==
    /\ \A i \in ResetIDs : resets[i].st \in {"absent", "open", "lapsed"}
                           => redeemed[i] = 0
    /\ \A i \in LinkIDs : links[i].st \in {"absent", "open", "lapsed"}
                          => redeemed[i] = 0

\* A reset token and an email credential are redeemed at most once, however
\* many calls read them unused first (CompletePasswordReset and
\* ConsumeEmailAuthentication compare UsedAt again in their transaction).
THEOREM SingleUse == Spec => []RedeemedOnce
  <1> DEFINE Inv == RedeemedOnce /\ Unspent
  <1>1. Init => Inv
    BY DEF Init, StoreInit, RedeemedOnce, Unspent
  <1>2. ASSUME TypeOK, Inv, HistoryStep
        PROVE  Inv'
    <2>1. /\ resets \in [ResetIDs -> Token] /\ links \in [LinkIDs -> Token]
          /\ redeemed \in [ResetIDs \cup LinkIDs -> Nat]
      BY <1>2 DEF TypeOK, StoreTypeOK
    <2>2. ASSUME UNCHANGED redeemed,
                 \A i \in ResetIDs : resets'[i].st \in {"absent", "open", "lapsed"}
                                     => resets[i].st \in {"absent", "open", "lapsed"},
                 \A i \in LinkIDs : links'[i].st \in {"absent", "open", "lapsed"}
                                    => links[i].st \in {"absent", "open", "lapsed"}
          PROVE  Inv'
      BY <1>2, <2>2 DEF RedeemedOnce, Unspent
    <2>3. ASSUME UNCHANGED <<redeemed, resets, links>>
          PROVE  Inv'
      BY <2>2, <2>3
    <2>4. CASE Issues
      BY <2>1, <2>2, <2>4
      DEF Issues, StoreCreatePasswordReset, StoreCreateEmailAuthentication, history,
          Absent
    <2>5. CASE Expires
      BY <2>1, <2>2, <2>5
      DEF Expires, LockLapses, ResetLapses, LinkLapses, history, Token, Absent
    <2>6. ASSUME NEW id \in ResetIDs, Resets(id)
          PROVE  Inv'
      <3>1. redeemed[id] = 0
        BY <1>2, <2>6 DEF Resets, Redeemable, Unspent
      <3>2. redeemed'[id] = 1 /\ \A i \in (ResetIDs \cup LinkIDs) \ {id} :
                                    redeemed'[i] = redeemed[i]
        BY <2>1, <2>6, <3>1 DEF Resets
      <3>3. resets'[id].st = "used"
        BY <2>1, <2>6 DEF Resets, Redeemable, Redeem, Token, Absent
      <3>4. \A i \in ResetIDs \ {id} : resets'[i].st \in {"absent", "open", "lapsed"}
                                       => resets'[i] = resets[i]
        BY <2>1, <2>6 DEF Resets, Redeem, Token, Absent
      <3>5. links' = links /\ id \notin LinkIDs
        BY <2>6, IdentifierAssumption DEF Resets
      <3>6. RedeemedOnce'
        BY <1>2, <3>2 DEF RedeemedOnce
      <3>7. Unspent'
        BY <1>2, <3>2, <3>3, <3>4, <3>5 DEF Unspent
      <3> QED BY <3>6, <3>7
    <2>7. ASSUME NEW id \in LinkIDs, Links(id)
          PROVE  Inv'
      <3>1. redeemed[id] = 0
        BY <1>2, <2>7 DEF Links, Redeemable, Unspent
      <3>2. redeemed'[id] = 1 /\ \A i \in (ResetIDs \cup LinkIDs) \ {id} :
                                    redeemed'[i] = redeemed[i]
        BY <2>1, <2>7, <3>1 DEF Links
      <3>3. /\ links'[id].st = "used"
            /\ \A i \in LinkIDs \ {id} : links'[i] = links[i]
        BY <2>1, <2>7 DEF Links, Redeemable, Token, Absent
      <3>4. resets' = resets /\ id \notin ResetIDs
        BY <2>7, IdentifierAssumption DEF Links
      <3>5. RedeemedOnce'
        BY <1>2, <3>2 DEF RedeemedOnce
      <3>6. Unspent'
        BY <1>2, <3>2, <3>3, <3>4 DEF Unspent
      <3> QED BY <3>5, <3>6
    <2> HIDE DEF Inv
    <2> QED
      BY <1>2, <2>3, <2>4, <2>5, <2>6, <2>7
      DEF HistoryStep, Quiet, Fails, SignsIn, Enrolls, Removes, Regenerates,
          Activates, Uses, Burns, history
  <1>3. TypeOK /\ Inv /\ [Next]_vars => Inv'
    BY <1>2, HistoryEffects
  <1>4. Inv => RedeemedOnce
    OBVIOUS
  <1> HIDE DEF Inv
  <1> QED BY <1>1, <1>3, <1>4, Typing, PTL DEF Spec

-----------------------------------------------------------------------------
(* TOTP steps.                                                             *)

\* StepsIncrease needs to know where the accepted steps stand relative to
\* LastUsedStep, and that without an active factor there are none.
StepsBelow ==
    \A u \in Users :
        /\ factor[u].st # "active" => accepted[u] = << >>
        /\ \A i \in 1..Len(accepted[u]) : accepted[u][i] <= factor[u].step

\* The steps accepted for one factor strictly increase, from the enrollment
\* code's step on (ConfirmTOTPEnrollment and UseTOTP).
THEOREM StepsNeverReplay == Spec => []StepsIncrease
  <1> DEFINE Inv == StepsIncrease /\ StepsBelow
  <1>1. Init => Inv
    <2>1. Init => \A u \in Users : accepted[u] = << >>
      BY DEF Init
    <2> QED BY <2>1 DEF StepsIncrease, StepsBelow
  <1>2. ASSUME TypeOK, Inv, HistoryStep
        PROVE  Inv'
    <2>1. /\ factor \in [Users -> Factor] /\ accepted \in [Users -> Seq(Nat)]
          /\ \A u \in Users : factor[u].step \in Nat /\ accepted[u] \in Seq(Nat)
      BY <1>2 DEF TypeOK, StoreTypeOK, Factor
    <2>2. ASSUME UNCHANGED <<factor, accepted>>
          PROVE  Inv'
      BY <1>2, <2>2 DEF StepsIncrease, StepsBelow
    <2>3. ASSUME NEW u \in Users, Enrolls(u)
          PROVE  Inv'
      <3>1. accepted' = accepted /\ accepted[u] = << >>
        BY <1>2, <2>3 DEF Enrolls, StepsBelow, history
      <3>2. \A v \in Users \ {u} : factor'[v] = factor[v]
        BY <2>1, <2>3 DEF Enrolls
      <3> QED BY <1>2, <3>1, <3>2 DEF StepsIncrease, StepsBelow
    <2>4. ASSUME NEW u \in Users, Removes(u)
          PROVE  Inv'
      <3>1. accepted'[u] = << >>
        BY <2>1, <2>4 DEF Removes
      <3>2. \A v \in Users \ {u} : factor'[v] = factor[v] /\ accepted'[v] = accepted[v]
        BY <2>1, <2>4 DEF Removes
      <3> QED BY <1>2, <3>1, <3>2 DEF StepsIncrease, StepsBelow
    <2>5. ASSUME NEW u \in Users, NEW gen \in Nat, NEW step \in Nat,
                 Activates(u, gen, step)
          PROVE  Inv'
      <3>1. accepted'[u] = <<step>>
        BY <2>1, <2>5 DEF Activates
      <3>2. factor'[u] = [st |-> "active", gen |-> gen, step |-> step]
        BY <2>1, <2>5 DEF Activates
      <3>3. \A v \in Users \ {u} : factor'[v] = factor[v] /\ accepted'[v] = accepted[v]
        BY <2>1, <2>5 DEF Activates
      <3> QED BY <1>2, <3>1, <3>2, <3>3 DEF StepsIncrease, StepsBelow
    <2>6. ASSUME NEW u \in Users, NEW step \in Nat, Uses(u, step)
          PROVE  Inv'
      <3>1. accepted'[u] = Append(accepted[u], step)
        BY <2>1, <2>6 DEF Uses
      <3>2. factor'[u].st = "active" /\ factor'[u].step = step /\ step > factor[u].step
        BY <2>1, <2>6 DEF Uses, StepUnused, Factor
      <3>3. \A v \in Users \ {u} : factor'[v] = factor[v] /\ accepted'[v] = accepted[v]
        BY <2>1, <2>6 DEF Uses
      <3>4. /\ Len(accepted'[u]) = Len(accepted[u]) + 1
            /\ accepted'[u][Len(accepted[u]) + 1] = step
            /\ \A i \in 1..Len(accepted[u]) : accepted'[u][i] = accepted[u][i]
            /\ Len(accepted[u]) \in Nat
            /\ \A i \in 1..Len(accepted[u]) : accepted[u][i] \in Nat
        BY <2>1, <3>1
      <3>5. \A i \in 1..Len(accepted[u]) : accepted[u][i] < step
        BY <1>2, <2>1, <3>2, <3>4 DEF StepsBelow
      <3>6. \A i \in 1..Len(accepted'[u]) : accepted'[u][i] <= factor'[u].step
        BY <3>2, <3>4, <3>5
      <3>7. \A i, j \in 1..Len(accepted'[u]) :
               i < j => accepted'[u][i] < accepted'[u][j]
        <4>1. ASSUME NEW i \in 1..Len(accepted'[u]), NEW j \in 1..Len(accepted'[u]),
                     i < j
              PROVE  accepted'[u][i] < accepted'[u][j]
          <5>1. i \in 1..Len(accepted[u])
            BY <3>4, <4>1
          <5>2. CASE j \in 1..Len(accepted[u])
            BY <1>2, <3>4, <4>1, <5>1, <5>2 DEF StepsIncrease
          <5>3. CASE j = Len(accepted[u]) + 1
            BY <3>4, <3>5, <5>1, <5>3
          <5> QED BY <3>4, <5>2, <5>3
        <4> QED BY <4>1
      <3>8. StepsIncrease'
        BY <1>2, <3>3, <3>7 DEF StepsIncrease
      <3>9. StepsBelow'
        BY <1>2, <3>2, <3>3, <3>6 DEF StepsBelow
      <3> QED BY <3>8, <3>9
    <2>7. CASE Expires \/ Issues
      <3>1. UNCHANGED <<factor, accepted>>
        BY <2>7 DEF Expires, Issues, LockLapses, ResetLapses, LinkLapses,
           history
      <3> QED BY <2>2, <3>1
    <2> HIDE DEF Inv
    <2> QED
      BY <1>2, <2>2, <2>3, <2>4, <2>5, <2>6, <2>7
      DEF HistoryStep, Quiet, Fails, SignsIn, Regenerates, Resets, Links, Burns,
          history
  <1>3. TypeOK /\ Inv /\ [Next]_vars => Inv'
    BY <1>2, HistoryEffects
  <1>4. Inv => StepsIncrease
    OBVIOUS
  <1> HIDE DEF Inv
  <1> QED BY <1>1, <1>3, <1>4, Typing, PTL DEF Spec

-----------------------------------------------------------------------------
(* Recovery codes.                                                         *)

\* CodesBurnOnce needs every code, stored or burned, to be of a batch already
\* issued, and no burned code to be stored.
CodesIssued ==
    \A u \in Users :
        /\ \A code \in codes[u] : code[1] <= batch[u]
        /\ \A i \in 1..Len(burned[u]) : /\ burned[u][i][1] <= batch[u]
                                        /\ burned[u][i] \notin codes[u]

\* No recovery code is accepted twice, whatever regenerations and
\* re-enrollments come between (ConsumeRecoveryCode marks it used in the
\* transaction that accepts it; a new batch never repeats a code).
THEOREM RecoveryCodesBurn == Spec => []CodesBurnOnce
  <1> DEFINE Inv == CodesBurnOnce /\ CodesIssued
  <1>1. Init => Inv
    <2> SUFFICES ASSUME Init PROVE Inv
      OBVIOUS
    <2>1. \A u \in Users : burned[u] = << >> /\ batch[u] = 1
      BY DEF Init, StoreInit
    <2>2. \A u \in Users : \A code \in codes[u] : code[1] = 1
      BY DEF Init, StoreInit
    <2> QED BY <2>1, <2>2 DEF CodesBurnOnce, CodesIssued
  <1>2. ASSUME TypeOK, Inv, HistoryStep
        PROVE  Inv'
    <2>1. /\ codes \in [Users -> SUBSET RecoveryCode] /\ batch \in [Users -> Nat]
          /\ burned \in [Users -> Seq(RecoveryCode)]
          /\ \A code \in RecoveryCode : code[1] \in Nat
      BY <1>2 DEF TypeOK, StoreTypeOK, RecoveryCode
    <2>2. ASSUME UNCHANGED <<burned, batch>>,
                 \A u \in Users : codes'[u] \subseteq codes[u]
          PROVE  Inv'
      BY <1>2, <2>2 DEF CodesBurnOnce, CodesIssued
    <2>3. ASSUME NEW u \in Users, Enrolls(u) \/ Removes(u)
          PROVE  Inv'
      BY ZenonT(40), <2>1, <2>2, <2>3 DEF Enrolls, Removes, history
    <2>4. ASSUME NEW u \in Users, IssueCodes(u), UNCHANGED burned
          PROVE  Inv'
      <3>1. /\ batch'[u] = batch[u] + 1 /\ batch[u] \in Nat
            /\ \A code \in codes'[u] : code[1] = batch[u] + 1
        BY <2>1, <2>4 DEF IssueCodes, FreshCodes
      <3>2. \A v \in Users \ {u} : codes'[v] = codes[v] /\ batch'[v] = batch[v]
        BY <2>1, <2>4 DEF IssueCodes
      <3>3. \A i \in 1..Len(burned[u]) : burned[u][i][1] \in Nat
        BY <2>1
      <3>4. \A i \in 1..Len(burned[u]) : /\ burned[u][i][1] <= batch'[u]
                                         /\ burned[u][i] \notin codes'[u]
        BY <1>2, <3>1, <3>3 DEF CodesIssued
      <3>5. \A code \in codes'[u] : code[1] <= batch'[u]
        BY <3>1
      <3>6. CodesIssued'
        BY <1>2, <2>4, <3>2, <3>4, <3>5 DEF CodesIssued
      <3> QED BY <1>2, <2>4, <3>6 DEF CodesBurnOnce
    <2>5. ASSUME NEW u \in Users, NEW code \in RecoveryCode, Burns(u, code)
          PROVE  Inv'
      <3> DEFINE n == Len(burned[u])
      <3>1. burned'[u] = Append(burned[u], code) /\ burned[u] \in Seq(RecoveryCode)
        BY <2>1, <2>5 DEF Burns
      <3>2. /\ Len(burned'[u]) = n + 1 /\ burned'[u][n + 1] = code /\ n \in Nat
            /\ \A i \in 1..n : burned'[u][i] = burned[u][i]
        BY <3>1
      <3>3. /\ code \in codes[u] /\ codes'[u] = codes[u] \ {code} /\ batch' = batch
            /\ \A v \in Users \ {u} : codes'[v] = codes[v] /\ burned'[v] = burned[v]
        BY <2>1, <2>5 DEF Burns
      <3>4. \A i \in 1..n : burned[u][i] # code
        BY <1>2, <3>3 DEF CodesIssued
      <3>5. \A i \in 1..(n + 1) : i \in 1..n \/ i = n + 1
        BY <3>2
      <3>6. \A i, j \in 1..Len(burned'[u]) : i # j => burned'[u][i] # burned'[u][j]
        BY <1>2, <3>2, <3>4, <3>5 DEF CodesBurnOnce
      <3>7. \A i \in 1..Len(burned'[u]) : /\ burned'[u][i][1] <= batch[u]
                                          /\ burned'[u][i] \notin codes'[u]
        BY <1>2, <3>2, <3>3, <3>5 DEF CodesIssued
      <3> HIDE DEF n
      <3>8. CodesBurnOnce'
        BY <1>2, <3>3, <3>6 DEF CodesBurnOnce
      <3>9. CodesIssued'
        BY <1>2, <3>3, <3>7 DEF CodesIssued
      <3> QED BY <3>8, <3>9
    <2>6. ASSUME UNCHANGED <<burned, batch, codes>>
          PROVE  Inv'
      BY <2>2, <2>6
    <2>7. CASE Expires \/ Issues
      <3>1. UNCHANGED <<burned, batch, codes>>
        BY <2>7 DEF Expires, Issues, LockLapses, ResetLapses, LinkLapses,
           history
      <3> QED BY <2>6, <3>1
    <2> HIDE DEF Inv
    <2> QED
      BY <1>2, <2>3, <2>4, <2>5, <2>6, <2>7
      DEF HistoryStep, Quiet, Fails, SignsIn, Regenerates, Resets, Links,
          Activates, Uses, history
  <1>3. TypeOK /\ Inv /\ [Next]_vars => Inv'
    BY <1>2, HistoryEffects
  <1>4. Inv => CodesBurnOnce
    OBVIOUS
  <1> HIDE DEF Inv
  <1> QED BY <1>1, <1>3, <1>4, Typing, PTL DEF Spec
-----------------------------------------------------------------------------
(* The contexts handed to the host.                                        *)

\* A context rebuilt from a session carries no fingerprint: this is what
\* CompletesOnlyCurrent needs to be inductive.
Validating == {"auth.user", "auth.touch"}
Rebuilt(c) == c.pc \in Validating => c.ctx.digest = NoHash
SessionsRebuilt == \A r \in Requests : Rebuilt(call[r])

Earned(ctx) == ctx.digest # NoHash /\ ctx.level = 1 /\ ~ctx.pending
               => ctx.digest = password[ctx.user]

\* r goes on, or ends, and what it hands out is earned.
Hands(r) == /\ \E next : Goto(r, next) /\ Rebuilt(next)
            /\ \A ctx \in held' \ held : Earned(ctx)

LEMMA ReadsHands ==
    ASSUME NEW r, NEW next, Reads(r, next), Rebuilt(next)
    PROVE  Hands(r)
  BY DEF Reads, Hands

LEMMA RefusedHands ==
    ASSUME NEW r, Refused(r)
    PROVE  Hands(r)
  <1>1. Rebuilt(Idle)
    BY DEF Rebuilt, Idle, Validating
  <1> QED BY <1>1, ReadsHands DEF Refused

LEMMA EndsHands ==
    ASSUME NEW r, Ends(r)
    PROVE  Hands(r)
  <1>1. Rebuilt(Idle)
    BY DEF Rebuilt, Idle, Validating
  <1> QED BY <1>1 DEF Ends, Hands

LEMMA ReturnsHands ==
    ASSUME NEW r, NEW ctx, Returns(r, ctx), Earned(ctx)
    PROVE  Hands(r)
  <1>1. Rebuilt(Idle)
    BY DEF Rebuilt, Idle, Validating
  <1> QED BY <1>1 DEF Returns, Hands

\* A call at a new program point, for calls of the types that go on in place.
LEMMA Advances ==
    ASSUME NEW c \in Call, NEW pc
    PROVE  [c EXCEPT !.pc = pc].pc = pc
  <1>1. "pc" \in DOMAIN c
    BY DEF Call, Idle, SignInStart, SignInRead, SignInVerified, SignInFinal,
           SignInRetry, ChangeCall, ChangeFinal, ResetCall, ForgotCall,
           SessionCall, SignOutCall, MailCall, LinkCall, TOTPCall, UseCall,
           RecoverCall, ActivateCall, UserCall
  <1> QED BY <1>1

\* Only a complete sign-in, which the store has just compared, hands out a
\* fingerprint of the first factor without one pending.
LEMMA CallsHand ==
    ASSUME TypeOK, SessionsRebuilt, NEW r \in Requests, Start(r) \/ Step(r)
    PROVE  Hands(r)
  <1>0. call[r] \in Call /\ Rebuilt(call[r])
    BY DEF TypeOK, SessionsRebuilt
  <1>a. ASSUME NEW pc, Reads(r, [call[r] EXCEPT !.pc = pc]),
               pc \notin Validating
        PROVE  Hands(r)
    BY ZenonT(40), <1>0, <1>a, Advances, ReadsHands DEF Rebuilt
  <1>1. CASE Start(r)
    <2>1. CASE AuthenticateSession(r)
      <3>1. PICK id \in SessionIDs :
              Reads(r, [pc |-> "auth.user", id |-> id,
                        ctx |-> SessionContext(id)])
        BY <2>1 DEF AuthenticateSession
      <3>2. Rebuilt([pc |-> "auth.user", id |-> id,
                     ctx |-> SessionContext(id)])
        BY DEF Rebuilt, SessionContext
      <3> QED BY <3>1, <3>2, ReadsHands
    <2>2. CASE \/ SignIn(r) \/ ChangePassword(r) \/ BeginPasswordReset(r)
               \/ CompletePasswordReset(r) \/ CreateSession(r)
      BY ZenonT(40), <2>2, ReadsHands
      DEF SignIn, ChangePassword, BeginPasswordReset, CompletePasswordReset,
          CreateSession, Rebuilt, Validating
    <2>3. CASE \/ SignOut(r) \/ RevokeSession(r)
               \/ BeginEmailAuthentication(r) \/ BeginEmailOTP(r)
               \/ CompleteEmailAuthentication(r) \/ CompleteEmailOTP(r)
      BY ZenonT(40), <2>3, ReadsHands
      DEF SignOut, RevokeSession, BeginEmailAuthentication, BeginEmailOTP,
          Mails, CompleteEmailAuthentication, CompleteEmailOTP, Presents,
          Rebuilt, Validating
    <2>4. CASE \/ BeginTOTPEnrollment(r) \/ ConfirmTOTPEnrollment(r)
               \/ VerifyTOTP(r) \/ RegenerateRecoveryCodes(r)
      BY ZenonT(40), <2>4, ReadsHands
      DEF BeginTOTPEnrollment, ConfirmTOTPEnrollment, VerifyTOTP,
          RegenerateRecoveryCodes, Rebuilt, Validating
    <2> QED BY <1>1, <2>1, <2>2, <2>3, <2>4 DEF Start
  <1>2. CASE SignInReadsPassword(r) \/ SignInReadsFactor(r) \/ SignInRetries(r)
    BY <1>2, <1>a, ReadsHands, RefusedHands
    DEF SignInReadsPassword, SignInReadsFactor, SignInRetries, Rebuilt,
        Validating
  <1>3. CASE SignInVerifies(r)
    BY <1>3, ReadsHands, RefusedHands DEF SignInVerifies, Rebuilt, Validating
  <1>4. CASE SignInFails(r) \/ ChangeFails(r) \/ LinkFails(r) \/ TOTPFails(r)
    BY <1>4, EndsHands
    DEF SignInFails, ChangeFails, LinkFails, TOTPFails, CountsFailure
  <1>5. CASE SignInRehashes(r)
    <2>1. Rebuilt([call[r] EXCEPT !.pc = "signin.factor",
                                  !.hash = Rehashed(call[r].hash)])
      <3>1. call[r] \in SignInVerified
        BY <1>0, <1>5, CallShapes DEF SignInRehashes, At
      <3> QED BY <3>1 DEF SignInVerified, Rebuilt, Validating
    <2> QED BY <1>5, <1>a, <2>1 DEF SignInRehashes, Hands, Validating
  <1>6. CASE SignInConfirms(r)
    BY <1>6, RefusedHands, ReturnsHands
    DEF SignInConfirms, PasswordContext, Earned
  <1>7. CASE SignInRecords(r)
    <2>1. CASE /\ StoreRecordPasswordAuthentication(call[r].user, call[r].hash)
               /\ Returns(r, PasswordContext(call[r].user, call[r].hash, FALSE))
      <3>1. Earned(PasswordContext(call[r].user, call[r].hash, FALSE))
        BY <2>1 DEF StoreRecordPasswordAuthentication, PasswordContext, Earned
      <3> QED BY <2>1, <3>1, ReturnsHands
    <2>2. CASE Refused(r) \/ Reads(r, [call[r] EXCEPT !.pc = "signin.retry"])
      BY <1>a, <2>2, RefusedHands DEF Validating
    <2> QED BY Zenon, <1>7, <2>1, <2>2 DEF SignInRecords
  <1>8. CASE \/ ChangeReadsThrottle(r) \/ ChangeVerifies(r)
             \/ ResetReadsUser(r)
    BY <1>8, <1>a, ReadsHands, RefusedHands
    DEF ChangeReadsThrottle, ChangeVerifies, ResetReadsUser, Rebuilt, Validating
  <1>9. CASE \/ ChangeCommits(r) \/ ForgotCommits(r) \/ ResetCommits(r)
             \/ SessionCommits(r) \/ SignOutCommits(r) \/ MailCommits(r)
    BY Zenon, <1>9, EndsHands, RefusedHands
    DEF ChangeCommits, ForgotCommits, ResetCommits, SessionCommits,
        SignOutCommits, MailCommits
  <1>10. CASE AuthReadsUser(r) \/ AuthTouches(r)
    <2>1. call[r] \in SessionCall /\ call[r].ctx.digest = NoHash
      BY <1>0, <1>10, CallShapes DEF AuthReadsUser, AuthTouches, At, Rebuilt,
         Validating
    <2>2. Earned(call[r].ctx)
      BY <2>1 DEF Earned
    <2>3. Rebuilt([call[r] EXCEPT !.pc = "auth.touch"])
      BY <2>1 DEF SessionCall, Rebuilt
    <2> QED
      BY Zenon, <1>10, <2>2, <2>3, ReadsHands, RefusedHands, ReturnsHands
      DEF AuthReadsUser, AuthTouches
  <1>11. CASE LinkReadsUser(r) \/ LinkReadsThrottle(r) \/ LinkReadsFactor(r)
    BY <1>11, <1>a, ReadsHands, RefusedHands
    DEF LinkReadsUser, LinkReadsThrottle, LinkReadsFactor, Rebuilt, Validating
  <1>12. CASE LinkCommits(r)
    <2>1. Earned(EmailContext(call[r].user, call[r].pending))
      BY DEF Earned, EmailContext
    <2> QED BY Zenon, <1>12, <2>1, RefusedHands, ReturnsHands DEF LinkCommits
  <1>13. CASE EnrollCommits(r) \/ ActivateCommits(r) \/ DisableCommits(r)
              \/ RegenerateCommits(r)
    BY Zenon, <1>13, EndsHands, RefusedHands
    DEF EnrollCommits, ActivateCommits, DisableCommits, RegenerateCommits
  <1>14. CASE \/ ActivateReadsFactor(r) \/ TOTPReadsUser(r)
              \/ DisablePassesGate(r) \/ RegenerateReadsFactor(r)
    <2>1. CASE ActivateReadsFactor(r) \/ DisablePassesGate(r)
      BY <2>1, ReadsHands, RefusedHands
      DEF ActivateReadsFactor, DisablePassesGate, Rebuilt, Validating
    <2>2. CASE \/ Refused(r)
               \/ Reads(r, [call[r] EXCEPT !.pc = "totp.factor"])
               \/ Reads(r, [call[r] EXCEPT !.pc = "regenerate.commit"])
      BY <1>a, <2>2, RefusedHands DEF Validating
    <2> QED
      BY Zenon, <1>14, <2>1, <2>2 DEF TOTPReadsUser, RegenerateReadsFactor
  <1>15. CASE TOTPValidates(r)
    BY ZenonT(40), <1>15, ReadsHands, RefusedHands DEF TOTPValidates, Rebuilt,
       Validating
  <1>16. CASE TOTPUses(r) \/ TOTPRecovers(r)
    <2>1. call[r].ctx \in Authentication
      BY ZenonT(40), <1>0, <1>16, CallShapes
      DEF TOTPUses, TOTPRecovers, At, UseCall, RecoverCall
    <2>2. Earned(Promoted(call[r].ctx))
      BY <2>1 DEF Authentication, Promoted, Earned
    <2>3. Rebuilt([pc |-> "totp.gate", ctx |-> Promoted(call[r].ctx),
                   off |-> TRUE])
      BY DEF Rebuilt, Validating
    <2>4. Promotes(r) => Hands(r)
      BY <2>2, <2>3, ReturnsHands DEF Promotes, Hands
    <2>5. Rebuilt([pc |-> "totp.fail", user |-> call[r].ctx.user])
      BY DEF Rebuilt, Validating
    <2> QED BY Zenon, <1>16, <2>4, <2>5, ReadsHands, RefusedHands
            DEF TOTPUses, TOTPRecovers
  <1> QED
    BY Zenon, <1>1, <1>2, <1>3, <1>4, <1>5, <1>6, <1>7, <1>8, <1>9, <1>10,
       <1>11, <1>12, <1>13, <1>14, <1>15, <1>16 DEF Step

LEMMA StepHands ==
    ASSUME TypeOK, SessionsRebuilt, [Next]_vars
    PROVE  /\ SessionsRebuilt'
           /\ \A ctx \in held' \ held : Earned(ctx)
  <1>1. ASSUME NEW r \in Requests, Start(r) \/ Step(r)
        PROVE  /\ SessionsRebuilt'
               /\ \A ctx \in held' \ held : Earned(ctx)
    <2>1. PICK next : Goto(r, next) /\ Rebuilt(next)
      BY <1>1, CallsHand DEF Hands
    <2>2. \A q \in Requests : call'[q] = call[q] \/ call'[q] = next
      BY <2>1 DEF Goto, TypeOK
    <2>3. SessionsRebuilt'
      BY <2>1, <2>2 DEF SessionsRebuilt, Rebuilt
    <2> QED BY <1>1, <2>3, CallsHand DEF Hands
  <1>2. ASSUME UNCHANGED call, held' \subseteq held
        PROVE  /\ SessionsRebuilt'
               /\ \A ctx \in held' \ held : Earned(ctx)
    BY <1>2 DEF SessionsRebuilt, Rebuilt
  <1>3. CASE \E u \in Users : Administer(u)
    BY <1>2, <1>3 DEF Administer, SetUserDisabled, RevokeUserSessions,
       RevokeUserCredentials, AdminResetSecondFactor, AnonymizeUser, Admin
  <1>4. CASE Lapse \/ Tick \/ Forget
    BY <1>2, <1>4 DEF Lapse, Tick, Forget
  <1>5. CASE UNCHANGED vars
    BY <1>2, <1>5 DEF vars
  <1> QED BY <1>1, <1>3, <1>4, <1>5 DEF Next

\* A complete password sign-in is returned at an instant when the hash it
\* verified is the stored one: recordPasswordAuthentication compares it in
\* its transaction, and nothing else the Manager returns carries a
\* fingerprint at the first level without a factor pending.
THEOREM SignInsComplete == Spec => CompletesOnlyCurrent
  <1>1. Init => SessionsRebuilt
    BY DEF Init, SessionsRebuilt, Rebuilt, Idle, Validating
  <1>2. TypeOK /\ SessionsRebuilt /\ [Next]_vars => SessionsRebuilt'
    BY StepHands
  <1>3. TypeOK /\ SessionsRebuilt /\ [Next]_vars =>
          [\A ctx \in held' \ held :
             ctx.digest # NoHash /\ ctx.level = 1 /\ ~ctx.pending
             => ctx.digest = password[ctx.user]]_vars
    BY StepHands DEF Earned
  <1> QED BY <1>1, <1>2, <1>3, Typing, PTL DEF Spec, CompletesOnlyCurrent
=============================================================================
