------------------------------ MODULE PgFactors -------------------------------
(***************************************************************************)
(* Statements of the PostgreSQL store on addresses and second factors.     *)
(***************************************************************************)
EXTENDS PgStatements

-----------------------------------------------------------------------------
(* Addresses.                                                              *)

\* user_emails.address is unique.  The first address of an account has the
\* number of the account.
InsertUserEmail(t) ==
    LET k == <<"emails", IF tx[t].op = "SaveEmail" THEN Arg(t).id
                         ELSE Arg(t).user>>
    IN  /\ Runs(t, "InsertUserEmail")
        /\ Unique(t, k, LAMBDA r : r.addr = Arg(t).val.addr)
        /\ Inserts(t, k, [user |-> Arg(t).user, addr |-> Arg(t).val.addr,
                          primary |-> Arg(t).val.primary,
                          verified |-> Arg(t).val.verified])

\* SetPrimaryEmail and RemoveEmail read the address first.
GetEmailVerification(t) ==
    LET mine == The(t, "emails", Arg(t).id) \cap Own(t, "emails")
    IN  /\ Runs(t, "GetEmailVerification")
        /\ Selects(t, \/ /\ tx[t].op = "SetPrimaryEmail"
                         /\ In(t, mine, "verified", TRUE) # {}
                      \/ /\ tx[t].op = "RemoveEmail"
                         /\ In(t, mine, "primary", FALSE) # {},
                   IF /\ tx[t].op = "RemoveEmail"
                      /\ In(t, mine, "verified", TRUE) # {}
                   THEN Do(<<"CountVerifiedEmails">>) ELSE <<>>)

CountVerifiedEmails(t) ==
    /\ Runs(t, "CountVerifiedEmails")
    /\ Selects(t, Cardinality(In(t, Own(t, "emails"), "verified", TRUE)) > 1,
               <<>>)

ClearPrimaryEmails(t) ==
    /\ Runs(t, "ClearPrimaryEmails")
    /\ Updates(t, In(t, Own(t, "emails"), "primary", TRUE),
               LAMBDA r : [r EXCEPT !.primary = FALSE])

\* Bug: no index keeps the primary address of an account unique.
SetsPrimaryUnindexed(t) ==
    /\ Runs(t, "SetPrimaryEmail")
    /\ UpdatesOne(t, In(t, The(t, "emails", Arg(t).id) \cap Own(t, "emails"),
                        "verified", TRUE),
                  LAMBDA r : [r EXCEPT !.primary = TRUE])

\* user_emails_primary_idx admits one primary address an account.
SetPrimaryEmail(t) ==
    /\ Runs(t, "SetPrimaryEmail")
    /\ Changes(t, In(t, The(t, "emails", Arg(t).id) \cap Own(t, "emails"),
                     "verified", TRUE),
               LAMBDA r : [r EXCEPT !.primary = TRUE],
               LAMBDA rows :
                 /\ rows # {}
                 /\ Unique(t, <<"emails", Arg(t).id>>,
                           LAMBDA r : r.user = Arg(t).user /\ r.primary),
               <<>>)

DeleteEmail(t) ==
    /\ Runs(t, "DeleteEmail")
    /\ UpdatesOne(t, In(t, The(t, "emails", Arg(t).id) \cap Own(t, "emails"),
                        "primary", FALSE), Gone)

VerifyEmail(t) ==
    /\ Runs(t, "VerifyEmail")
    /\ UpdatesOne(t, In(t, The(t, "emails", Arg(t).id), "verified", FALSE),
                  LAMBDA r : [r EXCEPT !.verified = TRUE])

\* A new digest for a pending address.
ReissueEmailVerification(t) ==
    /\ Runs(t, "ReissueEmailVerification")
    /\ UpdatesOne(t, In(t, The(t, "emails", Arg(t).id), "verified", FALSE),
                  Same)

-----------------------------------------------------------------------------
(* Second factors.                                                         *)

\* The conflict clause skips an active factor.
SaveTOTPEnrollment(t) ==
    LET k == <<"totp", Arg(t).user>>
        pending == [user |-> Arg(t).user, secret |-> Arg(t).new,
                    active |-> FALSE, step |-> 0, by |-> None]
    IN  /\ Runs(t, "SaveTOTPEnrollment")
        /\ View(t, k) # Absent => ~View(t, k).active
        /\ Upserts(t, k, pending, LAMBDA r : pending, <<>>)

\* It writes the secret the Manager verified the code against.
ActivateTOTP(t) ==
    /\ Runs(t, "ActivateTOTP")
    /\ UpdatesOne(t, In(t, Own(t, "totp"), "active", FALSE),
                  LAMBDA r : [r EXCEPT !.secret = Arg(t).val,
                                       !.active = TRUE,
                                       !.step = 1, !.by = t])

UseTOTP(t) ==
    /\ Runs(t, "UseTOTP")
    /\ UpdatesOne(t, {k \in Own(t, "totp") :
                        View(t, k).active /\ View(t, k).step < Arg(t).val},
                  LAMBDA r : [r EXCEPT !.step = Arg(t).val, !.by = t])

GetTOTP(t) ==
    /\ Runs(t, "GetTOTP")
    /\ Selects(t, In(t, Own(t, "totp"), "active", TRUE) # {}, <<>>)

\* DisableTOTP needs a factor, the other callers do not.
DeleteTOTP(t) ==
    /\ Runs(t, "DeleteTOTP")
    /\ Changes(t, Own(t, "totp"), Gone,
               LAMBDA rows : tx[t].op = "DisableTOTP" => rows # {}, <<>>)

DeleteRecoveryCodes(t) ==
    /\ Runs(t, "DeleteRecoveryCodes")
    /\ Updates(t, Own(t, "codes"), Gone)

InsertRecoveryCode(t) ==
    /\ Runs(t, "InsertRecoveryCode")
    /\ Inserts(t, <<"codes", Param(t)>>,
               [user |-> Arg(t).user, st |-> "open", by |-> None])

\* Bug: a used code matches.
ConsumesAnyCode(t) ==
    /\ Runs(t, "ConsumeRecoveryCode")
    /\ UpdatesOne(t, The(t, "codes", Arg(t).id) \cap Own(t, "codes"),
                  LAMBDA r : Stamped(t, r, "used"))

ConsumeRecoveryCode(t) ==
    /\ Runs(t, "ConsumeRecoveryCode")
    /\ UpdatesOne(t, In(t, The(t, "codes", Arg(t).id) \cap Own(t, "codes"),
                        "st", "open"),
                  LAMBDA r : Stamped(t, r, "used"))

\* passkeys.credential_id is unique; the key stands for it.
InsertPasskey(t) ==
    /\ Runs(t, "InsertPasskey")
    /\ Inserts(t, <<"passkeys", Arg(t).id>>, [user |-> Arg(t).user])

TouchPasskey(t) ==
    /\ Runs(t, "TouchPasskey")
    /\ UpdatesOne(t, The(t, "passkeys", Arg(t).id) \cap Own(t, "passkeys"),
                  Same)

DeletePasskey(t) ==
    /\ Runs(t, "DeletePasskey")
    /\ UpdatesOne(t, The(t, "passkeys", Arg(t).id) \cap Own(t, "passkeys"),
                  Gone)

DeleteUserPasskeys(t) ==
    /\ Runs(t, "DeleteUserPasskeys")
    /\ Updates(t, Own(t, "passkeys"), Gone)

FactorStatements(t) ==
    \/ InsertUserEmail(t) \/ GetEmailVerification(t) \/ CountVerifiedEmails(t)
    \/ ClearPrimaryEmails(t) \/ SetPrimaryEmail(t) \/ DeleteEmail(t)
    \/ VerifyEmail(t) \/ ReissueEmailVerification(t) \/ SaveTOTPEnrollment(t)
    \/ ActivateTOTP(t) \/ UseTOTP(t) \/ GetTOTP(t) \/ DeleteTOTP(t)
    \/ DeleteRecoveryCodes(t) \/ InsertRecoveryCode(t)
    \/ ConsumeRecoveryCode(t) \/ InsertPasskey(t) \/ TouchPasskey(t)
    \/ DeletePasskey(t) \/ DeleteUserPasskeys(t)
=============================================================================
