----------------------------- MODULE MCAccounts -----------------------------
(***************************************************************************)
(* Small instances of Accounts for TLC.  A behaviour runs one mix of       *)
(* operations, chosen in its initial state.                                *)
(***************************************************************************)
EXTENDS Accounts, TLC

Mix(ops) == [ops |-> ops, rehashes |-> 0]
Rehashing(ops, n) == [ops |-> ops, rehashes |-> n]

\* Sign-ins, with or without a second factor, against password changes.
Opening == Rehashing({"SignIn", "ChangePassword", "CreateSession"}, 2)
Promoting == Mix({"SignIn", "VerifyTOTP", "ChangePassword", "CreateSession"})
Revoking == Mix({"SignIn", "VerifyTOTP", "CreateSession", "RevokeSession",
                 "AuthenticateSession"})

\* Sessions and emailed tokens against everything that ends them.
Resetting == Mix({"SignIn", "BeginPasswordReset", "CompletePasswordReset",
                  "CreateSession", "AuthenticateSession", "SignOut",
                  "ChangePassword", "SetUserDisabled", "RevokeUserSessions",
                  "RevokeUserCredentials", "Lapse"})
Mailing == Mix({"SignIn", "BeginPasswordReset", "CompletePasswordReset",
                "BeginEmailAuthentication", "CompleteEmailAuthentication",
                "CreateSession", "AuthenticateSession", "SetUserDisabled",
                "RevokeUserCredentials"})
Linking == Mix({"SignIn", "BeginEmailAuthentication",
                "CompleteEmailAuthentication", "CreateSession",
                "ChangePassword", "Lapse"})

\* Guessing second-factor codes between fresh first factors.
Guessing == {"SignIn", "VerifyTOTP", "Lapse"}
ByLink == Mix(Guessing \cup {"BeginEmailAuthentication",
                             "CompleteEmailAuthentication"})
ByCode == Mix(Guessing \cup {"BeginEmailOTP", "CompleteEmailOTP"})

\* The life of a TOTP factor.
Enrolling == {"SignIn", "BeginTOTPEnrollment", "ConfirmTOTPEnrollment",
              "VerifyTOTP"}
Replaying == Mix(Enrolling \cup {"Tick"})
Disabling == Mix(Enrolling \cup {"DisableTOTP"})
Reissuing == Mix({"SignIn", "VerifyTOTP", "RegenerateRecoveryCodes",
                  "AdminResetSecondFactor", "AnonymizeUser"})

AllMixes == {Opening, Promoting, Revoking, Resetting, Mailing, Linking, ByLink,
             ByCode, Replaying, Disabling, Reissuing}

\* Sign-ins that keep conflicting with rehashes and changes.
OnlyRetries == {Rehashing({"SignIn", "ChangePassword"}, 2)}

\* A session used to open the next one.
OnlyRenewal == {Rehashing({"SignIn", "CreateSession", "AuthenticateSession",
                           "ChangePassword"}, 1)}

Symmetric == Permutations(Requests) \cup Permutations(Passwords)
             \cup Permutations(SessionIDs)
=============================================================================
