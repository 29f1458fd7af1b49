------------------------------- MODULE Profiles -------------------------------
(***************************************************************************)
(* The Manager's calls on one account: self-registration, its addresses    *)
(* and their verification, its profile, and its anonymization.             *)
(***************************************************************************)
EXTENDS Directory

-----------------------------------------------------------------------------
(* Self-registration.                                                      *)

SignUp(r) ==
    /\ Starts(r, "SignUp")
    /\ \E a \in Addresses :
         Begins(r, [Blank EXCEPT !.op = "SignUp", !.addr = a],
                <<"domain policy", "unclaimed">>)

\* Whether the address is verified depends on AutoVerifyEmail.  An address
\* claimed meanwhile, or by a pending record the lookup does not see, is
\* reported as a collision and changes nothing.
SignUpCommits(r) ==
    /\ Commits(r, "SignUp")
    /\ \E u \in Users, e \in EmailIDs, w \in Workspaces,
          st \in {"pending", "verified"} :
         StoreCreateSignup(u, e, call[r].addr, st, w)
    /\ Returns(r)

-----------------------------------------------------------------------------
(* Addresses.                                                              *)

BeginEmailAddition(r) ==
    /\ Starts(r, "BeginEmailAddition")
    /\ \E u \in Registered, a \in Addresses :
         Begins(r, [Blank EXCEPT !.op = "BeginEmailAddition", !.actor = u,
                                 !.addr = a], <<>>)

BeginEmailAdditionCommits(r) ==
    /\ Commits(r, "BeginEmailAddition")
    /\ \E e \in EmailIDs : StoreSaveEmail(e, call[r].actor, call[r].addr)
    /\ Returns(r)

\* No actor: anybody may ask for any address.
ResendEmailVerification(r) ==
    /\ Starts(r, "ResendEmailVerification")
    /\ \E a \in Addresses :
         Begins(r, [Blank EXCEPT !.op = "ResendEmailVerification", !.addr = a],
                <<"domain policy", "pending address">>)

\* EmailByAddress.
ReadsPendingAddress(r) ==
    /\ At(r, "pending address")
    /\ \E e \in EmailIDs :
         /\ emails[e].st = "pending" /\ emails[e].addr = call[r].addr
         /\ Continues(r, [call[r] EXCEPT !.id = e])

ResendEmailVerificationCommits(r) ==
    /\ Commits(r, "ResendEmailVerification")
    /\ emails[call[r].id] # Absent /\ emails[call[r].id].code < MaxCode
    /\ StoreReissueEmailVerification(call[r].id)
    /\ Returns(r)

\* Whoever received a token of the record, the current one or an older one.
ConfirmEmail(r) ==
    /\ Starts(r, "ConfirmEmail")
    /\ \E e \in {e \in EmailIDs : Exists(emails, e)} :
         \E code \in 0..emails[e].code :
           Begins(r, [Blank EXCEPT !.op = "ConfirmEmail", !.id = e,
                                   !.to = code], <<"verification">>)

\* EmailVerificationByID and the digest comparison.
ReadsVerification(r) ==
    /\ At(r, "verification")
    /\ emails[call[r].id].st = "pending"
    /\ emails[call[r].id].code = call[r].to
    /\ Passes(r)

ConfirmEmailCommits(r) ==
    /\ Commits(r, "ConfirmEmail")
    /\ StoreVerifyEmail(call[r].id)
    /\ Returns(r)

OwnAddress(r, op) ==
    /\ Starts(r, op)
    /\ \E e \in {e \in EmailIDs : Exists(emails, e)} :
         Begins(r, [Blank EXCEPT !.op = op, !.actor = emails[e].user,
                                 !.id = e], <<>>)

SetPrimaryEmail(r) == OwnAddress(r, "SetPrimaryEmail")
SetPrimaryEmailCommits(r) ==
    /\ Commits(r, "SetPrimaryEmail")
    /\ StoreSetPrimaryEmail(call[r].actor, call[r].id)
    /\ Returns(r)

RemoveEmail(r) == OwnAddress(r, "RemoveEmail")
RemoveEmailCommits(r) ==
    /\ Commits(r, "RemoveEmail")
    /\ StoreRemoveEmail(call[r].actor, call[r].id)
    /\ Returns(r)

-----------------------------------------------------------------------------
(* The account.                                                            *)

\* UpdateUser is the account's own entry point, AdminUpdateUser another's.
UpdateUser(r) ==
    /\ Starts(r, "UpdateUser")
    /\ \E a \in Registered, u \in Registered :
         Begins(r, [Blank EXCEPT !.op = "UpdateUser", !.actor = a, !.user = u],
                (IF u = a THEN <<>> ELSE MayAdminister("admin.users.write"))
                \o <<"target">>)

UpdateUserCommits(r) ==
    /\ Commits(r, "UpdateUser")
    /\ StoreUpdateUser(call[r].user, call[r].row)
    /\ Returns(r)

AnonymizeUser(r) ==
    /\ Starts(r, "AnonymizeUser")
    /\ \E a \in Registered, u \in Registered :
         Begins(r, [Blank EXCEPT !.op = "AnonymizeUser", !.actor = a,
                                 !.user = u],
                MayAdminister("admin.users.write"))

AnonymizeUserCommits(r) ==
    /\ Commits(r, "AnonymizeUser")
    /\ StoreAnonymizeUser(call[r].user)
    /\ Returns(r)

ProfileSteps(r) ==
    \/ SignUp(r) \/ SignUpCommits(r)
    \/ BeginEmailAddition(r) \/ BeginEmailAdditionCommits(r)
    \/ ResendEmailVerification(r) \/ ReadsPendingAddress(r)
    \/ ResendEmailVerificationCommits(r)
    \/ ConfirmEmail(r) \/ ReadsVerification(r) \/ ConfirmEmailCommits(r)
    \/ SetPrimaryEmail(r) \/ SetPrimaryEmailCommits(r)
    \/ RemoveEmail(r) \/ RemoveEmailCommits(r)
    \/ UpdateUser(r) \/ UpdateUserCommits(r)
    \/ AnonymizeUser(r) \/ AnonymizeUserCommits(r)
=============================================================================
