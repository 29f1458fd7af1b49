----------------------------- MODULE PgStatements -----------------------------
(***************************************************************************)
(* The statements of the PostgreSQL store, one action each, under the      *)
(* names their queries have.  A row keeps the columns that decide          *)
(* something; by is the connection whose transaction stamped it, and pwd   *)
(* of a session the password it was opened with.                           *)
(***************************************************************************)
EXTENDS SqlEngine

CONSTANT MaxAttempts   \* login failures that lock an account

In(t, keys, field, value) == {k \in keys : View(t, k)[field] = value}
Stamped(t, row, st) == [row EXCEPT !.st = st, !.by = t]

-----------------------------------------------------------------------------
(* Accounts.                                                               *)

\* An account is read together with its primary address.
GetUserByID(t) ==
    /\ Runs(t, "GetUserByID")
    /\ Selects(t, /\ The(t, "users", Arg(t).user) # {}
                  /\ In(t, Own(t, "emails"), "primary", TRUE) # {}, <<>>)

InsertUser(t) ==
    /\ Runs(t, "InsertUser")
    /\ Inserts(t, <<"users", Arg(t).user>>, [disabled |-> FALSE])

TouchUserLastSeen(t) ==
    /\ Runs(t, "TouchUserLastSeen")
    /\ UpdatesOne(t, The(t, "users", Arg(t).user), Same)

SetUserDisabled(t) ==
    /\ Runs(t, "SetUserDisabled")
    /\ UpdatesOne(t, The(t, "users", Arg(t).user),
                  LAMBDA r : [r EXCEPT !.disabled = Arg(t).val])

ScrubUserProfile(t) ==
    /\ Runs(t, "ScrubUserProfile")
    /\ UpdatesOne(t, The(t, "users", Arg(t).user),
                  LAMBDA r : [r EXCEPT !.disabled = TRUE])

\* The other scrubs blank columns that decide nothing; they lock the rows.
Scrub(t) ==
    /\ Runs(t, "Scrub")
    /\ Updates(t, Own(t, Param(t)), Same)

-----------------------------------------------------------------------------
(* Passwords.                                                              *)

Expected(t, row) == row.pwd = Arg(t).val.pwd /\ row.enc = Arg(t).val.enc

InsertPassword(t) ==
    /\ Runs(t, "InsertPassword")
    /\ Inserts(t, <<"passwords", Arg(t).user>>,
               [user |-> Arg(t).user, pwd |-> Arg(t).new, enc |-> 0])

ReplacePassword(t) ==
    /\ Runs(t, "ReplacePassword")
    /\ UpdatesOne(t, Own(t, "passwords"),
                  LAMBDA r : [r EXCEPT !.pwd = Arg(t).new, !.enc = 0])

UpsertPassword(t) ==
    /\ Runs(t, "UpsertPassword")
    /\ Upserts(t, <<"passwords", Arg(t).user>>,
               [user |-> Arg(t).user, pwd |-> Arg(t).new, enc |-> 0],
               LAMBDA r : [r EXCEPT !.pwd = Arg(t).new, !.enc = 0], <<>>)

\* The same password under newer parameters.
RehashPassword(t) ==
    /\ Runs(t, "RehashPassword")
    /\ UpdatesOne(t, {k \in Own(t, "passwords") : Expected(t, View(t, k))},
                  LAMBDA r : [r EXCEPT !.enc = 1])

\* Bug: the row is read without its lock.
ReadsPassword(t) ==
    /\ Runs(t, "LockPassword")
    /\ Selects(t, \E k \in Own(t, "passwords") : Expected(t, View(t, k)),
               <<>>)

\* The hash read under the lock must be the one authenticated against.
LockPassword(t) ==
    /\ Runs(t, "LockPassword")
    /\ Changes(t, Own(t, "passwords"), Same,
               LAMBDA rows : \E k \in rows : Expected(t, View(t, k)), <<>>)

GetLoginThrottle(t) ==
    /\ Runs(t, "GetLoginThrottle")
    /\ Selects(t, TRUE,
               IF In(t, Own(t, "throttles"), "lock", "expired") # {}
               THEN Do(<<"ClearLoginThrottle">>) ELSE <<>>)

ClearLoginThrottle(t) ==
    /\ Runs(t, "ClearLoginThrottle")
    /\ Updates(t, Own(t, "throttles"), Gone)

\* The count it returns decides whether the account is locked.
UpsertLoginFailure(t) ==
    LET k == <<"throttles", Arg(t).user>>
        n == IF View(t, k) = Absent THEN 1 ELSE View(t, k).n + 1
    IN  /\ Runs(t, "UpsertLoginFailure")
        /\ Upserts(t, k, [user |-> Arg(t).user, n |-> 1, lock |-> "none"],
                   LAMBDA r : [r EXCEPT !.n = n],
                   IF n >= MaxAttempts THEN Do(<<"LockLoginThrottle">>)
                   ELSE <<>>)

LockLoginThrottle(t) ==
    /\ Runs(t, "LockLoginThrottle")
    /\ UpdatesOne(t, Own(t, "throttles"),
                  LAMBDA r : [r EXCEPT !.lock = "on"])

-----------------------------------------------------------------------------
(* Single-use messages.                                                    *)

InsertPasswordReset(t) ==
    /\ Runs(t, "InsertPasswordReset")
    /\ Inserts(t, <<"resets", Arg(t).id>>,
               [user |-> Arg(t).user, st |-> "open", by |-> None])

ConsumePasswordReset(t) ==
    /\ Runs(t, "ConsumePasswordReset")
    /\ UpdatesOne(t, In(t, The(t, "resets", Arg(t).id), "st", "open"),
                  LAMBDA r : Stamped(t, r, "used"))

DeleteOtherPasswordResets(t) ==
    /\ Runs(t, "DeleteOtherPasswordResets")
    /\ Updates(t, Own(t, "resets") \ {<<"resets", Arg(t).id>>}, Gone)

InsertEmailAuthentication(t) ==
    /\ Runs(t, "InsertEmailAuthentication")
    /\ Inserts(t, <<"links", Arg(t).id>>,
               [user |-> Arg(t).user, st |-> "open", by |-> None])

ConsumeEmailAuthentication(t) ==
    /\ Runs(t, "ConsumeEmailAuthentication")
    /\ UpdatesOne(t, In(t, The(t, "links", Arg(t).id) \cap Own(t, "links"),
                        "st", "open"),
                  LAMBDA r : Stamped(t, r, "used"))

-----------------------------------------------------------------------------
(* Sessions and personal access tokens.                                    *)

GetSession(t) ==
    /\ Runs(t, "GetSession")
    /\ Selects(t, The(t, "sessions", Arg(t).id) # {}, <<>>)

InsertSession(t) ==
    /\ Runs(t, "InsertSession")
    /\ Inserts(t, <<"sessions", Arg(t).id>>,
               [user |-> Arg(t).user, st |-> "live", by |-> None,
                pwd |-> IF Arg(t).val = None THEN None
                        ELSE Arg(t).val.pwd])

TouchSession(t) ==
    /\ Runs(t, "TouchSession")
    /\ UpdatesOne(t, In(t, The(t, "sessions", Arg(t).id), "st", "live"),
                  Same)

RevokeSessionByID(t) ==
    /\ Runs(t, "RevokeSessionByID")
    /\ Updates(t, In(t, The(t, "sessions", Arg(t).id), "st", "live"),
               LAMBDA r : Stamped(t, r, "revoked"))

RevokeUserSessions(t) ==
    /\ Runs(t, "RevokeUserSessions")
    /\ Updates(t, In(t, Own(t, "sessions"), "st", "live"),
               LAMBDA r : Stamped(t, r, "revoked"))

InsertPAT(t) ==
    /\ Runs(t, "InsertPAT")
    /\ Inserts(t, <<"pats", Arg(t).id>>,
               [user |-> Arg(t).user, ws |-> Arg(t).ws, st |-> "live"])

GetPATByID(t) ==
    /\ Runs(t, "GetPATByID")
    /\ Selects(t, The(t, "pats", Arg(t).id) # {}, <<>>)

TouchPAT(t) ==
    /\ Runs(t, "TouchPAT")
    /\ UpdatesOne(t, The(t, "pats", Arg(t).id), Same)

Revoked(row) == [row EXCEPT !.st = "revoked"]

RevokePAT(t) ==
    /\ Runs(t, "RevokePAT")
    /\ UpdatesOne(t, The(t, "pats", Arg(t).id) \cap Own(t, "pats"), Revoked)

RevokeUserPATs(t) ==
    /\ Runs(t, "RevokeUserPATs")
    /\ Updates(t, In(t, Own(t, "pats"), "st", "live"), Revoked)

RevokeWorkspacePATs(t) ==
    /\ Runs(t, "RevokeWorkspacePATs")
    /\ Updates(t, In(t, In(t, Own(t, "pats"), "ws", Arg(t).ws),
                     "st", "live"), Revoked)

RevokeAllWorkspacePATs(t) ==
    /\ Runs(t, "RevokeAllWorkspacePATs")
    /\ Updates(t, In(t, In(t, Rows(t, "pats"), "ws", Arg(t).ws),
                     "st", "live"), Revoked)

AccountStatements(t) ==
    \/ GetUserByID(t) \/ InsertUser(t) \/ TouchUserLastSeen(t)
    \/ SetUserDisabled(t) \/ ScrubUserProfile(t) \/ Scrub(t)
    \/ InsertPassword(t) \/ ReplacePassword(t) \/ UpsertPassword(t)
    \/ RehashPassword(t) \/ LockPassword(t) \/ GetLoginThrottle(t)
    \/ ClearLoginThrottle(t) \/ UpsertLoginFailure(t) \/ LockLoginThrottle(t)
    \/ InsertPasswordReset(t) \/ ConsumePasswordReset(t)
    \/ DeleteOtherPasswordResets(t) \/ InsertEmailAuthentication(t)
    \/ ConsumeEmailAuthentication(t) \/ GetSession(t) \/ InsertSession(t)
    \/ TouchSession(t) \/ RevokeSessionByID(t) \/ RevokeUserSessions(t)
    \/ InsertPAT(t) \/ GetPATByID(t) \/ TouchPAT(t) \/ RevokePAT(t)
    \/ RevokeUserPATs(t) \/ RevokeWorkspacePATs(t)
    \/ RevokeAllWorkspacePATs(t)
=============================================================================
