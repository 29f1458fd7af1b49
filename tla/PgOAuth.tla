-------------------------------- MODULE PgOAuth -------------------------------
(***************************************************************************)
(* Statements of the PostgreSQL store on OAuth clients, grants and tokens. *)
(* Most records are documents: a transaction reads one without a lock and  *)
(* writes all of it back.  Expiry is left out: every record is in time.    *)
(***************************************************************************)
EXTENDS PgTenancy

CONSTANTS
    OpenLimit,           \* active clients open registration allows
    MaxRegistrations     \* clients one initial access token registers

\* The transaction keeps what it read.
Remembers(t, keys, ok, more) ==
    \E k \in keys :
      ok /\ Becomes(t, [Then(t, more) EXCEPT !.seen = View(t, k)])

-----------------------------------------------------------------------------
(* Clients.                                                                *)

\* Open registration is limited, another may need an initial access token.
OAuthIssuerJSONByID(t) ==
    /\ Runs(t, "OAuthIssuerJSONByID")
    /\ \E k \in The(t, "issuers", Arg(t).ws) :
         Selects(t, TRUE,
                 (IF View(t, k).mode = "open"
                  THEN Do(<<"OAuthLockIssuer", "OAuthClientJSONsByIssuer">>)
                  ELSE <<>>)
                 \o (IF Arg(t).val = None THEN <<>>
                     ELSE Do(<<"OAuthInitialAccessTokenJSON",
                               "OAuthUseInitialAccessToken">>)))

\* Bug: the issuer is not locked while the clients are counted.
ReadsIssuer(t) ==
    /\ Runs(t, "OAuthLockIssuer")
    /\ Selects(t, The(t, "issuers", Arg(t).ws) # {}, <<>>)

OAuthLockIssuer(t) ==
    /\ Runs(t, "OAuthLockIssuer")
    /\ UpdatesOne(t, The(t, "issuers", Arg(t).ws), Same)

\* Every client of the model was registered dynamically.
OAuthClientJSONsByIssuer(t) ==
    /\ Runs(t, "OAuthClientJSONsByIssuer")
    /\ Selects(t, Cardinality(In(t, Rows(t, "clients"), "disabled", FALSE))
                  < OpenLimit, <<>>)

OAuthInitialAccessTokenJSON(t) ==
    /\ Runs(t, "OAuthInitialAccessTokenJSON")
    /\ \E k \in In(t, The(t, "initials", Arg(t).val), "st", "open") :
         Remembers(t, {k}, View(t, k).count < MaxRegistrations, <<>>)

\* The count must still be the one that was read.
OAuthUseInitialAccessToken(t) ==
    /\ Runs(t, "OAuthUseInitialAccessToken")
    /\ UpdatesOne(t, In(t, In(t, The(t, "initials", Arg(t).val),
                              "count", tx[t].seen.count), "st", "open"),
                  LAMBDA r : [r EXCEPT !.count = tx[t].seen.count + 1])

OAuthInsertClient(t) ==
    /\ Runs(t, "OAuthInsertClient")
    /\ Inserts(t, <<"clients", Arg(t).id>>,
               [disabled |-> FALSE, secret |-> 0, via |-> Arg(t).val])

OAuthInitialAccessTokenJSONByID(t) ==
    /\ Runs(t, "OAuthInitialAccessTokenJSONByID")
    /\ Selects(t, The(t, "initials", Arg(t).val) # {}, <<>>)

OAuthRevokeInitialAccessToken(t) ==
    /\ Runs(t, "OAuthRevokeInitialAccessToken")
    /\ UpdatesOne(t, The(t, "initials", Arg(t).val),
                  LAMBDA r : [r EXCEPT !.st = "revoked"])

OAuthClientJSONByID(t) ==
    /\ Runs(t, "OAuthClientJSONByID")
    /\ Remembers(t, The(t, "clients", Arg(t).id), TRUE, <<>>)

\* The document that was read, with its status or its secret set.
OAuthUpdateClientJSON(t) ==
    /\ Runs(t, "OAuthUpdateClientJSON")
    /\ UpdatesOne(t, The(t, "clients", Arg(t).id),
                  LAMBDA r :
                    IF tx[t].op = "SetOAuthClientDisabled"
                    THEN [tx[t].seen EXCEPT !.disabled = Arg(t).val]
                    ELSE [tx[t].seen EXCEPT !.secret = Arg(t).val])

-----------------------------------------------------------------------------
(* Grants and tokens.                                                      *)

OAuthInsertGrant(t) ==
    /\ Runs(t, "OAuthInsertGrant")
    /\ Inserts(t, <<"grants", Arg(t).id>>,
               [user |-> Arg(t).user, client |-> Arg(t).val, st |-> "live"])

OAuthInsertAuthorizationCode(t) ==
    /\ Runs(t, "OAuthInsertAuthorizationCode")
    /\ Inserts(t, <<"authcodes", Arg(t).id>>,
               [grant |-> Arg(t).id, st |-> "open", by |-> None])

OAuthAuthorizationCodeJSONByID(t) ==
    /\ Runs(t, "OAuthAuthorizationCodeJSONByID")
    /\ Remembers(t, The(t, "authcodes", Arg(t).id), TRUE, <<>>)

OAuthConsumeAuthorizationCode(t) ==
    /\ Runs(t, "OAuthConsumeAuthorizationCode")
    /\ UpdatesOne(t, In(t, The(t, "authcodes", Arg(t).id), "st", "open"),
                  LAMBDA r : Stamped(t, r, "used"))

OAuthRefreshTokenJSONByID(t) ==
    /\ Runs(t, "OAuthRefreshTokenJSONByID")
    /\ Remembers(t, The(t, "refresh", Arg(t).id), TRUE, <<>>)

OAuthConsumeRefreshToken(t) ==
    /\ Runs(t, "OAuthConsumeRefreshToken")
    /\ UpdatesOne(t, In(t, In(t, The(t, "refresh", Arg(t).id), "st", "open"),
                        "revoked", FALSE),
                  LAMBDA r : Stamped(t, r, "used"))

OAuthInsertAccessToken(t) ==
    /\ Runs(t, "OAuthInsertAccessToken")
    /\ Inserts(t, <<"access", Arg(t).new>>,
               [grant |-> tx[t].seen.grant, st |-> "live"])

\* A new family, or the family of the token that was rotated.
OAuthInsertRefreshToken(t) ==
    /\ Runs(t, "OAuthInsertRefreshToken")
    /\ Inserts(t, <<"refresh", Arg(t).new>>,
               [grant |-> tx[t].seen.grant, st |-> "open", by |-> None,
                revoked |-> FALSE,
                family |-> IF tx[t].op = "RotateOAuthRefreshToken"
                           THEN tx[t].seen.family ELSE Arg(t).new])

OAuthAccessTokenJSONByID(t) ==
    /\ Runs(t, "OAuthAccessTokenJSONByID")
    /\ Selects(t, The(t, "access", Param(t)) # {}, <<>>)

OAuthUpdateAccessTokenJSON(t) ==
    /\ Runs(t, "OAuthUpdateAccessTokenJSON")
    /\ UpdatesOne(t, The(t, "access", Param(t)), Revoked)

RefreshFamily(t) == In(t, Rows(t, "refresh"), "family", Arg(t).id)

OAuthRefreshFamilyGrantIDs(t) ==
    /\ Runs(t, "OAuthRefreshFamilyGrantIDs")
    /\ Selects(t, RefreshFamily(t) # {},
               Do(<<"OAuthRevokeRefreshFamily">>)
               \o DoEach("OAuthAccessTokenRecordsByGrant",
                         {View(t, k).grant : k \in RefreshFamily(t)}))

OAuthRevokeRefreshFamily(t) ==
    /\ Runs(t, "OAuthRevokeRefreshFamily")
    /\ Updates(t, In(t, RefreshFamily(t), "revoked", FALSE),
               LAMBDA r : [r EXCEPT !.revoked = TRUE])

Ids(keys) == {k[2] : k \in keys}

OAuthAccessTokenRecordsByGrant(t) ==
    /\ Runs(t, "OAuthAccessTokenRecordsByGrant")
    /\ Selects(t, TRUE,
               DoEach("OAuthUpdateAccessTokenJSON",
                      Ids(In(t, In(t, Rows(t, "access"), "grant", Param(t)),
                             "st", "live"))))

OAuthRefreshTokenRecordsByGrant(t) ==
    /\ Runs(t, "OAuthRefreshTokenRecordsByGrant")
    /\ Selects(t, TRUE,
               DoEach("OAuthRevokeRefreshToken",
                      Ids(In(t, In(t, Rows(t, "refresh"), "grant", Param(t)),
                             "revoked", FALSE))))

OAuthRevokeRefreshToken(t) ==
    /\ Runs(t, "OAuthRevokeRefreshToken")
    /\ UpdatesOne(t, The(t, "refresh", Param(t)),
                  LAMBDA r : [r EXCEPT !.revoked = TRUE])

OAuthGrantJSONByID(t) ==
    /\ Runs(t, "OAuthGrantJSONByID")
    /\ Selects(t, The(t, "grants", Param(t)) # {}, <<>>)

OAuthUpdateGrantJSON(t) ==
    /\ Runs(t, "OAuthUpdateGrantJSON")
    /\ UpdatesOne(t, The(t, "grants", Param(t)), Revoked)

RevokeGrant(g) == <<<<"OAuthGrantJSONByID", g>>, <<"OAuthUpdateGrantJSON", g>>,
                    <<"OAuthAccessTokenRecordsByGrant", g>>,
                    <<"OAuthRefreshTokenRecordsByGrant", g>>>>

\* One grant after the other.
RevokeGrants(ids) ==
    FlattenSeq([i \in 1..Cardinality(ids) |-> RevokeGrant(SetToSeq(ids)[i])])

OAuthGrantIDsByUser(t) ==
    /\ Runs(t, "OAuthGrantIDsByUser")
    /\ Selects(t, TRUE, RevokeGrants(Ids(Own(t, "grants"))))

OAuthGrantIDsByClient(t) ==
    /\ Runs(t, "OAuthGrantIDsByClient")
    /\ Selects(t, TRUE, RevokeGrants(Ids(In(t, Rows(t, "grants"), "client",
                                            Arg(t).id))))

OAuthStatements(t) ==
    \/ OAuthIssuerJSONByID(t) \/ OAuthLockIssuer(t)
    \/ OAuthClientJSONsByIssuer(t) \/ OAuthInitialAccessTokenJSON(t)
    \/ OAuthUseInitialAccessToken(t) \/ OAuthInsertClient(t)
    \/ OAuthInitialAccessTokenJSONByID(t) \/ OAuthRevokeInitialAccessToken(t)
    \/ OAuthClientJSONByID(t) \/ OAuthUpdateClientJSON(t)
    \/ OAuthInsertGrant(t) \/ OAuthInsertAuthorizationCode(t)
    \/ OAuthAuthorizationCodeJSONByID(t) \/ OAuthConsumeAuthorizationCode(t)
    \/ OAuthRefreshTokenJSONByID(t) \/ OAuthConsumeRefreshToken(t)
    \/ OAuthInsertAccessToken(t) \/ OAuthInsertRefreshToken(t)
    \/ OAuthAccessTokenJSONByID(t) \/ OAuthUpdateAccessTokenJSON(t)
    \/ OAuthRefreshFamilyGrantIDs(t) \/ OAuthRevokeRefreshFamily(t)
    \/ OAuthAccessTokenRecordsByGrant(t) \/ OAuthRefreshTokenRecordsByGrant(t)
    \/ OAuthRevokeRefreshToken(t) \/ OAuthGrantJSONByID(t)
    \/ OAuthUpdateGrantJSON(t) \/ OAuthGrantIDsByUser(t)
    \/ OAuthGrantIDsByClient(t)
=============================================================================
