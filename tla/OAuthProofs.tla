----------------------------- MODULE OAuthProofs ------------------------------
(***************************************************************************)
(* Proofs about OAuth, for any sets of users, resources, clients, grants,  *)
(* tokens and concurrent calls: what the calls and the tables look like in *)
(* every reachable state, what a transaction can do to the tables, the     *)
(* inductive invariant Secure, and that the steps of consents, tokens and  *)
(* bearers keep it.                                                        *)
(***************************************************************************)
EXTENDS OAuth, TLAPS

-----------------------------------------------------------------------------
(* What a call has established at each of its steps.                       *)

Exchange == "ExchangeOAuthAuthorizationCode"
Rotation == "RefreshOAuthToken"
Bearer == {"AuthenticateOAuthAccessToken", "OAuthUserInfo"}

Resolving == {"client", "fetch", "refetch"}
Checking == {"grant", "resource", "issuer", "standing"}

\* The steps an operation goes through.
Stages(op) ==
    CASE op = Exchange ->
           Resolving \cup Checking \cup {"code", "replay", "mint"}
      [] op = Rotation ->
           Resolving \cup Checking \cup {"token", "family", "mint"}
      [] op = "RevokeOAuthToken" -> Resolving \cup {"revoke"}
      [] op = "IssueOAuthClientCredentials" ->
           Resolving \cup {"machine", "mint"}
      [] op = "BeginOAuthAuthorization" -> Resolving \cup {"begin", "scopes"}
      [] op = "ValidateOAuthAuthorizationRedirect" -> Resolving
      [] op = "AuthenticateOAuthAccessToken" ->
           Checking \cup {"bearer", "served"}
      [] op = "OAuthUserInfo" -> {"userinfo", "subject", "user", "served"}
      [] OTHER -> {}

\* The credential it presents was issued.
Presented(k) ==
    /\ k.op = Exchange => k.arg \in GrantIDs /\ grants[k.arg] # Absent
    /\ k.op = Rotation => k.arg \in RefreshIDs /\ refresh[k.arg] # Absent
    /\ k.op \in Bearer => k.arg \in AccessIDs /\ access[k.arg] # Absent
    /\ k.op = "IssueOAuthClientCredentials" => k.arg \in Resources
    /\ k.op = "BeginOAuthAuthorization" => k.arg \in Asked

\* The client metadata it goes on with, and whose grant it is about.
Informed(k) ==
    /\ k.pc \notin Resolving \cup {"bearer", "userinfo", "subject", "user",
                                   "served"} => k.meta \in Metadata
    /\ \/ k.op = "AuthenticateOAuthAccessToken"
       \/ k.op \in {Exchange, Rotation} /\ k.pc \in Checking \cup {"mint"}
       => grants[GrantOf(k)].client = k.client

WellFormed(k) == k.pc \in Stages(k.op) /\ Presented(k) /\ Informed(k)

-----------------------------------------------------------------------------
(* The tables refer to rows that exist.                                    *)

Integrity ==
    /\ \A g \in GrantIDs : grants[g] = Absent <=> codes[g] = Absent
    /\ \A a \in AccessIDs :
         access[a] # Absent => /\ grants[access[a].grant] # Absent
                               /\ codes[access[a].grant].st = "used"
    /\ \A t \in RefreshIDs :
         refresh[t] # Absent =>
           /\ grants[refresh[t].grant] # Absent
           /\ codes[refresh[t].grant].st = "used"
           /\ refresh[refresh[t].family] # Absent
           /\ refresh[refresh[t].family].grant = refresh[t].grant
           /\ refresh[t].next # None => refresh[refresh[t].next] # Absent

-----------------------------------------------------------------------------
(* Safety.                                                                 *)

\* A call that resolved its client goes on only for an enabled client and
\* with a secret that no runbook replaced, or for a revoked grant.
Backed(k) ==
    /\ /\ k.op \in {Exchange, Rotation} /\ k.pc \notin Resolving
       /\ grants[GrantOf(k)].client = k.client
       => \/ grants[GrantOf(k)].st = "revoked"
          \/ ClientUp(k.client) /\ k.secret >= clients[k.client].burnt
    /\ /\ k.op \in {Exchange, Rotation}
       /\ k.pc \in {"issuer", "standing", "mint"}
       => \/ grants[GrantOf(k)].st = "revoked"
          \/ ResourceUp(grants[GrantOf(k)].resource)

\* A late bearer call has not passed the check that will refuse it.
Doomed(k) ==
    k.late =>
      \/ /\ k.op = "AuthenticateOAuthAccessToken"
         /\ k.pc \in {"bearer", "grant"}
         /\ grants[GrantOf(k)].st = "revoked"
      \/ /\ k.op = "OAuthUserInfo" /\ k.pc = "userinfo"
         /\ \/ grants[GrantOf(k)].st = "revoked"
            \/ access[k.arg].st = "revoked"
      \/ /\ k.op = "OAuthUserInfo" /\ k.pc = "subject"
         /\ grants[GrantOf(k)].st = "revoked"

\* A machine call has seen the allowlist the client still has.
Listed(k) ==
    /\ k.pc \in {"fetch", "refetch"} => k.client \in CIMDs
    /\ k.op = "IssueOAuthClientCredentials" /\ k.pc = "machine" =>
         /\ clients[k.client] # Absent
         /\ clients[k.client].source = "pre" =>
              k.meta.machine = clients[k.client].meta.machine
    /\ k.op = "IssueOAuthClientCredentials" /\ k.pc = "mint" =>
         /\ clients[k.client] # Absent
         /\ clients[k.client].source = "pre"
         /\ k.arg \in clients[k.client].meta.machine

ClientsSound ==
    \A c \in ClientIDs :
      clients[c] # Absent =>
        /\ clients[c].source = "cimd" <=> c \in CIMDs
        /\ clients[c].burnt <= clients[c].secret

TokensSound == OneLiveRefresh /\ FamiliesDieWhole /\ ScopesOnlyNarrow

-----------------------------------------------------------------------------
(* The calls.                                                              *)

Calls == {Idle} \cup TokenCall \cup ConsentCall \cup RegisterCall
         \cup UpdateCall \cup InitialCall

\* The step a call is at tells what kind of call it is.
LEMMA Kinds ==
    ASSUME NEW k \in Calls
    PROVE  /\ k.pc \in TokenPCs => k \in TokenCall
           /\ k \in TokenCall => k.pc \in TokenPCs
           /\ k.pc \in {"approve", "approve.resource", "approve.issuer",
                       "approve.scopes", "approve.commit"}
              => k \in ConsentCall
           /\ k.pc \in {"register.token", "register.commit"}
              => k \in RegisterCall
           /\ k.pc = "update" => k \in UpdateCall
           /\ k.pc = "initial" => k \in InitialCall
           /\ Idle \notin TokenCall
  BY DEF Calls, Idle, TokenCall, ConsentCall, RegisterCall, UpdateCall,
         InitialCall, TokenPCs

-----------------------------------------------------------------------------
(* The tables of grants and tokens.                                        *)

DelegatedType ==
    /\ grants \in [GrantIDs -> Grant \cup {Absent}]
    /\ codes \in [GrantIDs -> Code \cup {Absent}]
    /\ access \in [AccessIDs -> Access \cup {Absent}]
    /\ refresh \in [RefreshIDs -> Refresh \cup {Absent}]

RegistryType ==
    /\ issuer \in Issuer \cup {Absent}
    /\ resources \in [Resources -> Resource \cup {Absent}]
    /\ clients \in [ClientIDs -> Client \cup {Absent}]
    /\ initials \in [InitialIDs -> Initial \cup {Absent}]
    /\ machines \in [MachineIDs -> Machine \cup {Absent}]

Delegation == DelegatedType /\ Integrity /\ TokensSound

\* Rows stay, refer to what they referred to, and stay revoked.
GrantsStay ==
    \A g \in GrantIDs :
      grants[g] # Absent =>
        /\ grants'[g] # Absent
        /\ grants'[g].client = grants[g].client
        /\ grants'[g].user = grants[g].user
        /\ grants'[g].resource = grants[g].resource
        /\ grants'[g].scopes = grants[g].scopes
        /\ grants'[g].meta = grants[g].meta
        /\ grants[g].st = "revoked" => grants'[g].st = "revoked"
AccessStays ==
    \A a \in AccessIDs :
      access[a] # Absent =>
        /\ access'[a] # Absent
        /\ access'[a].grant = access[a].grant
        /\ access'[a].secret = access[a].secret
        /\ access[a].st = "revoked" => access'[a].st = "revoked"
RefreshStays ==
    \A t \in RefreshIDs :
      refresh[t] # Absent =>
        /\ refresh'[t] # Absent
        /\ refresh'[t].grant = refresh[t].grant
        /\ refresh'[t].family = refresh[t].family
DelegatedStays == GrantsStay /\ AccessStays /\ RefreshStays

\* A stored row has its columns.
LEMMA Rows ==
    ASSUME DelegatedType
    PROVE  /\ \A g \in GrantIDs : grants[g] # Absent => grants[g] \in Grant
           /\ \A g \in GrantIDs : codes[g] # Absent => codes[g] \in Code
           /\ \A a \in AccessIDs : access[a] # Absent => access[a] \in Access
           /\ \A t \in RefreshIDs :
                refresh[t] # Absent => refresh[t] \in Refresh
  BY DEF DelegatedType

LEMMA RevokedRows ==
    /\ \A x \in Grant : [x EXCEPT !.st = "revoked"] \in Grant
    /\ \A x \in Access : [x EXCEPT !.st = "revoked"] \in Access
    /\ \A x \in Refresh : [x EXCEPT !.st = "revoked"] \in Refresh
  BY DEF Grant, Access, Refresh

\* revokeOAuthGrants, for any grants that exist.
LEMMA RevokesGrants ==
    ASSUME Delegation, NEW dead \in SUBSET Granted, revokeOAuthGrants(dead)
    PROVE  /\ Delegation' /\ DelegatedStays
           /\ \A g \in dead : grants'[g].st = "revoked"
  <1> USE DEF Delegation
  <1>0. DelegatedType'
    BY Rows, RevokedRows DEF revokeOAuthGrants, DelegatedType, Granted
  <1>1. \A g \in GrantIDs :
          \/ grants'[g] = grants[g] /\ g \notin dead
          \/ /\ g \in dead /\ grants[g] \in Grant /\ grants[g] # Absent
             /\ grants'[g] = [grants[g] EXCEPT !.st = "revoked"]
             /\ grants'[g].st = "revoked" /\ grants'[g] # Absent
             /\ grants'[g].client = grants[g].client
             /\ grants'[g].user = grants[g].user
             /\ grants'[g].resource = grants[g].resource
             /\ grants'[g].scopes = grants[g].scopes
             /\ grants'[g].meta = grants[g].meta
    BY Rows DEF revokeOAuthGrants, Granted, Grant, Absent
  <1>2. \A a \in AccessIDs :
          \/ /\ access'[a] = access[a]
             /\ access[a] # Absent => access[a].grant \notin dead
          \/ /\ access[a] # Absent /\ access[a] \in Access
             /\ access[a].grant \in dead
             /\ access'[a] # Absent /\ access'[a].st = "revoked"
             /\ access'[a].grant = access[a].grant
             /\ access'[a].scopes = access[a].scopes
             /\ access'[a].secret = access[a].secret
    BY Rows DEF revokeOAuthGrants, Access, Absent
  <1>3. \A t \in RefreshIDs :
          \/ /\ refresh'[t] = refresh[t]
             /\ refresh[t] # Absent => refresh[t].grant \notin dead
          \/ /\ refresh[t] # Absent /\ refresh[t] \in Refresh
             /\ refresh[t].grant \in dead
             /\ refresh'[t] # Absent /\ refresh'[t].st = "revoked"
             /\ refresh'[t].grant = refresh[t].grant
             /\ refresh'[t].family = refresh[t].family
             /\ refresh'[t].scopes = refresh[t].scopes
             /\ refresh'[t].next = refresh[t].next
    BY Rows DEF revokeOAuthGrants, Refresh, Absent
  <1>4. codes' = codes
    BY DEF revokeOAuthGrants
  <1>5. DelegatedStays
    BY Zenon, <1>1, <1>2, <1>3 DEF DelegatedStays, GrantsStay, AccessStays,
                            RefreshStays
  <1>6. Integrity'
    <2>1. \A g \in GrantIDs : grants[g] = Absent <=> grants'[g] = Absent
      BY Zenon, <1>1
    <2>2. \A a \in AccessIDs :
            access'[a] # Absent =>
              access[a] # Absent /\ access'[a].grant = access[a].grant
      BY <1>2
    <2>3. \A t \in RefreshIDs :
            /\ refresh[t] = Absent <=> refresh'[t] = Absent
            /\ refresh[t] # Absent =>
                 /\ refresh'[t].grant = refresh[t].grant
                 /\ refresh'[t].family = refresh[t].family
                 /\ refresh'[t].next = refresh[t].next
      BY <1>3
    <2>4. \A a \in AccessIDs : access[a] # Absent => access[a].grant \in GrantIDs
      BY Rows DEF Access
    <2>5. \A t \in RefreshIDs :
            refresh[t] # Absent => /\ refresh[t].grant \in GrantIDs
                                   /\ refresh[t].family \in RefreshIDs
                                   /\ refresh[t].next \in RefreshIDs \cup {None}
      BY Rows DEF Refresh
    <2> QED  BY <2>1, <2>2, <2>3, <2>4, <2>5, <1>4 DEF Integrity
  <1>7. OneLiveRefresh'
    BY <1>3 DEF OneLiveRefresh, TokensSound
  <1>8. FamiliesDieWhole'
    <2> SUFFICES ASSUME NEW t \in RefreshIDs, refresh'[t].st = "revoked",
                        ~(grants'[refresh'[t].grant].st = "revoked")
                 PROVE  /\ \A u \in Refreshes(refresh[t].grant)' :
                             refresh'[u].st = "revoked"
                        /\ \A a \in Accesses(refresh[t].grant)' :
                             access'[a].st = "revoked"
      BY DEF FamiliesDieWhole
    <2>1. refresh[t] # Absent /\ refresh[t].grant \in GrantIDs
      BY <1>3, Rows DEF Refresh, Absent
    <2>2. refresh[t].grant \notin dead /\ refresh'[t] = refresh[t]
      BY Zenon, <1>1, <1>3, <2>1
    <2>3. grants'[refresh[t].grant] = grants[refresh[t].grant]
      BY Zenon, <1>1, <2>1, <2>2
    <2>4. /\ \A u \in Refreshes(refresh[t].grant) : refresh[u].st = "revoked"
          /\ \A a \in Accesses(refresh[t].grant) : access[a].st = "revoked"
      BY <2>2, <2>3 DEF TokensSound, FamiliesDieWhole
    <2> QED  BY <2>2, <2>4, <1>2, <1>3 DEF Refreshes, Accesses
  <1>9. ScopesOnlyNarrow'
    <2>1. \A t \in RefreshIDs :
            refresh'[t] # Absent =>
              /\ refresh'[t].grant \in GrantIDs
              /\ refresh[t] # Absent
              /\ refresh'[t].grant = refresh[t].grant
              /\ refresh'[t].scopes = refresh[t].scopes
              /\ refresh'[t].next = refresh[t].next
              /\ refresh[t].next \in RefreshIDs \cup {None}
              /\ refresh[t].next # None => refresh[refresh[t].next] # Absent
      BY <1>3, Rows DEF Refresh, Integrity
    <2>2. \A a \in AccessIDs :
            access'[a] # Absent => /\ access'[a].grant \in GrantIDs
                                   /\ access[a] # Absent
                                   /\ access'[a].grant = access[a].grant
                                   /\ access'[a].scopes = access[a].scopes
      BY <1>2, Rows DEF Access
    <2>3. \A g \in GrantIDs : grants[g] # Absent =>
                               grants'[g].scopes = grants[g].scopes
      BY Zenon, <1>1
    <2>4. \A t \in RefreshIDs :
            refresh[t] # Absent => /\ refresh'[t].scopes = refresh[t].scopes
                                   /\ grants[refresh[t].grant] # Absent
      BY <1>3 DEF Integrity
    <2>5. \A a \in AccessIDs :
            access[a] # Absent => grants[access[a].grant] # Absent
      BY DEF Integrity
    <2> QED
      BY <2>1, <2>2, <2>3, <2>4, <2>5 DEF ScopesOnlyNarrow, TokensSound
  <1> QED  BY Zenon, <1>0, <1>1, <1>5, <1>6, <1>7, <1>8, <1>9 DEF TokensSound,
              Granted

\* Columns that hold identifiers.
LEMMA References ==
    ASSUME DelegatedType
    PROVE  /\ \A a \in AccessIDs :
                access[a] # Absent => access[a].grant \in GrantIDs
           /\ \A t \in RefreshIDs :
                refresh[t] # Absent =>
                  /\ refresh[t].grant \in GrantIDs
                  /\ refresh[t].family \in RefreshIDs
                  /\ refresh[t].next \in RefreshIDs \cup {None}
  BY Rows DEF Access, Refresh

LEMMA CreatesGrant ==
    ASSUME Delegation, NEW g \in GrantIDs, NEW row \in Grant,
           StoreCreateOAuthGrantAndCode(g, row)
    PROVE  Delegation' /\ DelegatedStays
  <1> USE DEF Delegation
  <1>1. /\ grants[g] = Absent /\ codes[g] = Absent
        /\ grants' = [grants EXCEPT ![g] = row]
        /\ codes' = [codes EXCEPT ![g] = [st |-> "open"]]
        /\ access' = access /\ refresh' = refresh
    BY DEF StoreCreateOAuthGrantAndCode, Integrity
  <1>2. DelegatedType'
    BY <1>1 DEF DelegatedType, Code
  <1>3. grants'[g] = row /\ codes'[g] = [st |-> "open"] /\ row # Absent
        /\ codes'[g] # Absent
    BY <1>1 DEF DelegatedType, Grant, Absent
  <1>4. \A h \in GrantIDs \ {g} : grants'[h] = grants[h] /\ codes'[h] = codes[h]
    BY <1>1 DEF DelegatedType
  <1>5. /\ \A a \in AccessIDs : access[a] # Absent =>
             access[a].grant \in GrantIDs \ {g}
        /\ \A t \in RefreshIDs : refresh[t] # Absent =>
             refresh[t].grant \in GrantIDs \ {g}
    BY <1>1, References DEF Integrity
  <1>6. DelegatedStays
    BY <1>1, <1>4 DEF DelegatedStays, GrantsStay, AccessStays, RefreshStays
  <1>7. Integrity'
    BY <1>1, <1>3, <1>4, <1>5 DEF Integrity
  <1>8. TokensSound'
    <2>1. OneLiveRefresh'
      BY <1>1 DEF OneLiveRefresh, TokensSound
    <2>2. FamiliesDieWhole'
      BY <1>1, <1>4, <1>5 DEF FamiliesDieWhole, TokensSound, Refreshes,
                              Accesses, Absent
    <2>3. ScopesOnlyNarrow'
      BY <1>1, <1>4, <1>5 DEF ScopesOnlyNarrow, TokensSound
    <2> QED  BY <2>1, <2>2, <2>3 DEF TokensSound
  <1> QED  BY <1>2, <1>6, <1>7, <1>8

LEMMA RedeemsCode ==
    ASSUME Delegation, NEW g \in GrantIDs, NEW a \in AccessIDs, NEW offline,
           NEW t, offline => t \in RefreshIDs, NEW secret \in Nat,
           grants[g] # Absent,
           StoreConsumeOAuthAuthorizationCode(g, a, offline, t,
                                              grants[g].scopes, secret)
    PROVE  Delegation' /\ DelegatedStays
  <1> USE DEF Delegation
  <1> DEFINE new == Minted(g, grants[g].scopes, secret)
             first == FirstRefresh(g, t, grants[g].scopes)
  <1>1. /\ codes[g].st = "open" /\ access[a] = Absent
        /\ offline => refresh[t] = Absent
        /\ codes' = [codes EXCEPT ![g].st = "used"]
        /\ access' = [access EXCEPT ![a] = new]
        /\ refresh' = IF offline THEN [refresh EXCEPT ![t] = first] ELSE refresh
        /\ grants' = grants
    BY DEF StoreConsumeOAuthAuthorizationCode, Redeemable
  <1>2. codes[g] \in Code /\ grants[g] \in Grant
    BY Rows DEF Integrity
  <1>3. /\ new \in Access /\ new # Absent /\ new.grant = g
        /\ new.scopes = grants[g].scopes /\ new.st = "live"
    BY <1>2 DEF Minted, Access, Grant, Absent
  <1>4. offline =>
          /\ first \in Refresh /\ first # Absent /\ first.grant = g
          /\ first.scopes = grants[g].scopes /\ first.st = "open"
          /\ first.family = t /\ first.next = None
    BY <1>2 DEF FirstRefresh, Refresh, Grant, Absent
  <1>5. DelegatedType'
    <2>1. codes' \in [GrantIDs -> Code \cup {Absent}]
      BY <1>1, <1>2 DEF DelegatedType, Code
    <2>2. access' \in [AccessIDs -> Access \cup {Absent}]
      BY <1>1, <1>3 DEF DelegatedType
    <2>3. refresh' \in [RefreshIDs -> Refresh \cup {Absent}]
      BY <1>1, <1>4 DEF DelegatedType
    <2> QED  BY <2>1, <2>2, <2>3, <1>1 DEF DelegatedType
  <1>6. /\ access'[a] = new
        /\ \A b \in AccessIDs \ {a} : access'[b] = access[b]
    BY <1>1 DEF DelegatedType
  <1>7. \A u \in RefreshIDs :
          \/ offline /\ u = t /\ refresh'[u] = first /\ refresh[u] = Absent
          \/ refresh'[u] = refresh[u] /\ ~(offline /\ u = t)
    BY <1>1 DEF DelegatedType
  <1>8. /\ codes'[g].st = "used" /\ codes'[g] # Absent
        /\ \A h \in GrantIDs \ {g} : codes'[h] = codes[h]
    BY <1>1, <1>2 DEF DelegatedType, Code, Absent
  <1>9. /\ \A b \in AccessIDs : access[b] # Absent => access[b].grant # g
        /\ \A u \in RefreshIDs : refresh[u] # Absent => refresh[u].grant # g
    BY <1>1 DEF Integrity
  <1>10. DelegatedStays
    BY <1>1, <1>6, <1>7 DEF DelegatedStays, GrantsStay, AccessStays,
                            RefreshStays
  <1>11. Integrity'
    <2>1. \A h \in GrantIDs : grants'[h] = Absent <=> codes'[h] = Absent
      BY <1>1, <1>8 DEF Integrity
    <2>2. \A b \in AccessIDs :
            access'[b] # Absent => /\ grants'[access'[b].grant] # Absent
                                   /\ codes'[access'[b].grant].st = "used"
      BY <1>1, <1>3, <1>6, <1>8, References DEF Integrity
    <2>3. \A u \in RefreshIDs :
            refresh'[u] # Absent =>
              /\ grants'[refresh'[u].grant] # Absent
              /\ codes'[refresh'[u].grant].st = "used"
      BY <1>1, <1>4, <1>7, <1>8, References DEF Integrity
    <2>4. \A u \in RefreshIDs :
            refresh'[u] # Absent =>
              /\ refresh'[refresh'[u].family] # Absent
              /\ refresh'[refresh'[u].family].grant = refresh'[u].grant
              /\ refresh'[u].next # None => refresh'[refresh'[u].next] # Absent
      BY <1>1, <1>4, <1>7, References DEF Integrity
    <2> QED  BY <2>1, <2>2, <2>3, <2>4 DEF Integrity
  <1>12. OneLiveRefresh'
    BY <1>4, <1>7, <1>9 DEF OneLiveRefresh, TokensSound
  <1>13. FamiliesDieWhole'
    BY <1>1, <1>3, <1>4, <1>6, <1>7, <1>9
       DEF FamiliesDieWhole, TokensSound, Refreshes, Accesses, Absent
  <1>14. ScopesOnlyNarrow'
    BY <1>1, <1>3, <1>4, <1>6, <1>7, References
       DEF ScopesOnlyNarrow, TokensSound, Integrity
  <1> QED  BY <1>5, <1>10, <1>11, <1>12, <1>13, <1>14 DEF TokensSound

LEMMA RotatesToken ==
    ASSUME Delegation, NEW t \in RefreshIDs, NEW a \in AccessIDs,
           NEW n \in RefreshIDs, NEW scopes \in SUBSET refresh[t].scopes,
           NEW secret \in Nat,
           StoreRotateOAuthRefreshToken(t, a, n, scopes, secret)
    PROVE  Delegation' /\ DelegatedStays
  <1> USE DEF Delegation
  <1> DEFINE g == refresh[t].grant
             new == Minted(g, scopes, secret)
             last == [st |-> "open", grant |-> g, family |-> refresh[t].family,
                      scopes |-> scopes, next |-> None]
  <1>1. /\ refresh[t].st = "open" /\ access[a] = Absent /\ refresh[n] = Absent
        /\ access' = [access EXCEPT ![a] = new]
        /\ refresh' = [refresh EXCEPT ![t].st = "used", ![t].next = n,
                                      ![n] = last]
        /\ grants' = grants /\ codes' = codes
    BY DEF StoreRotateOAuthRefreshToken, Rotatable
  <1>2. /\ refresh[t] # Absent /\ refresh[t] \in Refresh /\ t # n
        /\ g \in GrantIDs /\ refresh[t].family \in RefreshIDs
        /\ scopes \in SUBSET Scopes
    <2>1. refresh[t] # Absent /\ refresh[t] \in Refresh
      BY <1>1, Rows DEF Absent
    <2> QED  BY <1>1, <2>1 DEF Refresh
  <1>3. /\ new \in Access /\ new # Absent /\ new.grant = g
        /\ new.scopes = scopes
    BY <1>2 DEF Minted, Access, Absent
  <1>4. /\ last \in Refresh /\ last # Absent /\ last.grant = g
        /\ last.scopes = scopes /\ last.st = "open"
        /\ last.family = refresh[t].family /\ last.next = None
    BY <1>2 DEF Refresh, Absent
  <1>5. /\ refresh'[n] = last
        /\ refresh'[t] = [refresh[t] EXCEPT !.st = "used", !.next = n]
        /\ \A u \in RefreshIDs \ {t, n} : refresh'[u] = refresh[u]
    BY <1>1, <1>2 DEF DelegatedType
  <1>6. /\ refresh'[t] \in Refresh /\ refresh'[t] # Absent
        /\ refresh'[t].st = "used" /\ refresh'[t].next = n
        /\ refresh'[t].grant = g /\ refresh'[t].family = refresh[t].family
        /\ refresh'[t].scopes = refresh[t].scopes
    BY Zenon, <1>2, <1>5 DEF Refresh, Absent
  <1>7. /\ access'[a] = new
        /\ \A b \in AccessIDs \ {a} : access'[b] = access[b]
    BY <1>1 DEF DelegatedType
  <1> HIDE DEF new, last
  <1>0. \A u \in RefreshIDs :
          \/ u = t \/ (u = n /\ refresh'[u] = last)
          \/ u # t /\ u # n /\ refresh'[u] = refresh[u]
    <2>1. refresh'[n] = last
      BY <1>5
    <2>2. \A u \in RefreshIDs \ {t, n} : refresh'[u] = refresh[u]
      BY <1>5
    <2> QED  BY <2>1, <2>2
  <1>8. DelegatedType'
    <2>1. access' \in [AccessIDs -> Access \cup {Absent}]
      BY <1>1, <1>3 DEF DelegatedType
    <2>2. refresh' \in [RefreshIDs -> Refresh \cup {Absent}]
      <3>1. \A u \in RefreshIDs : refresh'[u] \in Refresh \cup {Absent}
        BY <1>4, <1>5, <1>6 DEF DelegatedType
      <3>2. refresh' = [u \in RefreshIDs |-> refresh'[u]]
        BY Zenon, <1>1 DEF DelegatedType
      <3> QED  BY <3>1, <3>2
    <2> QED  BY <2>1, <2>2, <1>1 DEF DelegatedType
  <1>9. DelegatedStays
    BY Zenon, <1>1, <1>5, <1>6, <1>7 DEF DelegatedStays, GrantsStay,
       AccessStays,
                                  RefreshStays
  <1>10. /\ grants[g] # Absent /\ codes[g].st = "used"
         /\ refresh[refresh[t].family] # Absent
         /\ refresh[refresh[t].family].grant = g
    BY <1>2 DEF Integrity
  <1>11. \A u \in RefreshIDs :
           refresh[u] # Absent => /\ refresh'[u] # Absent
                                  /\ refresh'[u].grant = refresh[u].grant
                                  /\ refresh'[u].family = refresh[u].family
                                  /\ refresh'[u].scopes = refresh[u].scopes
    BY Zenon, <1>1, <1>0, <1>6
  <1>12. Integrity'
    <2>1. \A b \in AccessIDs :
            access'[b] # Absent => /\ grants'[access'[b].grant] # Absent
                                   /\ codes'[access'[b].grant].st = "used"
      BY <1>1, <1>3, <1>7, <1>10 DEF Integrity
    <2>2. \A u \in RefreshIDs :
            refresh'[u] # Absent =>
              /\ grants'[refresh'[u].grant] # Absent
              /\ codes'[refresh'[u].grant].st = "used"
      <3>1. ASSUME NEW u \in RefreshIDs, refresh'[u] # Absent
            PROVE  \/ refresh'[u].grant = g
                   \/ refresh[u] # Absent /\ refresh'[u] = refresh[u]
        BY <3>1, <1>0, <1>4, <1>6
      <3> QED  BY ZenonT(40), <1>1, <3>1, <1>10 DEF Integrity
    <2>3. \A u \in RefreshIDs :
            refresh'[u] # Absent =>
              /\ refresh'[refresh'[u].family] # Absent
              /\ refresh'[refresh'[u].family].grant = refresh'[u].grant
      BY <1>2, <1>4, <1>0, <1>6, <1>10, <1>11, References DEF Integrity
    <2>4. \A u \in RefreshIDs :
            refresh'[u] # Absent /\ refresh'[u].next # None =>
              refresh'[refresh'[u].next] # Absent
      BY <1>4, <1>0, <1>6, <1>11, References DEF Integrity
    <2> QED  BY Zenon, <1>1, <2>1, <2>2, <2>3, <2>4 DEF Integrity
  <1>13. OneLiveRefresh'
    <2>1. \A u \in RefreshIDs :
            refresh[u] # Absent /\ refresh[u].grant = g =>
              /\ refresh[u].family = refresh[t].family
              /\ refresh[u].st \in {"open", "lapsed"} => u = t
      BY <1>1, <1>2 DEF OneLiveRefresh, TokensSound
    <2> QED  BY <1>4, <1>0, <1>6, <2>1 DEF OneLiveRefresh, TokensSound
  <1>14. FamiliesDieWhole'
    <2> SUFFICES ASSUME NEW u \in RefreshIDs, refresh'[u].st = "revoked",
                        ~(grants'[refresh'[u].grant].st = "revoked")
                 PROVE  /\ \A v \in Refreshes(refresh[u].grant)' :
                             refresh'[v].st = "revoked"
                        /\ \A b \in Accesses(refresh[u].grant)' :
                             access'[b].st = "revoked"
      BY DEF FamiliesDieWhole
    <2>1. u # t /\ u # n /\ refresh'[u] = refresh[u] /\ refresh[u] # Absent
      <3>1. u # t
        BY <1>6
      <3>2. u # n
        BY <1>0, <1>2, <1>4
      <3>3. refresh'[u] = refresh[u]
        BY <1>0, <3>1, <3>2
      <3> QED  BY <3>1, <3>2, <3>3 DEF Absent
    <2>2. /\ \A v \in Refreshes(refresh[u].grant) : refresh[v].st = "revoked"
          /\ \A b \in Accesses(refresh[u].grant) : access[b].st = "revoked"
      BY <2>1, <1>1 DEF FamiliesDieWhole, TokensSound
    <2>3. refresh[u].grant # g
      BY <1>1, <1>2, <2>2 DEF Refreshes
    <2> QED
      BY <1>3, <1>4, <1>0, <1>6, <1>7, <2>1, <2>2, <2>3
         DEF Refreshes, Accesses
  <1>15. ScopesOnlyNarrow'
    <2>1. scopes \subseteq grants[g].scopes
      BY <1>2 DEF ScopesOnlyNarrow, TokensSound
    <2>2. \A u \in RefreshIDs :
            refresh'[u] # Absent =>
              refresh'[u].scopes \subseteq grants[refresh'[u].grant].scopes
      BY <1>4, <1>0, <1>6, <2>1, <1>2 DEF ScopesOnlyNarrow, TokensSound
    <2>3. \A u \in RefreshIDs :
            refresh'[u] # Absent /\ refresh'[u].next # None =>
              refresh'[refresh'[u].next].scopes \subseteq refresh'[u].scopes
      <3> SUFFICES ASSUME NEW u \in RefreshIDs, refresh'[u] # Absent,
                          refresh'[u].next # None
                   PROVE  refresh'[refresh'[u].next].scopes
                          \subseteq refresh'[u].scopes
        OBVIOUS
      <3>1. CASE u = t
        BY <3>1, <1>2, <1>4, <1>0, <1>6
      <3>2. CASE u = n
        BY <3>2, <1>2, <1>4, <1>0
      <3>3. CASE u \notin {t, n}
        BY <3>3, <1>0, <1>11, References
           DEF Integrity, ScopesOnlyNarrow, TokensSound
      <3> QED  BY <3>1, <3>2, <3>3
    <2>4. \A b \in AccessIDs :
            access'[b] # Absent =>
              access'[b].scopes \subseteq grants[access'[b].grant].scopes
      BY <1>3, <1>7, <2>1 DEF ScopesOnlyNarrow, TokensSound
    <2> QED  BY Zenon, <1>1, <2>2, <2>3, <2>4 DEF ScopesOnlyNarrow
  <1> QED  BY <1>8, <1>9, <1>12, <1>13, <1>14, <1>15 DEF TokensSound

LEMMA RevokesAccess ==
    ASSUME Delegation, NEW a \in AccessIDs,
           StoreRevokeOAuthAccessToken(a)
    PROVE  Delegation' /\ DelegatedStays
  <1> USE DEF Delegation
  <1>1. /\ access[a] # Absent /\ access[a] \in Access
        /\ access' = [access EXCEPT ![a].st = "revoked"]
        /\ grants' = grants /\ codes' = codes /\ refresh' = refresh
    BY Rows DEF StoreRevokeOAuthAccessToken
  <1>2. DelegatedType'
    BY <1>1, RevokedRows DEF DelegatedType
  <1>3. \A b \in AccessIDs :
          \/ access'[b] = access[b]
          \/ /\ access[b] # Absent /\ access'[b] # Absent
             /\ access'[b].st = "revoked"
             /\ access'[b].grant = access[b].grant
             /\ access'[b].scopes = access[b].scopes
             /\ access'[b].secret = access[b].secret
    BY <1>1 DEF DelegatedType, Access, Absent
  <1>4. DelegatedStays
    BY <1>1, <1>3 DEF DelegatedStays, GrantsStay, AccessStays, RefreshStays
  <1>5. Integrity'
    BY <1>1, <1>3 DEF Integrity
  <1>6. TokensSound'
    <2>1. OneLiveRefresh'
      BY <1>1 DEF OneLiveRefresh, TokensSound
    <2>2. FamiliesDieWhole'
      BY <1>1, <1>3 DEF FamiliesDieWhole, TokensSound, Refreshes, Accesses
    <2>3. ScopesOnlyNarrow'
      BY <1>1, <1>3 DEF ScopesOnlyNarrow, TokensSound
    <2> QED  BY <2>1, <2>2, <2>3 DEF TokensSound
  <1> QED  BY <1>2, <1>4, <1>5, <1>6

\* All tokens of a family are tokens of one grant, whose other refresh
\* tokens are in the family too.
LEMMA RevokesFamily ==
    ASSUME Delegation, NEW f \in RefreshIDs,
           StoreRevokeOAuthRefreshFamily(f)
    PROVE  Delegation' /\ DelegatedStays
  <1> USE DEF Delegation
  <1>1. /\ grants' = grants /\ codes' = codes
        /\ refresh' = [t \in RefreshIDs |->
                         IF t \in Members(f)
                         THEN [refresh[t] EXCEPT !.st = "revoked"]
                         ELSE refresh[t]]
        /\ access' = [a \in AccessIDs |->
                        IF access[a] # Absent /\ access[a].grant \in Roots(f)
                        THEN [access[a] EXCEPT !.st = "revoked"]
                        ELSE access[a]]
    BY DEF StoreRevokeOAuthRefreshFamily
  <1>2. DelegatedType'
    <2>1. access' \in [AccessIDs -> Access \cup {Absent}]
      BY <1>1, Rows, RevokedRows DEF DelegatedType
    <2>2. refresh' \in [RefreshIDs -> Refresh \cup {Absent}]
      BY <1>1, Rows, RevokedRows DEF DelegatedType, Members
    <2> QED  BY <2>1, <2>2, <1>1 DEF DelegatedType
  <1>3. \A t \in RefreshIDs :
          \/ refresh'[t] = refresh[t] /\ t \notin Members(f)
          \/ /\ t \in Members(f)
             /\ refresh[t] # Absent /\ refresh'[t] # Absent
             /\ refresh'[t].st = "revoked"
             /\ refresh'[t].grant = refresh[t].grant
             /\ refresh'[t].family = refresh[t].family
             /\ refresh'[t].scopes = refresh[t].scopes
             /\ refresh'[t].next = refresh[t].next
    BY <1>1, Rows DEF Members, Refresh, Absent
  <1>4. \A a \in AccessIDs :
          \/ /\ access'[a] = access[a]
             /\ access[a] # Absent => access[a].grant \notin Roots(f)
          \/ /\ access[a] # Absent /\ access'[a] # Absent
             /\ access'[a].st = "revoked"
             /\ access'[a].grant = access[a].grant
             /\ access'[a].scopes = access[a].scopes
             /\ access'[a].secret = access[a].secret
    BY <1>1, Rows DEF Access, Absent
  <1>5. DelegatedStays
    BY <1>1, <1>3, <1>4 DEF DelegatedStays, GrantsStay, AccessStays,
                            RefreshStays
  <1>6. \A t \in RefreshIDs :
          /\ refresh[t] = Absent <=> refresh'[t] = Absent
          /\ refresh[t] # Absent =>
               /\ refresh'[t].grant = refresh[t].grant
               /\ refresh'[t].family = refresh[t].family
               /\ refresh'[t].scopes = refresh[t].scopes
               /\ refresh'[t].next = refresh[t].next
    BY <1>3
  <1>7. Integrity'
    BY <1>1, <1>4, <1>6, References DEF Integrity
  <1>8. OneLiveRefresh'
    BY <1>3 DEF OneLiveRefresh, TokensSound
  <1>9. FamiliesDieWhole'
    <2> SUFFICES ASSUME NEW t \in RefreshIDs, refresh'[t].st = "revoked",
                        ~(grants'[refresh'[t].grant].st = "revoked")
                 PROVE  /\ \A u \in Refreshes(refresh[t].grant)' :
                             refresh'[u].st = "revoked"
                        /\ \A a \in Accesses(refresh[t].grant)' :
                             access'[a].st = "revoked"
      BY DEF FamiliesDieWhole
    <2>1. refresh[t] # Absent /\ refresh'[t] # Absent
          /\ refresh'[t].grant = refresh[t].grant
      BY <1>3 DEF Absent
    <2>2. CASE t \in Members(f)
      <3>1. refresh[t].grant \in Roots(f) /\ refresh[t].family = f
        BY <2>2 DEF Roots, Members
      <3>2. \A u \in RefreshIDs :
              refresh[u] # Absent /\ refresh[u].grant = refresh[t].grant =>
                u \in Members(f)
        BY <2>1, <3>1 DEF OneLiveRefresh, TokensSound, Members
      <3> QED
        BY <1>3, <1>4, <1>6, <2>1, <3>1, <3>2 DEF Refreshes, Accesses
    <2>3. CASE t \notin Members(f)
      <3>1. /\ \A u \in Refreshes(refresh[t].grant) :
                 refresh[u].st = "revoked"
            /\ \A a \in Accesses(refresh[t].grant) : access[a].st = "revoked"
        BY <1>1, <1>3, <2>3 DEF FamiliesDieWhole, TokensSound
      <3> QED
        BY <1>3, <1>4, <2>1, <3>1 DEF Refreshes, Accesses
    <2> QED  BY <2>2, <2>3
  <1>10. ScopesOnlyNarrow'
    BY <1>1, <1>4, <1>6, References DEF ScopesOnlyNarrow, TokensSound,
       Integrity
  <1> QED  BY <1>2, <1>5, <1>7, <1>8, <1>9, <1>10 DEF TokensSound

\* Deadlines of codes and tokens.
LEMMA TokensLapse ==
    ASSUME Delegation,
           \/ \E g \in GrantIDs : CodeLapses(g)
           \/ \E a \in AccessIDs : AccessLapses(a)
           \/ \E t \in RefreshIDs : RefreshLapses(t)
    PROVE  Delegation' /\ DelegatedStays
  <1> USE DEF Delegation
  <1>1. ASSUME NEW g \in GrantIDs, CodeLapses(g)
        PROVE  Delegation' /\ DelegatedStays
    <2>1. /\ codes[g].st = "open"
          /\ codes' = [codes EXCEPT ![g].st = "lapsed"]
          /\ grants' = grants /\ access' = access /\ refresh' = refresh
      BY <1>1 DEF CodeLapses
    <2>2. codes[g] # Absent /\ codes[g] \in Code
      BY <2>1, Rows DEF Absent
    <2>3. DelegatedType'
      BY <2>1, <2>2 DEF DelegatedType, Code
    <2>4. /\ codes'[g] # Absent
          /\ \A h \in GrantIDs \ {g} : codes'[h] = codes[h]
      BY <2>1, <2>2 DEF DelegatedType, Code, Absent
    <2>5. /\ \A b \in AccessIDs : access[b] # Absent => access[b].grant # g
          /\ \A u \in RefreshIDs : refresh[u] # Absent => refresh[u].grant # g
      BY <2>1 DEF Integrity
    <2>6. Integrity'
      BY <2>1, <2>2, <2>4, <2>5, References DEF Integrity
    <2>7. TokensSound' /\ DelegatedStays
      BY <2>1 DEF TokensSound, OneLiveRefresh, FamiliesDieWhole, Refreshes,
         Accesses, ScopesOnlyNarrow, DelegatedStays, GrantsStay, AccessStays,
         RefreshStays
    <2> QED  BY <2>3, <2>6, <2>7
  <1>2. ASSUME NEW a \in AccessIDs, AccessLapses(a)
        PROVE  Delegation' /\ DelegatedStays
    <2>1. /\ access[a].st = "live"
          /\ access' = [access EXCEPT ![a].st = "lapsed"]
          /\ grants' = grants /\ codes' = codes /\ refresh' = refresh
      BY <1>2 DEF AccessLapses
    <2>2. access[a] # Absent /\ access[a] \in Access
      BY <2>1, Rows DEF Absent
    <2>3. DelegatedType'
      BY <2>1, <2>2 DEF DelegatedType, Access
    <2>4. \A b \in AccessIDs :
            \/ access'[b] = access[b]
            \/ /\ access[b] # Absent /\ access'[b] # Absent
               /\ access[b].st = "live" /\ access'[b].st = "lapsed"
               /\ access'[b].grant = access[b].grant
               /\ access'[b].scopes = access[b].scopes
               /\ access'[b].secret = access[b].secret
      BY <2>1, <2>2 DEF DelegatedType, Access, Absent
    <2>5. Integrity'
      BY <2>1, <2>4 DEF Integrity
    <2>6. OneLiveRefresh' /\ ScopesOnlyNarrow'
      BY <2>1, <2>4 DEF OneLiveRefresh, ScopesOnlyNarrow, TokensSound
    <2>7. FamiliesDieWhole'
      BY <2>1, <2>4 DEF FamiliesDieWhole, TokensSound, Refreshes, Accesses
    <2>8. DelegatedStays
      BY <2>1, <2>4 DEF DelegatedStays, GrantsStay, AccessStays, RefreshStays
    <2> QED  BY <2>3, <2>5, <2>6, <2>7, <2>8 DEF TokensSound
  <1>3. ASSUME NEW t \in RefreshIDs, RefreshLapses(t)
        PROVE  Delegation' /\ DelegatedStays
    <2>1. /\ refresh[t].st = "open"
          /\ refresh' = [refresh EXCEPT ![t].st = "lapsed"]
          /\ grants' = grants /\ codes' = codes /\ access' = access
      BY <1>3 DEF RefreshLapses
    <2>2. refresh[t] # Absent /\ refresh[t] \in Refresh
      BY <2>1, Rows DEF Absent
    <2>3. DelegatedType'
      BY <2>1, <2>2 DEF DelegatedType, Refresh
    <2>4. \A u \in RefreshIDs :
            \/ refresh'[u] = refresh[u]
            \/ /\ refresh[u] # Absent /\ refresh'[u] # Absent
               /\ refresh[u].st = "open" /\ refresh'[u].st = "lapsed"
               /\ refresh'[u].grant = refresh[u].grant
               /\ refresh'[u].family = refresh[u].family
               /\ refresh'[u].scopes = refresh[u].scopes
               /\ refresh'[u].next = refresh[u].next
      BY <2>1, <2>2 DEF DelegatedType, Refresh, Absent
    <2>5. Integrity'
      BY <2>1, <2>4, References DEF Integrity
    <2>6. OneLiveRefresh'
      BY <2>4 DEF OneLiveRefresh, TokensSound
    <2>7. FamiliesDieWhole'
      BY <2>1, <2>4 DEF FamiliesDieWhole, TokensSound, Refreshes, Accesses
    <2>8. ScopesOnlyNarrow'
      BY <2>1, <2>4, References DEF ScopesOnlyNarrow, TokensSound, Integrity
    <2>9. DelegatedStays
      BY <2>1, <2>4 DEF DelegatedStays, GrantsStay, AccessStays, RefreshStays
    <2> QED  BY <2>3, <2>5, <2>6, <2>7, <2>8, <2>9 DEF TokensSound
  <1> QED  BY <1>1, <1>2, <1>3

-----------------------------------------------------------------------------
(* The registry.                                                           *)

Tables == Delegation /\ RegistryType /\ ClientsSound

\* Clients stay, and so do their source and the allowlist of those an
\* administrator registered.
ClientsStay ==
    \A c \in ClientIDs :
      clients[c] # Absent =>
        /\ clients'[c] # Absent
        /\ clients'[c].source = clients[c].source
        /\ clients[c].source = "pre" =>
             clients'[c].meta.machine = clients[c].meta.machine

\* A client or resource is only disabled, and a secret only burnt, together
\* with the grants that rest on it.
Kept(c, x) ==
    /\ ClientUp(c) => /\ ClientUp(c)'
                      /\ clients'[c].burnt <= clients[c].burnt
    /\ ResourceUp(x) => ResourceUp(x)'
GrantsCovered ==
    \A g \in GrantIDs, c \in ClientIDs, x \in Resources :
      /\ grants[g] # Absent
      /\ grants[g].client = c /\ grants[g].resource = x
      => grants'[g].st = "revoked" \/ Kept(c, x)

Footing == DelegatedStays /\ ClientsStay /\ GrantsCovered

LEMMA Registered ==
    ASSUME RegistryType
    PROVE  /\ \A c \in ClientIDs : clients[c] # Absent => clients[c] \in Client
           /\ \A x \in Resources :
                resources[x] # Absent => resources[x] \in Resource
           /\ \A i \in InitialIDs :
                initials[i] # Absent => initials[i] \in Initial
           /\ \A m \in MachineIDs :
                machines[m] # Absent => machines[m] \in Machine
           /\ issuer # Absent => issuer \in Issuer
  BY DEF RegistryType

LEMMA SameDelegated ==
    ASSUME Delegation, UNCHANGED delegated
    PROVE  Delegation' /\ DelegatedStays
  <1>1. grants' = grants /\ codes' = codes /\ access' = access
        /\ refresh' = refresh
    BY DEF delegated
  <1>2. DelegatedStays
    BY <1>1 DEF DelegatedStays, GrantsStay, AccessStays, RefreshStays
  <1>3. DelegatedType' /\ Integrity'
    BY <1>1 DEF Delegation, DelegatedType, Integrity
  <1>4. TokensSound'
    BY <1>1 DEF Delegation, TokensSound, OneLiveRefresh, FamiliesDieWhole,
                ScopesOnlyNarrow, Refreshes, Accesses
  <1> QED  BY <1>2, <1>3, <1>4 DEF Delegation

LEMMA SameClients ==
    ASSUME ClientsSound, clients' = clients
    PROVE  ClientsSound' /\ ClientsStay
  BY DEF ClientsSound, ClientsStay

\* A step on the grants and tokens alone.
LEMMA DelegatedStep ==
    ASSUME Tables, UNCHANGED registry, Delegation', DelegatedStays
    PROVE  Tables' /\ Footing
  <1>1. /\ issuer' = issuer /\ resources' = resources /\ clients' = clients
        /\ initials' = initials /\ machines' = machines
    BY DEF registry
  <1>2. RegistryType'
    BY <1>1 DEF Tables, RegistryType
  <1>3. ClientsSound' /\ ClientsStay
    BY <1>1, SameClients DEF Tables
  <1>4. \A c \in ClientIDs, x \in Resources : Kept(c, x)
    <2>1. \A c \in ClientIDs : ClientUp(c) => clients[c].burnt \in Nat
      BY Registered DEF Tables, ClientUp, Client
    <2> QED  BY <1>1, <2>1 DEF Kept, ClientUp, ResourceUp
  <1> QED  BY <1>2, <1>3, <1>4 DEF Tables, Footing, GrantsCovered

\* A step on the registry that switches nothing off and burns no secret.
LEMMA RegistryStep ==
    ASSUME Tables, UNCHANGED delegated, RegistryType', ClientsSound',
           ClientsStay,
           \A c \in ClientIDs, x \in Resources : Kept(c, x)
    PROVE  Tables' /\ Footing
  <1>1. Delegation' /\ DelegatedStays
    BY SameDelegated DEF Tables
  <1> QED  BY <1>1 DEF Tables, Footing, GrantsCovered

LEMMA SameClient ==
    ASSUME Tables, NEW c \in ClientIDs, clients'[c] = clients[c]
    PROVE  ClientUp(c) => /\ ClientUp(c)'
                          /\ clients'[c].burnt <= clients[c].burnt
  <1>1. clients[c] # Absent => clients[c].burnt \in Nat
    BY Registered DEF Tables, Client
  <1> QED  BY <1>1 DEF ClientUp

\* Steps that leave clients and grants alone, and no resource disabled.
LEMMA PlainStep ==
    ASSUME Tables, clients' = clients, UNCHANGED delegated, RegistryType',
           \A x \in Resources : ResourceUp(x) => ResourceUp(x)'
    PROVE  Tables' /\ Footing
  <1>1. \A c \in ClientIDs, x \in Resources : Kept(c, x)
    BY SameClient DEF Kept
  <1>2. ClientsSound' /\ ClientsStay
    BY SameClients DEF Tables
  <1> QED  BY <1>1, <1>2, RegistryStep

LEMMA IssuerStep ==
    ASSUME Tables,
           \/ \E p \in Policies : StoreCreateOAuthIssuer(p)
           \/ \E row \in Issuer : StoreUpdateOAuthIssuer(row)
    PROVE  Tables' /\ Footing
  <1>1. /\ issuer' \in Issuer
        /\ UNCHANGED <<resources, clients, initials, machines, delegated>>
    BY DEF StoreCreateOAuthIssuer, StoreUpdateOAuthIssuer, Issuer, Switch
  <1>2. RegistryType'
    BY <1>1 DEF Tables, RegistryType
  <1> QED  BY <1>1, <1>2, PlainStep DEF ResourceUp

LEMMA ResourceStep ==
    ASSUME Tables, NEW x \in Resources, StoreCreateOAuthProtectedResource(x)
    PROVE  Tables' /\ Footing
  <1>1. /\ resources[x] = Absent
        /\ resources' = [resources EXCEPT ![x] = [st |-> "enabled"]]
        /\ UNCHANGED <<issuer, clients, initials, machines, delegated>>
    BY DEF StoreCreateOAuthProtectedResource
  <1>2. RegistryType'
    BY <1>1 DEF Tables, RegistryType, Resource, Switch
  <1>3. \A y \in Resources : ResourceUp(y) => ResourceUp(y)'
    BY <1>1 DEF ResourceUp, Tables, RegistryType
  <1> QED  BY <1>1, <1>2, <1>3, PlainStep

LEMMA InitialStep ==
    ASSUME Tables, NEW i \in InitialIDs,
           \/ \E max \in Nat : StoreCreateOAuthInitialAccessToken(i, max)
           \/ StoreRevokeOAuthInitialAccessToken(i)
           \/ InitialLapses(i)
    PROVE  Tables' /\ Footing
  <1>1. UNCHANGED <<issuer, resources, clients, machines, delegated>>
    BY DEF StoreCreateOAuthInitialAccessToken,
           StoreRevokeOAuthInitialAccessToken, InitialLapses
  <1>2. initials' \in [InitialIDs -> Initial \cup {Absent}]
    <2>1. CASE \E max \in Nat : StoreCreateOAuthInitialAccessToken(i, max)
      BY <2>1 DEF StoreCreateOAuthInitialAccessToken, Initial, Tables,
                  RegistryType
    <2>2. CASE StoreRevokeOAuthInitialAccessToken(i)
      BY <2>2, Registered DEF StoreRevokeOAuthInitialAccessToken, Initial,
                              Tables, RegistryType
    <2>3. CASE InitialLapses(i)
      <3>1. initials[i] # Absent
        BY <2>3 DEF InitialLapses, Absent
      <3> QED
        BY <2>3, <3>1, Registered DEF InitialLapses, Initial, Tables,
                                      RegistryType
    <2> QED  BY <2>1, <2>2, <2>3
  <1>3. RegistryType'
    BY <1>1, <1>2 DEF Tables, RegistryType
  <1> QED  BY <1>1, <1>3, PlainStep DEF ResourceUp

\* Clients and resources of the tokens there are do not change.
MachinesStay ==
    \A m \in MachineIDs :
      machines'[m] # Absent => /\ machines[m] # Absent
                               /\ machines'[m].client = machines[m].client
                               /\ machines'[m].resource = machines[m].resource

LEMMA MachineStep ==
    ASSUME Tables, NEW m \in MachineIDs,
           \/ \E c \in ClientIDs, x \in Resources :
                StoreCreateOAuthClientAccessToken(m, c, x)
           \/ StoreRevokeOAuthClientAccessToken(m)
           \/ MachineLapses(m)
    PROVE  Tables' /\ Footing
  <1>1. UNCHANGED <<issuer, resources, clients, initials, delegated>>
    BY DEF StoreCreateOAuthClientAccessToken,
           StoreRevokeOAuthClientAccessToken, MachineLapses
  <1>2. machines' \in [MachineIDs -> Machine \cup {Absent}]
    <2>1. CASE \E c \in ClientIDs, x \in Resources :
                 StoreCreateOAuthClientAccessToken(m, c, x)
      BY <2>1 DEF StoreCreateOAuthClientAccessToken, Machine, Tables,
                  RegistryType
    <2>2. CASE StoreRevokeOAuthClientAccessToken(m)
      BY <2>2, Registered DEF StoreRevokeOAuthClientAccessToken, Machine,
                              Tables, RegistryType
    <2>3. CASE MachineLapses(m)
      <3>1. machines[m] # Absent
        BY <2>3 DEF MachineLapses, Absent
      <3> QED
        BY <2>3, <3>1, Registered DEF MachineLapses, Machine, Tables,
                                      RegistryType
    <2> QED  BY <2>1, <2>2, <2>3
  <1>3. RegistryType'
    BY <1>1, <1>2 DEF Tables, RegistryType
  <1> QED  BY <1>1, <1>3, PlainStep DEF ResourceUp

LEMMA MachineEnds ==
    ASSUME Tables, NEW m \in MachineIDs,
           \/ StoreRevokeOAuthClientAccessToken(m)
           \/ MachineLapses(m)
    PROVE  MachinesStay
  <1>1. machines[m] # Absent /\ machines[m] \in Machine
    BY Registered DEF StoreRevokeOAuthClientAccessToken, MachineLapses,
                      Tables, Absent
  <1> QED
    BY <1>1 DEF MachinesStay, StoreRevokeOAuthClientAccessToken,
                MachineLapses, Tables, RegistryType, Machine

\* One client record is written, enabled if the client was.
Rewrites(c, row) ==
    /\ row \in Client
    /\ row.source = "cimd" <=> c \in CIMDs
    /\ row.burnt <= row.secret
    /\ clients[c] # Absent =>
         /\ row.source = clients[c].source
         /\ row.source = "pre" => row.meta.machine = clients[c].meta.machine
         /\ clients[c].st = "enabled" =>
              row.st = "enabled" /\ row.burnt <= clients[c].burnt
    /\ clients' = [clients EXCEPT ![c] = row]

LEMMA ClientWritten ==
    ASSUME Tables, NEW c \in ClientIDs, NEW row, Rewrites(c, row),
           UNCHANGED delegated, RegistryType', resources' = resources
    PROVE  Tables' /\ Footing
  <1> USE DEF Rewrites
  <1>1. /\ clients'[c] = row /\ row # Absent
        /\ \A d \in ClientIDs \ {c} : clients'[d] = clients[d]
    BY DEF Tables, RegistryType, Client, Switch, Absent
  <1>2. ClientsSound'
    BY <1>1 DEF ClientsSound, Tables
  <1>3. ClientsStay
    BY <1>1 DEF ClientsStay
  <1>4. \A d \in ClientIDs, x \in Resources : Kept(d, x)
    <2>1. ASSUME NEW d \in ClientIDs \ {c}, NEW x \in Resources
          PROVE  Kept(d, x)
      BY <1>1, <2>1, SameClient DEF Kept, ResourceUp
    <2>2. ASSUME NEW x \in Resources
          PROVE  Kept(c, x)
      BY <1>1 DEF Kept, ResourceUp, ClientUp
    <2> QED  BY <2>1, <2>2
  <1> QED  BY <1>2, <1>3, <1>4, RegistryStep

LEMMA CreatesClient ==
    ASSUME Tables, NEW c \in ClientIDs \ CIMDs, NEW source \in {"pre", "dcr"},
           NEW meta \in Metadata, NEW via \in InitialIDs \cup {None},
           StoreCreateOAuthClient(c, source, meta, via)
    PROVE  Tables' /\ Footing
  <1> DEFINE row == NewClient(source, meta, via)
  <1>1. /\ clients[c] = Absent
        /\ clients' = [clients EXCEPT ![c] = row]
        /\ initials' = IF via = None THEN initials
                       ELSE [initials EXCEPT ![via].count = @ + 1]
        /\ via # None => initials[via].st = "open"
        /\ UNCHANGED <<issuer, resources, machines, delegated>>
    BY DEF StoreCreateOAuthClient, WithinQuota, Usable
  <1>2. /\ row \in Client /\ row.source = source
        /\ row.burnt = 0 /\ row.secret = 0
    BY DEF NewClient, Client, Switch
  <1>3. clients' \in [ClientIDs -> Client \cup {Absent}]
    BY <1>1, <1>2 DEF Tables, RegistryType
  <1>4. initials' \in [InitialIDs -> Initial \cup {Absent}]
    <2>1. CASE via = None
      BY <1>1, <2>1 DEF Tables, RegistryType
    <2>2. CASE via # None
      <3>1. via \in InitialIDs /\ initials[via] # Absent
        BY <1>1, <2>2 DEF Absent
      <3>2. initials[via] \in Initial
        BY <3>1, Registered DEF Tables
      <3>3. [initials[via] EXCEPT !.count = initials[via].count + 1] \in Initial
        BY <3>2 DEF Initial
      <3> QED  BY <1>1, <2>2, <3>1, <3>3 DEF Tables, RegistryType
    <2> QED  BY <2>1, <2>2
  <1>5. RegistryType'
    BY <1>1, <1>3, <1>4 DEF Tables, RegistryType
  <1> HIDE DEF row
  <1>6. Rewrites(c, row)
    BY <1>1, <1>2 DEF Rewrites
  <1> QED  BY <1>1, <1>5, <1>6, ClientWritten

\* Metadata documents belong to clients whose identifier is a URL.
LEMMA UpsertsClient ==
    ASSUME Tables, NEW c \in CIMDs, NEW meta \in Metadata, NEW found,
           StoreUpsertOAuthCIMDClient(c, meta, found)
    PROVE  Tables' /\ Footing /\ ClientUp(c)' /\ clients'[c].burnt = 0
           /\ clients'[c].source = "cimd"
  <1> DEFINE row == NewClient("cimd", meta, None)
  <1>0. c \in ClientIDs
    BY CIMDAssumption
  <1>1. /\ clients' = [clients EXCEPT ![c] = row]
        /\ UNCHANGED <<issuer, resources, initials, machines, delegated>>
    BY DEF StoreUpsertOAuthCIMDClient
  <1>2. /\ row \in Client /\ row.source = "cimd" /\ row.st = "enabled"
        /\ row.burnt = 0 /\ row.secret = 0 /\ row # Absent
    BY DEF NewClient, Client, Switch, Absent
  <1>3. RegistryType'
    BY <1>0, <1>1, <1>2 DEF Tables, RegistryType
  <1>4. clients[c] # Absent => /\ clients[c].source = "cimd"
                               /\ clients[c].burnt \in Nat
    BY <1>0, Registered DEF Tables, ClientsSound, Client
  <1>5. clients'[c] = row
    BY <1>0, <1>1 DEF Tables, RegistryType
  <1> HIDE DEF row
  <1>6. Rewrites(c, row)
    BY <1>0, <1>1, <1>2, <1>4 DEF Rewrites
  <1>7. Tables' /\ Footing
    BY <1>0, <1>1, <1>3, <1>6, ClientWritten
  <1> QED  BY <1>2, <1>5, <1>7 DEF ClientUp

LEMMA RotatesSecret ==
    ASSUME Tables, NEW c \in ClientIDs, StoreRotateSecret(c)
    PROVE  Tables' /\ Footing
  <1> DEFINE s == clients[c].secret + 1
             b == IF clients[c].st = "disabled" THEN s ELSE clients[c].burnt
             row == [clients[c] EXCEPT !.secret = s, !.burnt = b]
  <1>1. /\ clients[c] # Absent
        /\ clients' = [clients EXCEPT
                         ![c].secret = @ + 1,
                         ![c].burnt = IF clients[c].st = "disabled"
                                      THEN clients[c].secret + 1 ELSE @]
        /\ UNCHANGED <<issuer, resources, initials, machines, delegated>>
    BY DEF StoreRotateSecret
  <1>2. clients[c] \in Client
    BY <1>1, Registered DEF Tables
  <1>3. clients' = [clients EXCEPT ![c] = row]
    BY Zenon, <1>1, <1>2 DEF Tables, RegistryType, Client
  <1>4. /\ row \in Client /\ row.source = clients[c].source
        /\ row.meta = clients[c].meta /\ row.st = clients[c].st
        /\ row.secret = s /\ row.burnt = b
    <2>1. s \in Nat /\ b \in Nat
      BY <1>2 DEF Client
    <2> HIDE DEF s, b
    <2> QED  BY Zenon, <1>2, <2>1 DEF Client
  <1>5. /\ clients[c].secret \in Nat /\ clients[c].burnt \in Nat
        /\ clients[c].burnt <= clients[c].secret
        /\ clients[c].source = "cimd" <=> c \in CIMDs
    BY <1>1, <1>2 DEF Client, Tables, ClientsSound
  <1> HIDE DEF row
  <1>6. RegistryType'
    BY Zenon, <1>1, <1>3, <1>4 DEF Tables, RegistryType
  <1>7. /\ row.burnt <= row.secret
        /\ clients[c].st = "enabled" => row.burnt <= clients[c].burnt
    BY <1>4, <1>5
  <1>8. Rewrites(c, row)
    BY <1>3, <1>4, <1>5, <1>6, <1>7 DEF Rewrites
  <1> QED  BY <1>1, <1>8, <1>6, ClientWritten

LEMMA ReplacesKeys ==
    ASSUME Tables, NEW c \in ClientIDs, NEW meta \in Metadata,
           clients[c] # Absent,
           meta = [clients[c].meta EXCEPT !.key = meta.key],
           StoreReplaceJWKS(c, meta)
    PROVE  Tables' /\ Footing
  <1> DEFINE row == [clients[c] EXCEPT !.meta = meta]
  <1>1. /\ clients' = [clients EXCEPT ![c].meta = meta]
        /\ UNCHANGED <<issuer, resources, initials, machines, delegated>>
    BY DEF StoreReplaceJWKS
  <1>2. clients[c] \in Client
    BY Registered DEF Tables
  <1>3. clients' = [clients EXCEPT ![c] = row]
    BY <1>1, <1>2 DEF Tables, RegistryType, Client
  <1>4. /\ row \in Client /\ row.source = clients[c].source
        /\ row.meta = meta /\ row.st = clients[c].st
        /\ row.secret = clients[c].secret /\ row.burnt = clients[c].burnt
    BY <1>2 DEF Client
  <1>5. meta.machine = clients[c].meta.machine
    <2>1. clients[c].meta \in Metadata
      BY <1>2 DEF Client
    <2> QED  BY <2>1, MetadataAssumption DEF Registrable
  <1>6. /\ clients[c].burnt \in Nat
        /\ clients[c].burnt <= clients[c].secret
        /\ clients[c].source = "cimd" <=> c \in CIMDs
    BY <1>2 DEF Client, Tables, ClientsSound
  <1> HIDE DEF row
  <1>7. RegistryType'
    BY <1>1, <1>3, <1>4 DEF Tables, RegistryType
  <1>8. Rewrites(c, row)
    BY <1>3, <1>4, <1>5, <1>6, <1>7 DEF Rewrites
  <1> QED  BY <1>1, <1>8, <1>7, ClientWritten

LEMMA MetadataStale ==
    ASSUME Tables, NEW c \in ClientIDs, MetadataLapses(c)
    PROVE  Tables' /\ Footing
  <1> DEFINE row == [clients[c] EXCEPT !.stale = TRUE]
  <1>1. /\ clients[c] # Absent
        /\ clients' = [clients EXCEPT ![c].stale = TRUE]
        /\ UNCHANGED <<issuer, resources, initials, machines, delegated>>
    BY DEF MetadataLapses
  <1>2. clients[c] \in Client
    BY <1>1, Registered DEF Tables
  <1>3. clients' = [clients EXCEPT ![c] = row]
    BY <1>1, <1>2 DEF Tables, RegistryType, Client
  <1>4. /\ row \in Client /\ row.source = clients[c].source
        /\ row.meta = clients[c].meta /\ row.st = clients[c].st
        /\ row.secret = clients[c].secret /\ row.burnt = clients[c].burnt
    BY Zenon, <1>2 DEF Client
  <1>6. /\ clients[c].burnt \in Nat
        /\ clients[c].burnt <= clients[c].secret
        /\ clients[c].source = "cimd" <=> c \in CIMDs
    BY <1>1, <1>2 DEF Client, Tables, ClientsSound
  <1> HIDE DEF row
  <1>7. RegistryType'
    BY Zenon, <1>1, <1>3, <1>4 DEF Tables, RegistryType
  <1>8. Rewrites(c, row)
    BY <1>3, <1>4, <1>6 DEF Rewrites
  <1> QED  BY <1>1, <1>7, <1>8, ClientWritten

\* Steps that end the grants resting on what they disable.
LEMMA Disables ==
    ASSUME Tables, NEW dead \in SUBSET Granted, revokeOAuthGrants(dead),
           RegistryType', ClientsSound', ClientsStay,
           \A g \in Granted \ dead, c \in ClientIDs, x \in Resources :
             grants[g].client = c /\ grants[g].resource = x => Kept(c, x)
    PROVE  Tables' /\ Footing
  <1>1. /\ Delegation' /\ DelegatedStays
        /\ \A g \in dead : grants'[g].st = "revoked"
    BY RevokesGrants DEF Tables
  <1> QED  BY <1>1 DEF Tables, Footing, GrantsCovered, Granted

LEMMA DisablesIssuer ==
    ASSUME Tables, NEW disabled \in BOOLEAN,
           StoreSetOAuthIssuerDisabled(disabled)
    PROVE  Tables' /\ Footing
  <1>1. /\ issuer # Absent
        /\ issuer' = [issuer EXCEPT
                        !.st = IF disabled THEN "disabled" ELSE "enabled"]
        /\ resources' = resources /\ clients' = clients
        /\ initials' = initials /\ machines' = machines
    BY DEF StoreSetOAuthIssuerDisabled
  <1>2. RegistryType'
    BY <1>1, Registered DEF Tables, RegistryType, Issuer, Switch
  <1>3. PICK dead \in SUBSET Granted : revokeOAuthGrants(dead)
    BY DEF StoreSetOAuthIssuerDisabled
  <1>4. \A c \in ClientIDs, x \in Resources : Kept(c, x)
    BY <1>1, SameClient DEF Kept, ResourceUp
  <1>6. ClientsSound' /\ ClientsStay
    BY <1>1, SameClients DEF Tables
  <1> QED  BY <1>2, <1>3, <1>4, <1>6, Disables

LEMMA DisablesResource ==
    ASSUME Tables, NEW x \in Resources, NEW disabled \in BOOLEAN,
           StoreSetOAuthProtectedResourceDisabled(x, disabled)
    PROVE  Tables' /\ Footing
  <1> DEFINE dead == {g \in Granted : disabled /\ grants[g].resource = x}
  <1>1. /\ resources[x] # Absent
        /\ resources' = [resources EXCEPT
                           ![x].st = IF disabled THEN "disabled" ELSE "enabled"]
        /\ revokeOAuthGrants(dead)
        /\ issuer' = issuer /\ clients' = clients
        /\ initials' = initials /\ machines' = machines
    BY DEF StoreSetOAuthProtectedResourceDisabled
  <1>2. resources[x] \in Resource
    BY <1>1, Registered DEF Tables
  <1>3. RegistryType'
    BY <1>1, <1>2 DEF Tables, RegistryType, Resource, Switch
  <1>4. \A y \in Resources :
          (disabled => y # x) => (ResourceUp(y) => ResourceUp(y)')
    BY <1>1, <1>2 DEF Tables, RegistryType, Resource, ResourceUp, Absent
  <1>5. \A c \in ClientIDs, y \in Resources :
          (disabled => y # x) => Kept(c, y)
    BY <1>1, <1>4, SameClient DEF Kept
  <1>7. ClientsSound' /\ ClientsStay
    BY <1>1, SameClients DEF Tables
  <1> QED  BY <1>1, <1>3, <1>5, <1>7, Disables

LEMMA DisablesClient ==
    ASSUME Tables, NEW c \in ClientIDs, NEW disabled \in BOOLEAN,
           StoreSetOAuthClientDisabled(c, disabled)
    PROVE  Tables' /\ Footing
  <1> DEFINE dead == EndedWith(c, disabled)
             st == IF disabled THEN "disabled" ELSE "enabled"
             row == [clients[c] EXCEPT !.st = st]
  <1>1. /\ clients[c] # Absent
        /\ clients' = [clients EXCEPT ![c].st = st]
        /\ revokeOAuthGrants(dead)
        /\ issuer' = issuer /\ resources' = resources
        /\ initials' = initials /\ machines' = machines
    BY DEF StoreSetOAuthClientDisabled
  <1>2. clients[c] \in Client
    BY <1>1, Registered DEF Tables
  <1>3. /\ row \in Client /\ row # Absent /\ row.source = clients[c].source
        /\ row.meta = clients[c].meta /\ row.st = st
        /\ row.secret = clients[c].secret /\ row.burnt = clients[c].burnt
        /\ clients[c].burnt \in Nat
    BY <1>2 DEF Client, Switch, Absent
  <1>4. /\ clients'[c] = row
        /\ \A d \in ClientIDs \ {c} : clients'[d] = clients[d]
        /\ clients' \in [ClientIDs -> Client \cup {Absent}]
    BY <1>1, <1>2, <1>3 DEF Tables, RegistryType
  <1>5. RegistryType'
    BY <1>1, <1>4 DEF Tables, RegistryType
  <1>6. ClientsSound'
    BY <1>1, <1>3, <1>4 DEF ClientsSound, Tables
  <1>7. ClientsStay
    BY Zenon, <1>3, <1>4 DEF ClientsStay
  <1>8. \A d \in ClientIDs, x \in Resources :
          (disabled => d # c) => Kept(d, x)
    <2>1. ASSUME NEW d \in ClientIDs \ {c}, NEW x \in Resources
          PROVE  Kept(d, x)
      BY <1>1, <1>4, <2>1, SameClient DEF Kept, ResourceUp
    <2>2. ASSUME NEW x \in Resources, ~disabled
          PROVE  Kept(c, x)
      BY <1>1, <1>3, <1>4, <2>2 DEF Kept, ResourceUp, ClientUp
    <2> QED  BY <2>1, <2>2
  <1>10. /\ dead \in SUBSET Granted
         /\ \A g \in Granted \ dead : disabled => grants[g].client # c
    BY DEF EndedWith
  <1> HIDE DEF dead
  <1> QED  BY <1>1, <1>5, <1>6, <1>7, <1>8, <1>10, Disables

-----------------------------------------------------------------------------
(* The calls in flight and the inductive invariant.                        *)

Fit(k) == WellFormed(k) /\ Backed(k) /\ Doomed(k) /\ Listed(k)

\* What an access token rests on.
Rests(a) ==
    LET g == grants[access[a].grant] IN
    \/ g.st = "revoked"
    \/ /\ ClientUp(g.client) /\ ResourceUp(g.resource)
       /\ access[a].secret >= clients[g.client].burnt

\* What a token of the client_credentials grant rests on.
Allowed(m) ==
    LET c == clients[machines[m].client] IN
    c # Absent /\ c.source = "pre" /\ machines[m].resource \in c.meta.machine

Hosted ==
    /\ mix \in Mixes
    /\ standing \in [Users -> Standing]
    /\ consents \subseteq Consent
    /\ call \in [Requests -> Calls]

Secure ==
    /\ Tables /\ Hosted
    /\ \A r \in Requests, k \in TokenCall : call[r] = k => Fit(k)
    /\ \A a \in AccessIDs : access[a] # Absent => Rests(a)
    /\ \A m \in MachineIDs : machines[m] # Absent => Allowed(m)

-----------------------------------------------------------------------------
(* What a step keeps.                                                      *)

\* The grant behind the credential of a call.
LEMMA GrantKept ==
    ASSUME Tables, DelegatedStays, NEW k \in TokenCall, Presented(k),
           k.op \in {Exchange, Rotation} \cup Bearer
    PROVE  /\ GrantOf(k) \in GrantIDs /\ grants[GrantOf(k)] # Absent
           /\ GrantOf(k)' = GrantOf(k)
  <1> USE DEF Exchange, Rotation, Bearer
  <1>1. CASE k.op = Exchange
    BY <1>1 DEF Presented, GrantOf
  <1>2. CASE k.op = Rotation
    BY <1>2, References DEF Presented, GrantOf, Tables, Delegation, Integrity,
       DelegatedStays, RefreshStays
  <1>3. CASE k.op \in Bearer
    BY <1>3, References DEF Presented, GrantOf, Tables, Delegation, Integrity,
       DelegatedStays, AccessStays
  <1> QED  BY <1>1, <1>2, <1>3

\* Whatever the tables go through, a call in flight is as fit as it was.
LEMMA FitKept ==
    ASSUME Tables, Tables', Footing, NEW k \in TokenCall, Fit(k)
    PROVE  Fit(k)'
  <1> DEFINE g == GrantOf(k)
  <1>0. DelegatedStays /\ ClientsStay /\ GrantsCovered /\ Presented(k)
    BY DEF Footing, Fit, WellFormed
  <1>1. ASSUME k.op \in {Exchange, Rotation} \cup Bearer
        PROVE  /\ g \in GrantIDs /\ grants[g] # Absent /\ GrantOf(k)' = g
               /\ grants'[g] # Absent /\ grants'[g].client = grants[g].client
               /\ grants'[g].resource = grants[g].resource
               /\ grants[g].st = "revoked" => grants'[g].st = "revoked"
    BY <1>0, <1>1, GrantKept DEF DelegatedStays, GrantsStay
  <1>2. Presented(k)'
    BY <1>0 DEF Presented, DelegatedStays, GrantsStay, AccessStays,
                RefreshStays
  <1> HIDE DEF g
  <1>3. Informed(k)'
    <2>1. k.pc \notin Resolving \cup {"bearer", "userinfo", "subject", "user",
                                      "served"} => k.meta \in Metadata
      BY DEF Fit, WellFormed, Informed
    <2>2. ASSUME \/ k.op = "AuthenticateOAuthAccessToken"
                 \/ k.op \in {Exchange, Rotation} /\ k.pc \in Checking \cup {"mint"}
          PROVE  grants'[GrantOf(k)'].client = k.client
      <3>1. grants[g].client = k.client
        BY <2>2 DEF Fit, WellFormed, Informed, g
      <3>2. k.op \in {Exchange, Rotation} \cup Bearer
        BY <2>2 DEF Bearer
      <3> QED  BY <3>1, <3>2, <1>1
    <2> QED  BY <2>1, <2>2 DEF Informed
  <1>4. WellFormed(k)'
    BY <1>2, <1>3 DEF WellFormed, Fit
  <1>5. Backed(k)'
    <2>1. ASSUME k.op \in {Exchange, Rotation}, k.pc \notin Resolving,
                 grants'[GrantOf(k)'].client = k.client,
                 ~(grants'[GrantOf(k)'].st = "revoked")
          PROVE  ClientUp(k.client)' /\ k.secret >= clients'[k.client].burnt
      <3>1. /\ grants[g].client = k.client /\ g \in GrantIDs
            /\ grants[g] # Absent /\ ~(grants[g].st = "revoked")
            /\ ~(grants'[g].st = "revoked")
        BY <2>1, <1>1
      <3>2. ClientUp(k.client) /\ k.secret >= clients[k.client].burnt
        BY <2>1, <3>1 DEF Fit, Backed, g
      <3>3. grants[g].resource \in Resources /\ k.client \in ClientIDs
            /\ k.secret \in Nat
        BY <3>1, Rows DEF Tables, Delegation, Grant, TokenCall
      <3>4. /\ ClientUp(k.client)'
            /\ clients'[k.client].burnt <= clients[k.client].burnt
        BY <1>0, <3>1, <3>2, <3>3 DEF GrantsCovered, Kept
      <3>5. clients[k.client].burnt \in Nat /\ clients'[k.client].burnt \in Nat
        BY <3>2, <3>3, <3>4 DEF Tables, RegistryType, ClientUp, Client
      <3> QED  BY <3>2, <3>3, <3>4, <3>5
    <2>2. ASSUME k.op \in {Exchange, Rotation},
                 k.pc \in {"issuer", "standing", "mint"},
                 ~(grants'[GrantOf(k)'].st = "revoked"),
                 NEW x, x = grants'[GrantOf(k)'].resource
          PROVE  ResourceUp(x)'
      <3>1. /\ grants[g].resource = x /\ g \in GrantIDs
            /\ grants[g] # Absent /\ ~(grants[g].st = "revoked")
            /\ ~(grants'[g].st = "revoked")
        BY <2>2, <1>1
      <3>2. ResourceUp(x)
        BY <2>2, <3>1 DEF Fit, Backed, g
      <3>3. x \in Resources /\ grants[g].client \in ClientIDs
        BY <3>1, Rows DEF Tables, Delegation, Grant
      <3> QED  BY <1>0, <3>1, <3>2, <3>3 DEF GrantsCovered, Kept
    <2> QED  BY <2>1, <2>2 DEF Backed
  <1>6. Doomed(k)'
    <2>1. k.op \in Bearer /\ access[k.arg].st = "revoked" =>
            access'[k.arg].st = "revoked"
      BY <1>0 DEF Presented, DelegatedStays, AccessStays
    <2>2. SUFFICES ASSUME k.late PROVE Doomed(k)'
      BY DEF Doomed
    <2>3. Doomed(k)
      BY DEF Fit
    <2> QED  BY <1>1, <2>1, <2>2, <2>3 DEF Doomed, Bearer, g
  <1>7. Listed(k)'
    <2>1. k.client \in ClientIDs
      BY DEF TokenCall
    <2> QED  BY <1>0, <2>1 DEF Fit, Listed, ClientsStay
  <1> QED  BY <1>4, <1>5, <1>6, <1>7 DEF Fit

\* Access tokens there were rest on what they rested on.
LEMMA RestsKept ==
    ASSUME Tables, Tables', Footing, NEW a \in AccessIDs, access[a] # Absent,
           Rests(a)
    PROVE  Rests(a)'
  <1> DEFINE g == access[a].grant
             c == grants[g].client
             x == grants[g].resource
  <1>1. /\ g \in GrantIDs /\ grants[g] # Absent /\ grants[g] \in Grant
        /\ access[a] \in Access
    BY Rows, References DEF Tables, Delegation, Integrity
  <1>2. c \in ClientIDs /\ x \in Resources /\ access[a].secret \in Nat
    BY <1>1 DEF Grant, Access
  <1>3. /\ access'[a].grant = g /\ access'[a].secret = access[a].secret
        /\ grants'[g].client = c /\ grants'[g].resource = x
        /\ grants[g].st = "revoked" => grants'[g].st = "revoked"
    BY <1>1 DEF Footing, DelegatedStays, GrantsStay, AccessStays
  <1>4. ASSUME NEW d, NEW y, d = c, y = x, ~(grants'[g].st = "revoked")
        PROVE  ClientUp(d)' /\ ResourceUp(y)'
               /\ access[a].secret >= clients'[d].burnt
    <2>1. ClientUp(d) /\ ResourceUp(y) /\ access[a].secret >= clients[d].burnt
      BY <1>3, <1>4 DEF Rests
    <2>2. /\ ClientUp(d)' /\ ResourceUp(y)'
          /\ clients'[d].burnt <= clients[d].burnt
      BY <1>1, <1>2, <1>4, <2>1 DEF Footing, GrantsCovered, Kept
    <2>3. clients[d].burnt \in Nat /\ clients'[d].burnt \in Nat
      BY <1>2, <1>4, <2>1, <2>2 DEF Tables, RegistryType, ClientUp, Client
    <2> QED  BY <1>2, <2>1, <2>2, <2>3
  <1> HIDE DEF g, c, x
  <1> QED  BY <1>3, <1>4 DEF Rests, ClientUp, ResourceUp

LEMMA AllowedKept ==
    ASSUME Tables, Footing, NEW m \in MachineIDs, Allowed(m),
           machines[m] # Absent,
           machines'[m].client = machines[m].client,
           machines'[m].resource = machines[m].resource
    PROVE  Allowed(m)'
  <1>1. machines[m].client \in ClientIDs
    BY Registered DEF Tables, Machine
  <1> QED  BY <1>1 DEF Allowed, Footing, ClientsStay

\* A step of call r, or of no call, preserves Secure if what is new is sound.
LEMMA StepKeeps ==
    ASSUME Secure, Tables', Footing, Hosted', NEW r \in Requests,
           \A q \in Requests \ {r} : call'[q] = call[q],
           \A k \in TokenCall : call'[r] = k => call[r] = k \/ Fit(k)',
           \A a \in AccessIDs :
             access'[a] # Absent => access[a] # Absent \/ Rests(a)',
           MachinesStay \/ \A m \in MachineIDs :
                             machines'[m] # Absent => Allowed(m)'
    PROVE  Secure'
  <1>1. \A q \in Requests, k \in TokenCall : call'[q] = k => Fit(k)'
    BY FitKept DEF Secure
  <1>2. \A a \in AccessIDs : access'[a] # Absent => Rests(a)'
    BY RestsKept DEF Secure
  <1>3. \A m \in MachineIDs : machines'[m] # Absent => Allowed(m)'
    BY AllowedKept DEF Secure, MachinesStay
  <1> QED  BY <1>1, <1>2, <1>3 DEF Secure

-----------------------------------------------------------------------------
(* Steps that read.                                                        *)

LEMMA SameTables ==
    ASSUME Tables, UNCHANGED storeVars
    PROVE  Tables' /\ Footing /\ MachinesStay /\ access' = access
  <1>1. UNCHANGED registry /\ UNCHANGED delegated
    BY DEF storeVars
  <1>2. Delegation' /\ DelegatedStays
    BY <1>1, SameDelegated DEF Tables
  <1>3. Tables' /\ Footing
    BY <1>1, <1>2, DelegatedStep
  <1> QED  BY <1>1, <1>3 DEF MachinesStay, registry, delegated

LEMMA Reading ==
    ASSUME Secure, NEW r \in Requests, NEW k \in Calls,
           call' = [call EXCEPT ![r] = k],
           UNCHANGED <<storeVars, mix, standing>>, consents' \subseteq Consent,
           k \in TokenCall => Fit(k)
    PROVE  Secure'
  <1>1. Tables' /\ Footing /\ MachinesStay /\ access' = access
    BY SameTables DEF Secure
  <1>2. /\ call' \in [Requests -> Calls] /\ call'[r] = k
        /\ \A q \in Requests \ {r} : call'[q] = call[q]
    BY DEF Secure, Hosted
  <1>3. Hosted'
    BY <1>2 DEF Secure, Hosted
  <1>4. k \in TokenCall => Fit(k)'
    BY <1>1, FitKept DEF Secure
  <1> QED  BY <1>1, <1>2, <1>3, <1>4, StepKeeps

LEMMA IdleReading ==
    ASSUME Secure, NEW r \in Requests, Returns(r),
           UNCHANGED <<storeVars, mix, standing>>, consents' \subseteq Consent
    PROVE  Secure'
  <1>1. Idle \in Calls /\ Idle \notin TokenCall
    BY DEF Calls, Idle, TokenCall
  <1> QED  BY Zenon, <1>1, Reading DEF Returns

\* What Goto leaves of a call.
LEMMA Moved ==
    ASSUME NEW k \in TokenCall, NEW pc \in TokenPCs
    PROVE  LET n == [k EXCEPT !.pc = pc] IN
           /\ n \in TokenCall /\ n.pc = pc /\ n.op = k.op
           /\ n.client = k.client /\ n.secret = k.secret /\ n.arg = k.arg
           /\ n.meta = k.meta /\ n.late = k.late
  BY DEF TokenCall

\* A call that goes to pc is fit there if it may go there, has the metadata
\* it needs, and what it has just checked holds.
LEMMA Goes ==
    ASSUME Secure, NEW r \in Requests, NEW k \in TokenCall, call[r] = k,
           NEW pc \in Stages(k.op), pc \in TokenPCs, Goto(r, pc), Reads,
           LET n == [k EXCEPT !.pc = pc] IN
             Informed(n) /\ Backed(n) /\ Doomed(n) /\ Listed(n)
    PROVE  Secure'
  <1> DEFINE n == [k EXCEPT !.pc = pc]
  <1>1. /\ n \in TokenCall /\ n.pc = pc /\ n.op = k.op
        /\ n.client = k.client /\ n.secret = k.secret /\ n.arg = k.arg
        /\ n.meta = k.meta /\ n.late = k.late
    BY Moved
  <1>2. Presented(k)
    BY DEF Secure, Fit, WellFormed
  <1>3. call' = [call EXCEPT ![r] = n]
    BY DEF Goto, Secure, Hosted
  <1>4. Informed(n) /\ Backed(n) /\ Doomed(n) /\ Listed(n)
    OBVIOUS
  <1> HIDE DEF n
  <1>5. Presented(n)
    BY <1>1, <1>2 DEF Presented
  <1>6. Fit(n)
    BY <1>1, <1>4, <1>5 DEF Fit, WellFormed
  <1>7. n \in Calls
    BY <1>1 DEF Calls
  <1> QED  BY Zenon, <1>3, <1>6, <1>7, Reading DEF Reads, hostVars, Secure,
              Hosted

\* The steps of one operation each.
LEMMA OperationAt ==
    ASSUME NEW op, NEW pc \in Stages(op)
    PROVE  /\ pc \in {"code", "replay"} => op = Exchange
           /\ pc \in {"token", "family"} => op = Rotation
           /\ pc = "revoke" => op = "RevokeOAuthToken"
           /\ pc = "machine" => op = "IssueOAuthClientCredentials"
           /\ pc \in {"begin", "scopes"} => op = "BeginOAuthAuthorization"
           /\ pc = "bearer" => op = "AuthenticateOAuthAccessToken"
           /\ pc \in {"userinfo", "subject", "user"} => op = "OAuthUserInfo"
           /\ pc \in Checking =>
                op \in {Exchange, Rotation, "AuthenticateOAuthAccessToken"}
           /\ pc = "mint" =>
                op \in {Exchange, Rotation, "IssueOAuthClientCredentials"}
           /\ pc \in Resolving =>
                op \in {Exchange, Rotation, "RevokeOAuthToken",
                        "IssueOAuthClientCredentials",
                        "BeginOAuthAuthorization",
                        "ValidateOAuthAuthorizationRedirect"}
  BY DEF Stages, Exchange, Rotation, Resolving, Checking

LEMMA StagesOf ==
    /\ Stages(Exchange) =
         Resolving \cup Checking \cup {"code", "replay", "mint"}
    /\ Stages(Rotation) =
         Resolving \cup Checking \cup {"token", "family", "mint"}
    /\ Stages("RevokeOAuthToken") = Resolving \cup {"revoke"}
    /\ Stages("IssueOAuthClientCredentials") =
         Resolving \cup {"machine", "mint"}
    /\ Stages("BeginOAuthAuthorization") = Resolving \cup {"begin", "scopes"}
    /\ Stages("ValidateOAuthAuthorizationRedirect") = Resolving
    /\ Stages("AuthenticateOAuthAccessToken") =
         Checking \cup {"bearer", "served"}
    /\ Stages("OAuthUserInfo") = {"userinfo", "subject", "user", "served"}
  BY DEF Stages, Exchange, Rotation

\* A token call in flight.
LEMMA InFlight ==
    ASSUME Secure, NEW r \in Requests, call[r].pc \in TokenPCs
    PROVE  /\ call[r] \in TokenCall /\ Fit(call[r])
           /\ call[r].pc \in Stages(call[r].op)
  <1>1. call[r] \in TokenCall
    BY Kinds DEF Secure, Hosted
  <1> QED  BY <1>1 DEF Secure, Fit, WellFormed

\* activeOAuthGrant.
LEMMA GrantStep ==
    ASSUME Secure, NEW r \in Requests, GrantSteps(r)
    PROVE  Secure'
  <1> DEFINE k == call[r]
             g == GrantOf(k)
  <1>0. k.pc \in Checking
    BY DEF GrantSteps, GrantRead, GrantReadsResource, GrantReadsIssuer,
           GrantReadsStanding, At, Checking
  <1>1. /\ k \in TokenCall /\ Fit(k) /\ k.pc \in Stages(k.op)
        /\ k.op \in {Exchange, Rotation, "AuthenticateOAuthAccessToken"}
    BY <1>0, InFlight, OperationAt DEF Checking, TokenPCs
  <1>2. /\ k.meta \in Metadata /\ grants[g].client = k.client
        /\ Backed(k) /\ Doomed(k)
    BY <1>0, <1>1 DEF Fit, WellFormed, Informed, Checking, Resolving
  <1> HIDE DEF k
  <1>3. ASSUME NEW pc \in (Checking \cup {"mint", "served"}) \ {"grant"},
               Goto(r, pc), Reads, ~k.late,
               pc = "mint" => k.op \in {Exchange, Rotation},
               pc = "served" => k.op = "AuthenticateOAuthAccessToken",
               pc \in {"issuer", "standing", "mint"} =>
                 \/ k.op = "AuthenticateOAuthAccessToken"
                 \/ grants[g].st = "revoked" \/ ResourceUp(grants[g].resource)
        PROVE  Secure'
    <2> DEFINE n == [k EXCEPT !.pc = pc]
    <2>1. pc \in TokenPCs /\ pc \notin Resolving
      BY DEF Checking, TokenPCs, Resolving
    <2>2. /\ n \in TokenCall /\ n.pc = pc /\ n.op = k.op
          /\ n.client = k.client /\ n.secret = k.secret /\ n.arg = k.arg
          /\ n.meta = k.meta /\ n.late = k.late
      BY <1>1, <2>1, Moved
    <2> HIDE DEF n
    <2>3. GrantOf(n) = g
      BY <2>2 DEF GrantOf
    <2>4. pc \in Stages(k.op)
      BY <1>1, <1>3, StagesOf DEF Checking
    <2>5. Informed(n)
      BY <1>2, <2>2, <2>3 DEF Informed
    <2>6. Backed(n)
      BY <1>0, <1>1, <1>2, <1>3, <2>2, <2>3
         DEF Backed, Checking, Resolving, Exchange, Rotation
    <2>7. Doomed(n) /\ Listed(n)
      BY <1>1, <1>3, <2>2, <2>1 DEF Doomed, Listed, Resolving, Exchange,
                                    Rotation
    <2> QED  BY <1>1, <1>3, <2>1, <2>4, <2>5, <2>6, <2>7, Goes DEF k, n
  <1>4. CASE GrantRead(r)
    <2>1. k.pc = "grant" /\ grants[g].st = "live" /\ Goto(r, "resource")
          /\ Reads
      BY <1>4 DEF GrantRead, At, k
    <2>2. ~k.late
      BY <1>1, <1>2, <2>1 DEF Doomed, Exchange, Rotation
    <2> QED  BY <1>3, <2>1, <2>2 DEF Checking
  <1>5. CASE ~GrantRead(r)
    <2>1. k.pc \in {"resource", "issuer", "standing"}
      BY <1>5 DEF GrantSteps, GrantReadsResource, GrantReadsIssuer,
                  GrantReadsStanding, At, k
    <2>2. ~k.late
      BY <1>1, <1>2, <2>1 DEF Doomed
    <2>3. CASE GrantReadsResource(r)
      BY <1>3, <2>2, <2>3 DEF GrantReadsResource, Checking, k
    <2>4. CASE GrantReadsIssuer(r)
      <3>1. k.pc = "issuer" /\ Goto(r, "standing") /\ Reads
        BY <2>4 DEF GrantReadsIssuer, At, k
      <3>2. \/ k.op = "AuthenticateOAuthAccessToken"
            \/ grants[g].st = "revoked" \/ ResourceUp(grants[g].resource)
        BY <1>1, <1>2, <3>1 DEF Backed
      <3> QED  BY <1>3, <2>2, <3>1, <3>2 DEF Checking
    <2>5. CASE GrantReadsStanding(r)
      <3>1. /\ k.pc = "standing" /\ Reads
            /\ Goto(r, IF k.op = "AuthenticateOAuthAccessToken" THEN "served"
                       ELSE "mint")
        BY <2>5 DEF GrantReadsStanding, At, k
      <3>2. \/ k.op = "AuthenticateOAuthAccessToken"
            \/ grants[g].st = "revoked" \/ ResourceUp(grants[g].resource)
        BY <1>1, <1>2, <3>1 DEF Backed
      <3>3. CASE k.op = "AuthenticateOAuthAccessToken"
        BY <1>3, <2>2, <3>1, <3>2, <3>3
      <3>4. CASE k.op # "AuthenticateOAuthAccessToken"
        BY <1>1, <1>3, <2>2, <3>1, <3>2, <3>4
      <3> QED  BY <3>3, <3>4
    <2> QED  BY <1>5, <2>3, <2>4, <2>5 DEF GrantSteps
  <1> QED  BY <1>4, <1>5

\* authenticateOAuthClient, up to the metadata document.
LEMMA ClientRead ==
    ASSUME Secure, NEW r \in Requests, ReadsClient(r) \/ NeedsMetadata(r)
    PROVE  Secure'
  <1> DEFINE k == call[r]
  <1>0. k.pc = "client" /\ Reads
    BY DEF ReadsClient, NeedsMetadata, At
  <1>1. /\ k \in TokenCall /\ Fit(k) /\ k.pc \in Stages(k.op)
        /\ k.op \in {Exchange, Rotation, "RevokeOAuthToken",
                     "IssueOAuthClientCredentials", "BeginOAuthAuthorization",
                     "ValidateOAuthAuthorizationRedirect"}
    BY <1>0, InFlight, OperationAt DEF Resolving, TokenPCs
  <1>2. ~k.late
    BY <1>0, <1>1 DEF Fit, Doomed
  <1>3. k.client \in ClientIDs /\ k.secret \in Nat
    BY <1>1 DEF TokenCall
  <1> HIDE DEF k
  <1>4. CASE NeedsMetadata(r)
    <2>1. PICK pc \in {"fetch", "refetch"} :
            Goto(r, pc) /\ k.client \in CIMDs
      BY <1>4 DEF NeedsMetadata, k
    <2> DEFINE n == [k EXCEPT !.pc = pc]
    <2>2. pc \in TokenPCs /\ pc \in Resolving
      BY <2>1 DEF TokenPCs, Resolving
    <2>3. /\ n \in TokenCall /\ n.pc = pc /\ n.op = k.op
          /\ n.client = k.client /\ n.late = k.late
      BY <1>1, <2>2, Moved
    <2> HIDE DEF n
    <2>4. pc \in Stages(k.op)
      BY <1>1, <2>2, StagesOf
    <2>5. Informed(n) /\ Backed(n) /\ Doomed(n) /\ Listed(n)
      BY <1>1, <1>2, <2>1, <2>2, <2>3 DEF Informed, Backed, Doomed, Listed,
         Checking, Resolving, Exchange, Rotation
    <2> QED  BY <1>0, <1>1, <2>1, <2>2, <2>4, <2>5, Goes DEF k, n
  <1>5. CASE ReadsClient(r)
    <2> DEFINE meta == clients[k.client].meta
               n == [k EXCEPT !.pc = Entry(k.op), !.meta = meta]
    <2>1. /\ ClientUp(k.client)
          /\ k.op \in Anonymous \/ k.secret = clients[k.client].secret
          /\ call' = [call EXCEPT
                        ![r] = IF k.op = "ValidateOAuthAuthorizationRedirect"
                               THEN Idle ELSE n]
      BY <1>5 DEF ReadsClient, Resolved, k
    <2>2. /\ clients[k.client] # Absent
          /\ meta \in Metadata /\ clients[k.client].secret \in Nat
          /\ clients[k.client].burnt \in Nat
          /\ clients[k.client].burnt <= clients[k.client].secret
      BY <1>3, <2>1, Registered DEF Secure, Tables, ClientsSound, ClientUp,
                                    Client
    <2>3. CASE k.op = "ValidateOAuthAuthorizationRedirect"
      <3>1. Returns(r)
        BY <2>1, <2>3 DEF Returns
      <3> QED
        BY <1>0, <3>1, IdleReading DEF Reads, hostVars, Secure, Hosted
    <2>4. CASE k.op # "ValidateOAuthAuthorizationRedirect"
      <3> HIDE DEF meta
      <3>1. Entry(k.op) \in {"code", "token", "revoke", "machine", "begin"}
            /\ Entry(k.op) \in Stages(k.op)
            /\ (k.op = "IssueOAuthClientCredentials" <=>
                  Entry(k.op) = "machine")
        BY <1>1, <2>4, StagesOf DEF Entry, Exchange, Rotation
      <3>2. /\ n \in TokenCall /\ n.pc = Entry(k.op) /\ n.op = k.op
            /\ n.client = k.client /\ n.secret = k.secret /\ n.arg = k.arg
            /\ n.meta = meta /\ n.late = k.late
        BY Zenon, <1>1, <2>2, <3>1 DEF TokenCall, TokenPCs
      <3>3. call' = [call EXCEPT ![r] = n]
        BY <2>1, <2>4
      <3> HIDE DEF n
      <3>4. Presented(n)
        BY <1>1, <3>2 DEF Fit, WellFormed, Presented
      <3>5. Informed(n) /\ Doomed(n)
        BY <1>1, <1>2, <2>2, <3>1, <3>2 DEF Informed, Doomed, Checking,
           Exchange, Rotation
      <3>6. Backed(n)
        BY <1>3, <2>1, <2>2, <3>1, <3>2
           DEF Backed, Exchange, Rotation, Anonymous
      <3>7. Listed(n)
        BY <2>2, <3>1, <3>2 DEF Listed, meta
      <3>8. Fit(n) /\ n \in Calls
        BY <3>1, <3>2, <3>4, <3>5, <3>6, <3>7 DEF Fit, WellFormed, Calls
      <3> QED
        BY Zenon, <1>0, <3>3, <3>8, Reading DEF Reads, hostVars, Secure, Hosted
    <2> QED  BY <2>3, <2>4
  <1> QED  BY <1>4, <1>5

\* A call that begins with the credentials of a client.
LEMMA Presenting ==
    ASSUME Secure, NEW r \in Requests, NEW op \in TokenOps, NEW args,
           Presents(r, op, args), args \subseteq Args, "client" \in Stages(op),
           op = Exchange => args \subseteq Granted,
           op = Rotation => args \subseteq {t \in RefreshIDs : refresh[t] # Absent},
           op \notin Bearer,
           op = "IssueOAuthClientCredentials" => args \subseteq Resources,
           op = "BeginOAuthAuthorization" => args \subseteq Asked
    PROVE  Secure'
  <1>1. issuer # Absent /\ mix \in Mixes /\ Reads
    BY Zenon DEF Presents, IssuerUp, Secure, Hosted
  <1>2. issuer.policy.cimd \in BOOLEAN
    <2>1. issuer.policy \in Policies
      BY <1>1, Registered DEF Secure, Tables, Issuer
    <2> QED  BY <2>1, PolicyAssumption DEF NormalPolicy
  <1>3. PICK c \in mix.clients, arg \in args :
          \E s \in IF clients[c] = Absent \/ op \in Anonymous THEN {0}
                   ELSE 0..clients[c].secret :
            call' = [call EXCEPT ![r] =
                       [pc |-> "client", op |-> op, client |-> c, secret |-> s,
                        arg |-> arg, meta |-> None,
                        cimd |-> issuer.policy.cimd, late |-> FALSE]]
    BY Zenon DEF Presents
  <1>4. c \in ClientIDs
    BY <1>1, <1>3, MixAssumption
  <1>5. clients[c] # Absent => clients[c].secret \in Nat
    BY <1>4, Registered DEF Secure, Tables, Client
  <1>6. PICK s \in Nat :
            call' = [call EXCEPT ![r] =
                       [pc |-> "client", op |-> op, client |-> c, secret |-> s,
                        arg |-> arg, meta |-> None,
                        cimd |-> issuer.policy.cimd, late |-> FALSE]]
    <2>1. \A s \in IF clients[c] = Absent \/ op \in Anonymous THEN {0}
                   ELSE 0..clients[c].secret : s \in Nat
      BY <1>5
    <2> QED  BY Zenon, <1>3, <2>1
  <1> DEFINE k == [pc |-> "client", op |-> op, client |-> c, secret |-> s,
                   arg |-> arg, meta |-> None,
                   cimd |-> issuer.policy.cimd, late |-> FALSE]
  <1>7. /\ k \in TokenCall /\ k.pc = "client" /\ k.op = op /\ k.arg = arg
        /\ ~k.late
    BY <1>2, <1>4 DEF TokenCall, TokenPCs
  <1> HIDE DEF k
  <1>8. Presented(k)
    BY <1>7 DEF Presented, Granted
  <1>9. Informed(k)
    BY <1>7 DEF Informed, Resolving, Checking, Bearer
  <1>10. Backed(k) /\ Doomed(k) /\ Listed(k)
    BY <1>7 DEF Backed, Doomed, Listed, Resolving
  <1>11. Fit(k) /\ k \in Calls
    BY <1>7, <1>8, <1>9, <1>10 DEF Fit, WellFormed, Calls
  <1> QED
    BY ZenonT(40), <1>1, <1>6, <1>11, Reading DEF Reads, hostVars, Secure,
       Hosted, k

\* The document a client's identifier names has been fetched.
LEMMA MetadataResolved ==
    ASSUME Secure, NEW r \in Requests, ResolvesMetadata(r)
    PROVE  Secure'
  <1>a. call[r].pc \in {"fetch", "refetch"} /\ UNCHANGED hostVars
    BY DEF ResolvesMetadata, At
  <1>b. PICK k \in TokenCall : call[r] = k
    BY <1>a, InFlight DEF TokenPCs
  <1> DEFINE c == k.client
  <1>0. k.pc \in {"fetch", "refetch"} /\ UNCHANGED hostVars
    BY <1>a, <1>b
  <1>1. /\ k \in TokenCall /\ Fit(k) /\ k.pc \in Stages(k.op)
        /\ k.op \in {Exchange, Rotation, "RevokeOAuthToken",
                     "IssueOAuthClientCredentials", "BeginOAuthAuthorization",
                     "ValidateOAuthAuthorizationRedirect"}
    BY <1>0, <1>b, InFlight, OperationAt DEF Resolving, TokenPCs
  <1>2. ~k.late /\ c \in CIMDs
    BY <1>0, <1>1 DEF Fit, Doomed, Listed
  <1>3. c \in ClientIDs /\ k.secret \in Nat
    BY <1>1 DEF TokenCall
  <1>4. PICK meta \in mix.metadata, found \in BOOLEAN :
          StoreUpsertOAuthCIMDClient(c, meta, found) /\ Resolved(r, meta)
    BY Zenon, <1>b DEF ResolvesMetadata, At
  <1>5. meta \in Metadata
    BY <1>4, MixAssumption DEF Secure, Hosted
  <1>6. /\ Tables' /\ Footing /\ ClientUp(c)' /\ clients'[c].burnt = 0
        /\ clients'[c].source = "cimd"
    BY <1>2, <1>4, <1>5, UpsertsClient DEF Secure
  <1>7. machines' = machines /\ access' = access
    BY <1>4 DEF StoreUpsertOAuthCIMDClient, delegated
  <1> DEFINE n == [k EXCEPT !.pc = Entry(k.op), !.meta = meta]
  <1>8. call' = [call EXCEPT
                   ![r] = IF k.op = "ValidateOAuthAuthorizationRedirect"
                          THEN Idle ELSE n]
    BY <1>b, <1>4 DEF Resolved
  <1> HIDE DEF c
  <1>9. k.op # "ValidateOAuthAuthorizationRedirect" =>
          /\ n \in TokenCall /\ n.pc = Entry(k.op) /\ n.op = k.op
          /\ n.client = c /\ n.secret = k.secret /\ n.arg = k.arg
          /\ n.meta = meta /\ n.late = k.late
          /\ Entry(k.op) \in {"code", "token", "revoke", "machine", "begin"}
          /\ Entry(k.op) \in Stages(k.op)
    <2>1. k.op # "ValidateOAuthAuthorizationRedirect" =>
            /\ Entry(k.op) \in {"code", "token", "revoke", "machine", "begin"}
            /\ Entry(k.op) \in Stages(k.op)
      BY <1>1, StagesOf DEF Entry, Exchange, Rotation
    <2> QED  BY ZenonT(40), <1>1, <1>5, <2>1 DEF TokenCall, TokenPCs, c
  <1> HIDE DEF n
  <1>10. /\ call' \in [Requests -> Calls]
         /\ call'[r] = IF k.op = "ValidateOAuthAuthorizationRedirect"
                       THEN Idle ELSE n
         /\ \A q \in Requests \ {r} : call'[q] = call[q]
    BY <1>8, <1>9 DEF Secure, Hosted, Calls
  <1>11. Hosted'
    BY <1>0, <1>10 DEF Secure, Hosted, hostVars
  <1>12. ASSUME k.op # "ValidateOAuthAuthorizationRedirect"
         PROVE  Fit(n)'
    <2> USE <1>9, <1>12
    <2>1. Presented(k)'
      BY <1>1, <1>6, FitKept DEF Fit, WellFormed, Secure
    <2>2. Presented(n)'
      BY <2>1 DEF Presented
    <2>3. Informed(n)' /\ Doomed(n)'
      BY <1>1, <1>2, <1>5 DEF Informed, Doomed, Checking,
         Exchange, Rotation
    <2>4. Backed(n)'
      BY <1>3, <1>6 DEF Backed
    <2>5. Listed(n)'
      BY <1>2, <1>6 DEF Listed, ClientUp
    <2> QED  BY <2>2, <2>3, <2>4, <2>5 DEF Fit, WellFormed
  <1>13. \A kk \in TokenCall : call'[r] = kk => Fit(kk)'
    BY <1>10, <1>12, Kinds DEF Calls
  <1> QED  BY <1>6, <1>7, <1>10, <1>11, <1>13, StepKeeps DEF MachinesStay

-----------------------------------------------------------------------------
(* The consent ceremony.                                                   *)

\* A call that is none of the token calls.
LEMMA OtherCall ==
    ASSUME Secure, NEW r \in Requests, NEW k \in Calls, k \notin TokenCall,
           call' = [call EXCEPT ![r] = k], Reads
    PROVE  Secure'
  BY Zenon, Reading DEF Reads, hostVars, Secure, Hosted

\* A commit that ends its call.
LEMMA Ending ==
    ASSUME Secure, NEW r \in Requests, Ends(r), Tables', Footing,
           \A a \in AccessIDs :
             access'[a] # Absent => access[a] # Absent \/ Rests(a)',
           MachinesStay \/ \A m \in MachineIDs :
                             machines'[m] # Absent => Allowed(m)'
    PROVE  Secure'
  <1>1. Idle \in Calls /\ Idle \notin TokenCall
    BY DEF Calls, Idle, TokenCall
  <1>2. /\ call' \in [Requests -> Calls] /\ call'[r] = Idle
        /\ \A q \in Requests \ {r} : call'[q] = call[q]
    BY <1>1 DEF Ends, Returns, Secure, Hosted
  <1>3. Hosted'
    BY <1>2 DEF Ends, Secure, Hosted, hostVars
  <1> QED  BY <1>1, <1>2, <1>3, StepKeeps

LEMMA ConsentMoves ==
    ASSUME Secure, NEW r \in Requests, call[r] \in ConsentCall, Reads,
           NEW pc \in {"approve.resource", "approve.issuer",
                       "approve.scopes", "approve.commit"}, Goto(r, pc)
    PROVE  Secure'
  <1> DEFINE n == [call[r] EXCEPT !.pc = pc]
  <1>1. n \in ConsentCall
    BY DEF ConsentCall
  <1>2. n \notin TokenCall
    BY <1>1 DEF ConsentCall, TokenCall, TokenPCs
  <1>3. call' = [call EXCEPT ![r] = n]
    BY DEF Goto, Secure, Hosted
  <1>4. n \in Calls
    BY <1>1 DEF Calls
  <1> QED  BY ZenonT(40), <1>2, <1>3, <1>4, OtherCall

LEMMA ConsentStep ==
    ASSUME Secure, NEW r \in Requests, ConsentSteps(r)
    PROVE  Secure'
  <1>0. call[r] \in Calls
    BY DEF Secure, Hosted
  <1>1. CASE BeginOAuthAuthorization(r)
    <2> DEFINE args == [user: Users, resource: Resources, scopes: mix.scopes]
    <2>1. mix.scopes \subseteq SUBSET Scopes
      BY MixAssumption DEF Secure, Hosted
    <2>2. args \subseteq Asked
      BY <2>1 DEF Asked
    <2>3. Presents(r, "BeginOAuthAuthorization", args)
      BY <1>1 DEF BeginOAuthAuthorization
    <2>4. "client" \in Stages("BeginOAuthAuthorization")
      BY StagesOf DEF Resolving
    <2> HIDE DEF args
    <2>5. args \subseteq Args
      BY <2>2 DEF Args
    <2>6. "BeginOAuthAuthorization" \notin {Exchange, Rotation} \cup Bearer
      BY DEF Bearer, Exchange, Rotation
    <2>7. "BeginOAuthAuthorization" \in TokenOps
      BY DEF TokenOps
    <2> QED  BY <2>2, <2>3, <2>4, <2>5, <2>6, <2>7, Presenting
  <1>2. CASE BeginReadsResource(r)
    <2> DEFINE k == call[r]
    <2>1. k.pc = "begin" /\ Goto(r, "scopes") /\ Reads
      BY <1>2 DEF BeginReadsResource, At
    <2>2. /\ k \in TokenCall /\ Fit(k) /\ k.op = "BeginOAuthAuthorization"
      BY <2>1, InFlight, OperationAt DEF TokenPCs
    <2>3. k.meta \in Metadata /\ ~k.late
      BY <2>1, <2>2 DEF Fit, WellFormed, Informed, Doomed, Resolving
    <2> HIDE DEF k
    <2> DEFINE n == [k EXCEPT !.pc = "scopes"]
    <2>4. /\ n.pc = "scopes" /\ n.op = k.op /\ n.meta = k.meta /\ ~n.late
      <3>1. "scopes" \in TokenPCs
        BY DEF TokenPCs
      <3>2. /\ n.pc = "scopes" /\ n.op = k.op /\ n.meta = k.meta
            /\ n.late = k.late
        BY <2>2, <3>1, Moved, Zenon
      <3> QED  BY <2>3, <3>2, Zenon
    <2>5. "scopes" \in TokenPCs /\ "scopes" \in Stages(k.op)
      BY <2>2, StagesOf DEF TokenPCs
    <2> HIDE DEF n
    <2>6. Informed(n) /\ Backed(n) /\ Doomed(n) /\ Listed(n)
      BY <2>2, <2>3, <2>4 DEF Informed, Backed, Doomed, Listed, Exchange,
                              Rotation
    <2> QED  BY <2>1, <2>2, <2>5, <2>6, Goes DEF k, n
  <1>3. CASE BeginSealsContinuation(r)
    <2> DEFINE k == call[r]
    <2>1. k.pc = "scopes"
      BY <1>3 DEF BeginSealsContinuation, At
    <2>2. /\ k \in TokenCall /\ Fit(k) /\ k.op = "BeginOAuthAuthorization"
      BY <2>1, InFlight, OperationAt DEF TokenPCs
    <2>3. k.meta \in Metadata /\ k.arg \in Asked /\ k.client \in ClientIDs
      BY <2>1, <2>2 DEF Fit, WellFormed, Informed, Presented, Resolving,
                        TokenCall
    <2>4. [user |-> k.arg.user, client |-> k.client,
           resource |-> k.arg.resource, scopes |-> k.arg.scopes,
           meta |-> k.meta] \in Consent
      BY <2>3 DEF Consent, Asked
    <2>5. consents' \subseteq Consent
      BY <1>3, <2>4 DEF BeginSealsContinuation, Secure, Hosted
    <2> QED
      BY <1>3, <2>5, IdleReading DEF BeginSealsContinuation
  <1>4. CASE CompleteOAuthAuthorization(r)
    <2>1. PICK c \in consents :
            call' = [call EXCEPT ![r] = [pc |-> "approve", consent |-> c]]
      BY Zenon, <1>4 DEF CompleteOAuthAuthorization
    <2> DEFINE k == [pc |-> "approve", consent |-> c]
    <2>2. k \in ConsentCall
      BY <2>1 DEF ConsentCall, Secure, Hosted
    <2>3. k \in Calls /\ k \notin TokenCall
      BY <2>2 DEF Calls, TokenCall, TokenPCs
    <2> QED
      BY Zenon, <1>4, <2>1, <2>3, OtherCall DEF CompleteOAuthAuthorization
  <1>5. CASE CompleteReadsClient(r)
    <2>1. call[r] \in ConsentCall
      BY <1>0, <1>5, Kinds DEF CompleteReadsClient, At
    <2> QED  BY <1>5, <2>1, ConsentMoves DEF CompleteReadsClient
  <1>6. CASE CompleteReadsResource(r)
    <2>1. call[r] \in ConsentCall
      BY <1>0, <1>6, Kinds DEF CompleteReadsResource, At
    <2> QED  BY <1>6, <2>1, ConsentMoves DEF CompleteReadsResource
  <1>7. CASE CompleteReadsIssuer(r)
    <2>1. call[r] \in ConsentCall
      BY <1>0, <1>7, Kinds DEF CompleteReadsIssuer, At
    <2> QED  BY <1>7, <2>1, ConsentMoves DEF CompleteReadsIssuer
  <1>8. CASE CompleteReadsStanding(r)
    <2>1. call[r] \in ConsentCall
      BY <1>0, <1>8, Kinds DEF CompleteReadsStanding, At
    <2> QED  BY <1>8, <2>1, ConsentMoves DEF CompleteReadsStanding
  <1>9. CASE CompleteCommits(r)
    <2> DEFINE k == call[r].consent
               row == [st |-> "live", client |-> k.client, user |-> k.user,
                       resource |-> k.resource, scopes |-> k.scopes,
                       meta |-> k.meta]
    <2>1. call[r] \in ConsentCall
      BY <1>0, <1>9, Kinds DEF CompleteCommits, At
    <2>2. row \in Grant
      BY <2>1 DEF ConsentCall, Consent, Grant
    <2>3. PICK g \in GrantIDs : StoreCreateOAuthGrantAndCode(g, row)
      BY <1>9 DEF CompleteCommits
    <2> HIDE DEF row
    <2>4. Delegation' /\ DelegatedStays
      BY <2>2, <2>3, CreatesGrant DEF Secure, Tables
    <2>5. UNCHANGED registry /\ access' = access
      BY <2>3 DEF StoreCreateOAuthGrantAndCode
    <2>6. Tables' /\ Footing
      BY <2>4, <2>5, DelegatedStep DEF Secure
    <2>7. MachinesStay
      BY <2>5 DEF MachinesStay, registry
    <2> QED  BY <1>9, <2>5, <2>6, <2>7, Ending DEF CompleteCommits
  <1> QED  BY <1>1, <1>2, <1>3, <1>4, <1>5, <1>6, <1>7, <1>8, <1>9
              DEF ConsentSteps

-----------------------------------------------------------------------------
(* The token endpoint.                                                     *)

\* A call that goes from one step of the endpoint to the next and is not
\* late: what it needs at the new step.
LEMMA TokenMoves ==
    ASSUME Secure, NEW r \in Requests, NEW k \in TokenCall, call[r] = k,
           NEW pc \in {"grant", "replay", "family", "mint"}, Goto(r, pc),
           Reads, pc \in Stages(k.op), k.meta \in Metadata, ~k.late,
           k.op \in {Exchange, Rotation, "IssueOAuthClientCredentials"},
           k.pc \notin Resolving,
           k.op \in {Exchange, Rotation} =>
             grants[GrantOf(k)].client = k.client /\ pc # "mint",
           k.op = "IssueOAuthClientCredentials" =>
             /\ pc = "mint" /\ clients[k.client] # Absent
             /\ clients[k.client].source = "pre"
             /\ k.arg \in clients[k.client].meta.machine
    PROVE  Secure'
  <1> DEFINE n == [k EXCEPT !.pc = pc]
  <1>1. pc \in TokenPCs /\ pc \notin Resolving
        /\ pc \notin {"issuer", "standing", "machine"}
    BY DEF TokenPCs, Resolving
  <1>2. /\ n \in TokenCall /\ n.pc = pc /\ n.op = k.op
        /\ n.client = k.client /\ n.secret = k.secret /\ n.arg = k.arg
        /\ n.meta = k.meta /\ n.late = k.late
    BY <1>1, Moved
  <1> HIDE DEF n
  <1>3. GrantOf(n) = GrantOf(k)
    BY <1>2 DEF GrantOf
  <1>4. Informed(n)
    BY <1>2, <1>3 DEF Informed, Exchange, Rotation
  <1>5. Backed(k)
    BY DEF Secure, Fit
  <1>6. Backed(n)
    BY <1>1, <1>2, <1>3, <1>5 DEF Backed, Exchange, Rotation
  <1>7. Doomed(n) /\ Listed(n)
    BY <1>1, <1>2 DEF Doomed, Listed, Resolving, Exchange, Rotation
  <1> QED  BY <1>1, <1>4, <1>6, <1>7, Goes DEF n

LEMMA TokenRead ==
    ASSUME Secure, NEW r \in Requests,
           \/ ExchangeReadsCode(r) \/ RefreshReadsToken(r)
           \/ RefreshConflicts(r) \/ MachineReadsResource(r)
    PROVE  Secure'
  <1> DEFINE k == call[r]
  <1>0. k.pc \in {"code", "token", "mint", "machine"} /\ Reads
    BY DEF ExchangeReadsCode, RefreshReadsToken, RefreshConflicts,
           MachineReadsResource, At
  <1>1. /\ k \in TokenCall /\ Fit(k) /\ k.pc \in Stages(k.op)
        /\ k.pc = "code" => k.op = Exchange
        /\ k.pc = "token" => k.op = Rotation
        /\ k.pc = "machine" => k.op = "IssueOAuthClientCredentials"
    BY <1>0, InFlight, OperationAt DEF TokenPCs
  <1>2. k.meta \in Metadata /\ ~k.late /\ k.pc \notin Resolving
    BY <1>0, <1>1 DEF Fit, WellFormed, Informed, Doomed, Resolving
  <1>3. /\ {"grant", "replay"} \subseteq Stages(Exchange)
        /\ {"grant", "family"} \subseteq Stages(Rotation)
        /\ "mint" \in Stages("IssueOAuthClientCredentials")
    BY StagesOf DEF Checking
  <1>4. /\ Exchange # Rotation
        /\ "IssueOAuthClientCredentials" \notin {Exchange, Rotation}
    BY DEF Exchange, Rotation
  <1> HIDE DEF k
  <1>5. CASE ExchangeReadsCode(r)
    <2>1. /\ k.pc = "code" /\ grants[k.arg].client = k.client
          /\ \E pc \in {"grant", "replay"} : Goto(r, pc)
      BY <1>5 DEF ExchangeReadsCode, At, k
    <2>2. GrantOf(k) = k.arg
      BY <1>1, <2>1 DEF GrantOf, Exchange
    <2> QED  BY <1>0, <1>1, <1>2, <1>3, <1>4, <2>1, <2>2, TokenMoves DEF k
  <1>6. CASE RefreshReadsToken(r)
    <2>1. /\ k.pc = "token" /\ grants[refresh[k.arg].grant].client = k.client
          /\ \E pc \in {"grant", "family"} : Goto(r, pc)
      BY <1>6 DEF RefreshReadsToken, At, k
    <2>2. GrantOf(k) = refresh[k.arg].grant
      BY <1>1, <2>1 DEF GrantOf, Rotation
    <2> QED  BY <1>0, <1>1, <1>2, <1>3, <1>4, <2>1, <2>2, TokenMoves DEF k
  <1>7. CASE RefreshConflicts(r)
    <2>1. k.pc = "mint" /\ k.op = Rotation /\ Goto(r, "family")
      BY <1>7 DEF RefreshConflicts, At, k, Rotation
    <2>2. grants[GrantOf(k)].client = k.client
      BY <1>1, <2>1 DEF Fit, WellFormed, Informed
    <2> QED  BY <1>0, <1>1, <1>2, <1>3, <1>4, <2>1, <2>2, TokenMoves DEF k
  <1>8. CASE MachineReadsResource(r)
    <2>1. /\ k.pc = "machine" /\ clients[k.client].source = "pre"
          /\ k.arg \in k.meta.machine /\ Goto(r, "mint")
      BY <1>8 DEF MachineReadsResource, At, k
    <2>2. /\ clients[k.client] # Absent
          /\ k.arg \in clients[k.client].meta.machine
      BY <1>1, <2>1 DEF Fit, Listed
    <2> QED  BY <1>0, <1>1, <1>2, <1>3, <1>4, <2>1, <2>2, TokenMoves DEF k
  <1> QED  BY <1>5, <1>6, <1>7, <1>8

\* A commit on the grants and tokens that ends its call and mints nothing.
LEMMA Revoking ==
    ASSUME Secure, NEW r \in Requests, Ends(r), UNCHANGED registry,
           Delegation', DelegatedStays,
           \A a \in AccessIDs : access'[a] # Absent => access[a] # Absent
    PROVE  Secure'
  <1>1. Tables' /\ Footing
    BY DelegatedStep DEF Secure
  <1>2. MachinesStay
    BY DEF MachinesStay, registry
  <1> QED  BY <1>1, <1>2, Ending

\* The access token an exchange or a refresh mints.
LEMMA Minting ==
    ASSUME Secure, NEW r \in Requests, Ends(r), UNCHANGED registry,
           Delegation', DelegatedStays, grants' = grants,
           NEW k \in TokenCall, call[r] = k, k.pc = "mint",
           k.op \in {Exchange, Rotation},
           NEW a \in AccessIDs, NEW scopes,
           access' = [access EXCEPT ![a] = Minted(GrantOf(k), scopes, k.secret)]
    PROVE  Secure'
  <1> DEFINE g == GrantOf(k)
  <1>1. Tables' /\ Footing
    BY DelegatedStep DEF Secure
  <1>2. MachinesStay /\ clients' = clients /\ resources' = resources
    BY DEF MachinesStay, registry
  <1>3. Fit(k)
    BY DEF Secure
  <1>4. /\ grants[g].client = k.client
        /\ \/ grants[g].st = "revoked"
           \/ /\ ClientUp(k.client) /\ k.secret >= clients[k.client].burnt
              /\ ResourceUp(grants[g].resource)
    BY <1>3 DEF Fit, WellFormed, Informed, Backed, Resolving
  <1> HIDE DEF g
  <1>5. /\ access'[a].grant = g /\ access'[a].secret = k.secret
        /\ \A b \in AccessIDs \ {a} : access'[b] = access[b]
    BY ZenonT(40) DEF Secure, Tables, Delegation, DelegatedType, Minted, g
  <1>6. Rests(a)'
    BY Zenon, <1>2, <1>4, <1>5 DEF Rests, ClientUp, ResourceUp
  <1> QED  BY <1>1, <1>2, <1>5, <1>6, Ending

\* newID.
LEMMA FreshIds ==
    ASSUME NEW ids, NEW table, NEW id \in Fresh(ids, table)
    PROVE  id \in ids
  BY DEF Fresh

LEMMA TokenStep ==
    ASSUME Secure, NEW r \in Requests, TokenSteps(r)
    PROVE  Secure'
  <1>0. Tables /\ Delegation /\ call[r] \in Calls
    BY DEF Secure, Tables, Hosted
  <1>1. CASE ExchangeOAuthAuthorizationCode(r)
    <2>1. "client" \in Stages(Exchange) /\ Exchange \in TokenOps
          /\ Exchange \notin Bearer /\ Exchange # Rotation
          /\ Exchange # "IssueOAuthClientCredentials"
          /\ Exchange # "BeginOAuthAuthorization"
      BY StagesOf DEF Resolving, TokenOps, Exchange, Rotation, Bearer
    <2>2. Presents(r, Exchange, Granted) /\ Granted \subseteq Args
      BY <1>1 DEF ExchangeOAuthAuthorizationCode, Exchange, Granted, Args
    <2> QED  BY <2>1, <2>2, Presenting
  <1>2. CASE RefreshOAuthToken(r)
    <2> DEFINE args == {t \in RefreshIDs : refresh[t] # Absent}
    <2>1. "client" \in Stages(Rotation) /\ Rotation \in TokenOps
          /\ Rotation \notin Bearer /\ Exchange # Rotation
          /\ Rotation # "IssueOAuthClientCredentials"
          /\ Rotation # "BeginOAuthAuthorization"
      BY StagesOf DEF Resolving, TokenOps, Exchange, Rotation, Bearer
    <2>2. Presents(r, Rotation, args) /\ args \subseteq Args
      BY <1>2 DEF RefreshOAuthToken, Rotation, Args
    <2> QED  BY <2>1, <2>2, Presenting
  <1>3. CASE IssueOAuthClientCredentials(r)
    <2> DEFINE op == "IssueOAuthClientCredentials"
    <2>1. "client" \in Stages(op) /\ op \in TokenOps
          /\ op \notin Bearer /\ op # Exchange /\ op # Rotation
          /\ op # "BeginOAuthAuthorization"
      BY StagesOf DEF Resolving, TokenOps, Exchange, Rotation, Bearer
    <2>2. Presents(r, op, Resources) /\ Resources \subseteq Args
      BY <1>3 DEF IssueOAuthClientCredentials, Args
    <2> QED  BY <2>1, <2>2, Presenting
  <1>4. CASE RevokeOAuthToken(r)
    <2> DEFINE op == "RevokeOAuthToken"
               args == {a \in AccessIDs : access[a] # Absent}
                       \cup {t \in RefreshIDs : refresh[t] # Absent}
                       \cup {m \in MachineIDs : machines[m] # Absent}
    <2>1. "client" \in Stages(op) /\ op \in TokenOps
          /\ op \notin Bearer /\ op # Exchange /\ op # Rotation
          /\ op # "BeginOAuthAuthorization"
          /\ op # "IssueOAuthClientCredentials"
      BY StagesOf DEF Resolving, TokenOps, Exchange, Rotation, Bearer
    <2>2. Presents(r, op, args) /\ args \subseteq Args
      BY <1>4 DEF RevokeOAuthToken, Args
    <2> HIDE DEF args
    <2> QED  BY <2>1, <2>2, Presenting
  <1>5. CASE \/ ExchangeReadsCode(r) \/ RefreshReadsToken(r)
             \/ RefreshConflicts(r) \/ MachineReadsResource(r)
    BY <1>5, TokenRead
  <1>6. CASE revokeOAuthGrantForCodeReplay(r)
    <2> DEFINE k == call[r]
    <2>1. k.pc = "replay" /\ StoreRevokeOAuthGrant(k.arg) /\ Ends(r)
      BY <1>6 DEF revokeOAuthGrantForCodeReplay, At
    <2>2. k \in TokenCall /\ Fit(k) /\ k.op = Exchange
      BY <2>1, InFlight, OperationAt DEF TokenPCs
    <2>3. k.arg \in Granted
      BY <2>2 DEF Fit, WellFormed, Presented, Granted
    <2> HIDE DEF k
    <2>4. {k.arg} \in SUBSET Granted /\ revokeOAuthGrants({k.arg})
          /\ UNCHANGED registry
      BY <2>1, <2>3 DEF StoreRevokeOAuthGrant
    <2>5. Delegation' /\ DelegatedStays
      BY <1>0, <2>4, RevokesGrants
    <2>6. \A a \in AccessIDs : access'[a] # Absent => access[a] # Absent
      BY <2>4 DEF revokeOAuthGrants
    <2> QED  BY <2>1, <2>4, <2>5, <2>6, Revoking
  <1>7. CASE ExchangeCommits(r)
    <2>1. PICK k \in Calls : call[r] = k
      BY <1>0
    <2>2. k.pc = "mint" /\ k.op = Exchange /\ Ends(r)
      BY <1>7, <2>1 DEF ExchangeCommits, At, Exchange
    <2>3. k \in TokenCall /\ Fit(k)
      BY <2>1, <2>2, InFlight DEF TokenPCs
    <2>4. /\ k.arg \in GrantIDs /\ grants[k.arg] # Absent
          /\ GrantOf(k) = k.arg /\ k.secret \in Nat
      BY <2>2, <2>3 DEF Fit, WellFormed, Presented, GrantOf, Exchange,
                        TokenCall
    <2> DEFINE g == grants[k.arg]
               offline == OfflineAccess \in g.scopes /\ k.meta.refresh
    <2>5. PICK a \in Fresh(AccessIDs, access),
               t \in IF offline THEN Fresh(RefreshIDs, refresh) ELSE {None} :
            StoreConsumeOAuthAuthorizationCode(k.arg, a, offline, t, g.scopes,
                                               k.secret)
      BY ZenonT(40), <1>7, <2>1 DEF ExchangeCommits
    <2>6. a \in AccessIDs /\ (offline => t \in RefreshIDs)
      BY <2>5, FreshIds
    <2> HIDE DEF offline
    <2>7. Delegation' /\ DelegatedStays
      BY Zenon, <1>0, <2>4, <2>5, <2>6, RedeemsCode
    <2>8. /\ UNCHANGED registry /\ grants' = grants
          /\ access' = [access EXCEPT ![a] = Minted(k.arg, g.scopes, k.secret)]
      BY <2>5 DEF StoreConsumeOAuthAuthorizationCode
    <2> QED  BY ZenonT(40), <2>1, <2>2, <2>3, <2>4, <2>6, <2>7, <2>8, Minting
  <1>8. CASE RefreshCommits(r)
    <2>1. PICK k \in Calls : call[r] = k
      BY <1>0
    <2>2. k.pc = "mint" /\ k.op = Rotation /\ Ends(r)
      BY <1>8, <2>1 DEF RefreshCommits, At, Rotation
    <2>3. k \in TokenCall /\ Fit(k)
      BY <2>1, <2>2, InFlight DEF TokenPCs
    <2>4. /\ k.arg \in RefreshIDs /\ refresh[k.arg] # Absent
          /\ GrantOf(k) = refresh[k.arg].grant /\ k.secret \in Nat
      BY <2>2, <2>3 DEF Fit, WellFormed, Presented, GrantOf, Rotation,
                        TokenCall
    <2>5. PICK a \in Fresh(AccessIDs, access),
               n \in Fresh(RefreshIDs, refresh), s \in Narrowed(k.arg) :
            StoreRotateOAuthRefreshToken(k.arg, a, n, s, k.secret)
      BY <1>8, <2>1 DEF RefreshCommits
    <2>6. a \in AccessIDs /\ n \in RefreshIDs
      BY <2>5, FreshIds
    <2>7. s \in SUBSET refresh[k.arg].scopes
      BY ZenonT(40), <2>5 DEF Narrowed
    <2>8. Delegation' /\ DelegatedStays
      BY <1>0, <2>4, <2>5, <2>6, <2>7, RotatesToken
    <2>9. /\ UNCHANGED registry /\ grants' = grants
          /\ access' = [access EXCEPT
                          ![a] = Minted(refresh[k.arg].grant, s, k.secret)]
      BY <2>5 DEF StoreRotateOAuthRefreshToken
    <2> QED  BY ZenonT(40), <2>1, <2>2, <2>3, <2>4, <2>6, <2>8, <2>9, Minting
  <1>9. ASSUME NEW f, Ends(r), StoreRevokeOAuthRefreshFamily(f)
        PROVE  Secure'
    <2>1. f \in RefreshIDs
      <3>1. PICK t \in RefreshIDs : refresh[t] # Absent /\ refresh[t].family = f
        BY <1>9 DEF StoreRevokeOAuthRefreshFamily, Members
      <3> QED  BY <1>0, <3>1, References DEF Delegation
    <2>2. Delegation' /\ DelegatedStays
      BY <1>0, <1>9, <2>1, RevokesFamily
    <2>3. /\ UNCHANGED registry
          /\ \A a \in AccessIDs : access'[a] # Absent => access[a] # Absent
      BY <1>9 DEF StoreRevokeOAuthRefreshFamily
    <2> QED  BY <1>9, <2>2, <2>3, Revoking
  <1>10. CASE revokeOAuthRefreshFamily(r)
    BY <1>9, <1>10 DEF revokeOAuthRefreshFamily
  <1>11. CASE MachineCommits(r)
    <2>1. PICK k \in Calls : call[r] = k
      BY <1>0
    <2>2. k.pc = "mint" /\ k.op = "IssueOAuthClientCredentials" /\ Ends(r)
      BY <1>11, <2>1 DEF MachineCommits, At
    <2>3. k \in TokenCall /\ Fit(k)
      BY <2>1, <2>2, InFlight DEF TokenPCs
    <2>4. /\ k.arg \in Resources /\ k.client \in ClientIDs
          /\ clients[k.client] # Absent /\ clients[k.client].source = "pre"
          /\ k.arg \in clients[k.client].meta.machine
      BY <2>2, <2>3 DEF Fit, WellFormed, Presented, Listed, TokenCall
    <2>5. PICK m \in MachineIDs :
            StoreCreateOAuthClientAccessToken(m, k.client, k.arg)
      BY <1>11, <2>1 DEF MachineCommits
    <2>6. Tables' /\ Footing
      BY <1>0, <2>4, <2>5, MachineStep
    <2>7. /\ machines' = [machines EXCEPT ![m] = [st |-> "live",
                            client |-> k.client, resource |-> k.arg]]
          /\ clients' = clients /\ access' = access
      BY <2>5 DEF StoreCreateOAuthClientAccessToken, delegated
    <2>8. /\ machines'[m] = [st |-> "live", client |-> k.client,
                             resource |-> k.arg]
          /\ \A q \in MachineIDs \ {m} : machines'[q] = machines[q]
      BY <1>0, <2>7 DEF Tables, RegistryType
    <2>9. \A q \in MachineIDs : machines'[q] # Absent => Allowed(q)'
      <3>1. Allowed(m)'
        BY <2>4, <2>7, <2>8 DEF Allowed
      <3>2. ASSUME NEW q \in MachineIDs \ {m}, machines'[q] # Absent
            PROVE  Allowed(q)'
        <4>1. Allowed(q) /\ machines'[q] = machines[q]
          BY <2>8, <3>2 DEF Secure
        <4> QED BY <2>7, <4>1 DEF Allowed
      <3> QED BY <3>1, <3>2
    <2> QED  BY <2>2, <2>6, <2>7, <2>9, Ending
  <1>12. CASE RevokesToken(r)
    <2> DEFINE k == call[r]
    <2>1. k.pc = "revoke" /\ Ends(r)
      BY Zenon, <1>12 DEF RevokesToken, At
    <2>2. CASE k.arg \in AccessIDs /\ StoreRevokeOAuthAccessToken(k.arg)
      <3>1. Delegation' /\ DelegatedStays
        BY <1>0, <2>2, RevokesAccess
      <3>2. /\ UNCHANGED registry
            /\ \A a \in AccessIDs : access'[a] # Absent => access[a] # Absent
        BY <1>0, <2>2 DEF StoreRevokeOAuthAccessToken, Delegation,
                          DelegatedType
      <3> QED  BY <2>1, <3>1, <3>2, Revoking
    <2>3. CASE StoreRevokeOAuthRefreshFamily(refresh[k.arg].family)
      BY <1>9, <2>1, <2>3
    <2>4. CASE k.arg \in MachineIDs /\ StoreRevokeOAuthClientAccessToken(k.arg)
      <3>1. Tables' /\ Footing /\ MachinesStay
        BY <1>0, <2>4, MachineStep, MachineEnds
      <3>2. access' = access
        BY <2>4 DEF StoreRevokeOAuthClientAccessToken, delegated
      <3> QED  BY <2>1, <3>1, <3>2, Ending
    <2> QED  BY ZenonT(40), <1>12, <2>2, <2>3, <2>4 DEF RevokesToken
  <1> QED  BY <1>1, <1>2, <1>3, <1>4, <1>5, <1>6, <1>7, <1>8, <1>10, <1>11,
              <1>12 DEF TokenSteps

-----------------------------------------------------------------------------
(* Bearer validation and UserInfo.                                         *)

\* A bearer call on a token that exists, late or not.
LEMMA Bearing ==
    ASSUME Secure, NEW r \in Requests, Reads, NEW a \in AccessIDs,
           access[a] # Absent, NEW op, NEW pc, Bears(r, op, a, pc),
           \/ /\ op = "AuthenticateOAuthAccessToken" /\ pc = "bearer"
              /\ access[a].st = "live"
           \/ op = "OAuthUserInfo" /\ pc = "userinfo"
    PROVE  Secure'
  <1> DEFINE g == access[a].grant
             k == [pc |-> pc, op |-> op, client |-> grants[g].client,
                   secret |-> 0, arg |-> a, meta |-> None, cimd |-> FALSE,
                   late |-> Over(g)]
  <1>1. /\ g \in GrantIDs /\ grants[g] # Absent /\ grants[g] \in Grant
    BY Rows, References DEF Secure, Tables, Delegation, Integrity
  <1>2. Over(g) \in BOOLEAN
    BY DEF Over
  <1>3. /\ k \in TokenCall /\ k.pc = pc /\ k.op = op /\ k.arg = a
        /\ k.client = grants[g].client /\ k.late = Over(g)
    BY ZenonT(40), <1>1, <1>2 DEF TokenCall, TokenPCs, TokenOps, Args, Grant
  <1>4. call' = [call EXCEPT ![r] = k]
    BY DEF Bears
  <1> HIDE DEF k
  <1>5. GrantOf(k) = g
    BY <1>3 DEF GrantOf
  <1>6. pc \in Stages(op)
    BY StagesOf
  <1>7. Presented(k) /\ Informed(k) /\ Backed(k) /\ Listed(k)
    BY ZenonT(40), <1>3, <1>5 DEF Presented, Informed, Backed, Listed,
       Exchange, Rotation
  <1>8. Doomed(k)
    <2> SUFFICES ASSUME Over(g), access[a].st # "revoked"
                 PROVE  grants[g].st = "revoked"
      BY <1>3, <1>5 DEF Doomed
    <2>1. a \in Accesses(g)
      BY DEF Accesses
    <2> QED  BY <2>1 DEF Over, Secure, Tables, Delegation, TokensSound,
                         FamiliesDieWhole
  <1>9. Fit(k) /\ k \in Calls
    BY <1>3, <1>6, <1>7, <1>8 DEF Fit, WellFormed, Calls
  <1> QED  BY ZenonT(40), <1>4, <1>9, Reading DEF Reads, hostVars, Secure,
              Hosted

LEMMA BearerStep ==
    ASSUME Secure, NEW r \in Requests, BearerSteps(r)
    PROVE  Secure'
  <1> DEFINE k == call[r]
             g == GrantOf(k)
  <1>1. CASE AuthenticateOAuthAccessToken(r)
    <2>1. PICK a \in AccessIDs :
            /\ access[a].st = "live"
            /\ Bears(r, "AuthenticateOAuthAccessToken", a, "bearer")
      BY <1>1 DEF AuthenticateOAuthAccessToken
    <2>2. access[a] # Absent
      BY <2>1 DEF Absent
    <2> QED
      BY <1>1, <2>1, <2>2, Bearing DEF AuthenticateOAuthAccessToken
  <1>2. CASE OAuthUserInfo(r)
    <2>1. PICK a \in AccessIDs :
            access[a] # Absent /\ Bears(r, "OAuthUserInfo", a, "userinfo")
      BY <1>2 DEF OAuthUserInfo
    <2> QED  BY <1>2, <2>1, Bearing DEF OAuthUserInfo
  <1>3. CASE BearerReadsClient(r)
    <2> DEFINE meta == clients[k.client].meta
               n == [k EXCEPT !.pc = "grant", !.meta = meta]
    <2>1. /\ k.pc = "bearer" /\ ClientUp(k.client) /\ Reads
          /\ call' = [call EXCEPT ![r].pc = "grant", ![r].meta = meta]
      BY <1>3 DEF BearerReadsClient, At
    <2>2. /\ k \in TokenCall /\ Fit(k)
          /\ k.op = "AuthenticateOAuthAccessToken"
      BY <2>1, InFlight, OperationAt DEF TokenPCs
    <2>3. meta \in Metadata
      BY <2>1, <2>2, Registered DEF Secure, Tables, ClientUp, Client,
                                    TokenCall
    <2>4. call' = [call EXCEPT ![r] = n]
      BY Zenon, <2>1, <2>2 DEF Secure, Hosted, TokenCall
    <2> HIDE DEF k, meta
    <2>5. /\ n \in TokenCall /\ n.pc = "grant" /\ n.op = k.op
          /\ n.client = k.client /\ n.arg = k.arg /\ n.meta = meta
          /\ n.late = k.late
      BY ZenonT(40), <2>2, <2>3 DEF TokenCall, TokenPCs
    <2> HIDE DEF n
    <2>6. GrantOf(n) = GrantOf(k)
      BY <2>5 DEF GrantOf
    <2>7. "grant" \in Stages(k.op)
      BY <2>2, StagesOf DEF Checking
    <2>8. Presented(n) /\ Informed(n)
      BY <2>2, <2>3, <2>5, <2>6 DEF Fit, WellFormed, Presented, Informed
    <2>9. Backed(n) /\ Listed(n)
      BY <2>2, <2>5 DEF Backed, Listed, Exchange, Rotation
    <2>10. Doomed(n)
      <3>1. Doomed(k) /\ k.pc = "bearer"
        BY <2>1, <2>2 DEF Fit, k
      <3> QED  BY <2>2, <2>5, <2>6, <3>1 DEF Doomed
    <2>11. Fit(n) /\ n \in Calls
      BY <2>5, <2>7, <2>8, <2>9, <2>10 DEF Fit, WellFormed, Calls
    <2> QED
      BY Zenon, <2>1, <2>4, <2>11, Reading DEF Reads, hostVars, Secure, Hosted
  <1>4. ASSUME NEW pc \in {"subject", "user", "served"}, Goto(r, pc), Reads,
               k.pc \in {"userinfo", "subject", "user"},
               k.late => pc = "subject" /\ grants[g].st = "revoked"
        PROVE  Secure'
    <2>1. k \in TokenCall /\ Fit(k) /\ k.op = "OAuthUserInfo"
      BY <1>4, InFlight, OperationAt DEF TokenPCs
    <2> HIDE DEF k
    <2> DEFINE n == [k EXCEPT !.pc = pc]
    <2>2. pc \in TokenPCs /\ pc \in Stages(k.op)
      BY <2>1, StagesOf DEF TokenPCs
    <2>3. /\ n \in TokenCall /\ n.pc = pc /\ n.op = k.op /\ n.arg = k.arg
          /\ n.late = k.late
      BY <2>1, <2>2, Moved
    <2> HIDE DEF n
    <2>4. GrantOf(n) = g
      BY <2>3 DEF GrantOf
    <2>5. Informed(n) /\ Backed(n) /\ Listed(n)
      BY <2>1, <2>3 DEF Informed, Backed, Listed, Exchange, Rotation
    <2>6. Doomed(n)
      BY <1>4, <2>1, <2>3, <2>4 DEF Doomed
    <2> QED  BY <1>4, <2>1, <2>2, <2>5, <2>6, Goes DEF k, n
  <1>5. ASSUME k.pc \in {"userinfo", "subject", "user"}
        PROVE  k \in TokenCall /\ Doomed(k) /\ k.op = "OAuthUserInfo"
    BY ZenonT(40), <1>5, InFlight, OperationAt DEF TokenPCs, Fit
  <1>6. CASE UserInfoReadsToken(r)
    <2>1. /\ k.pc = "userinfo" /\ access[k.arg].st = "live"
          /\ Goto(r, "subject") /\ Reads
      BY <1>6 DEF UserInfoReadsToken, At
    <2>2. k.late => grants[g].st = "revoked"
      BY <1>5, <2>1 DEF Doomed
    <2> QED  BY <1>4, <2>1, <2>2
  <1>7. CASE UserInfoReadsGrant(r)
    <2>1. /\ k.pc = "subject" /\ grants[g].st = "live"
          /\ Goto(r, "user") /\ Reads
      BY <1>7 DEF UserInfoReadsGrant, At
    <2>2. ~k.late
      BY <1>5, <2>1 DEF Doomed
    <2> QED  BY <1>4, <2>1, <2>2
  <1>8. CASE UserInfoReadsUser(r)
    <2>1. k.pc = "user" /\ Goto(r, "served") /\ Reads
      BY <1>8 DEF UserInfoReadsUser, At
    <2>2. ~k.late
      BY <1>5, <2>1 DEF Doomed
    <2> QED  BY <1>4, <2>1, <2>2
  <1> QED  BY <1>1, <1>2, <1>3, <1>6, <1>7, <1>8 DEF BearerSteps
=============================================================================
