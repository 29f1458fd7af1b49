----------------------------- MODULE OAuthSafety ------------------------------
(***************************************************************************)
(* The safety properties of OAuth, proved for any sets of users, clients,  *)
(* grants, tokens and concurrent calls.  OAuthProofs has the inductive     *)
(* invariant Secure; here are the steps of registrations and of the        *)
(* administrators, the theorems, and the two that count rows: an initial   *)
(* access token admits no more registrations than its quota, and every     *)
(* access token answers to one code or one refresh token of its own.       *)
(***************************************************************************)
EXTENDS OAuthProofs, FiniteSetTheorems

-----------------------------------------------------------------------------
(* Registration and administration.                                        *)

LEMMA RegistrationStep ==
    ASSUME Secure, NEW r \in Requests, RegistrationSteps(r)
    PROVE  Secure'
  <1>0. Tables /\ call[r] \in Calls /\ mix \in Mixes
    BY DEF Secure, Hosted
  <1>1. CASE UpdateOAuthIssuer(r)
    <2>1. issuer \in Issuer
      BY <1>0, <1>1, Registered DEF UpdateOAuthIssuer, Tables
    <2>2. PICK p \in mix.policies :
            call' = [call EXCEPT ![r] =
                       [pc |-> "update", row |-> [issuer EXCEPT !.policy = p]]]
      BY Zenon, <1>1 DEF UpdateOAuthIssuer
    <2>3. p \in Policies
      BY <1>0, <2>2, MixAssumption
    <2> DEFINE k == [pc |-> "update", row |-> [issuer EXCEPT !.policy = p]]
    <2>4. k \in UpdateCall
      BY <2>1, <2>3 DEF UpdateCall, Issuer
    <2>5. k \in Calls /\ k \notin TokenCall
      BY <2>4 DEF Calls, TokenCall, TokenPCs
    <2> HIDE DEF k
    <2> QED  BY Zenon, <1>1, <2>2, <2>5, OtherCall DEF UpdateOAuthIssuer, k
  <1>2. CASE UpdateCommits(r)
    <2>1. call[r] \in UpdateCall
      BY <1>0, <1>2, Kinds DEF UpdateCommits, At
    <2>2. call[r].row \in Issuer /\ StoreUpdateOAuthIssuer(call[r].row)
      BY <1>2, <2>1 DEF UpdateCommits, UpdateCall
    <2>3. Tables' /\ Footing
      BY <1>0, <2>2, IssuerStep
    <2>4. access' = access /\ MachinesStay
      BY <2>2 DEF StoreUpdateOAuthIssuer, delegated, MachinesStay
    <2> QED  BY <1>2, <2>3, <2>4, Ending DEF UpdateCommits
  <1>3. CASE CreateOAuthInitialAccessToken(r)
    <2>1. PICK max \in 1..MaxQuota :
            call' = [call EXCEPT ![r] = [pc |-> "initial", max |-> max]]
      BY ZenonT(40), <1>3 DEF CreateOAuthInitialAccessToken
    <2>2. max \in Nat
      BY <2>1, BoundAssumption
    <2> DEFINE k == [pc |-> "initial", max |-> max]
    <2>3. k \in InitialCall
      BY <2>2 DEF InitialCall
    <2>4. k \in Calls /\ k \notin TokenCall
      BY <2>3 DEF Calls, TokenCall, TokenPCs
    <2> HIDE DEF k
    <2> QED  BY Zenon, <1>3, <2>1, <2>4, OtherCall
                DEF CreateOAuthInitialAccessToken, k
  <1>4. CASE InitialCommits(r)
    <2>1. call[r] \in InitialCall
      BY <1>0, <1>4, Kinds DEF InitialCommits, At
    <2>2. call[r].max \in Nat
      BY <2>1 DEF InitialCall
    <2>3. PICK i \in InitialIDs :
            StoreCreateOAuthInitialAccessToken(i, call[r].max)
      BY <1>4 DEF InitialCommits
    <2>4. Tables' /\ Footing
      BY <1>0, <2>2, <2>3, InitialStep
    <2>5. access' = access /\ MachinesStay
      BY <2>3 DEF StoreCreateOAuthInitialAccessToken, delegated, MachinesStay
    <2> QED  BY <1>4, <2>4, <2>5, Ending DEF InitialCommits
  <1>5. CASE RegisterOAuthClient(r)
    <2>1. PICK meta \in mix.metadata, pc \in {"register.token", "register.commit"},
               via \in InitialIDs \cup {None} :
            call' = [call EXCEPT ![r] =
                       [pc |-> pc, meta |-> meta, via |-> via]]
      BY <1>5 DEF RegisterOAuthClient
    <2>2. meta \in Metadata
      BY <1>0, <2>1, MixAssumption
    <2> DEFINE k == [pc |-> pc, meta |-> meta, via |-> via]
    <2>3. k \in RegisterCall
      BY <2>2 DEF RegisterCall
    <2>4. k \in Calls /\ k \notin TokenCall
      BY <2>3 DEF Calls, TokenCall, TokenPCs
    <2> HIDE DEF k
    <2> QED  BY ZenonT(40), <1>5, <2>1, <2>4, OtherCall
                DEF RegisterOAuthClient, k
  <1>6. CASE RegisterReadsToken(r)
    <2>1. call[r] \in RegisterCall /\ Goto(r, "register.commit") /\ Reads
      BY <1>0, <1>6, Kinds DEF RegisterReadsToken, At
    <2> DEFINE n == [call[r] EXCEPT !.pc = "register.commit"]
    <2>2. n \in RegisterCall /\ call' = [call EXCEPT ![r] = n]
      BY <2>1 DEF RegisterCall, Goto, Secure, Hosted
    <2>3. n \in Calls /\ n \notin TokenCall
      BY <2>2 DEF Calls, RegisterCall, TokenCall, TokenPCs
    <2> HIDE DEF n
    <2> QED  BY ZenonT(40), <2>1, <2>2, <2>3, OtherCall
  <1>7. CASE RegisterCommits(r)
    <2> DEFINE k == call[r]
    <2>1. k \in RegisterCall
      BY <1>0, <1>7, Kinds DEF RegisterCommits, At
    <2>2. k.meta \in Metadata /\ k.via \in InitialIDs \cup {None}
      BY <2>1 DEF RegisterCall
    <2>3. PICK c \in Fresh(mix.clients \ CIMDs, clients) :
            StoreCreateOAuthClient(c, "dcr", k.meta, k.via)
      BY <1>7 DEF RegisterCommits
    <2>4. c \in ClientIDs \ CIMDs
      BY <1>0, <2>3, FreshIds, MixAssumption
    <2> HIDE DEF k
    <2>5. Tables' /\ Footing
      BY <1>0, <2>2, <2>3, <2>4, CreatesClient
    <2>6. access' = access /\ MachinesStay
      BY <2>3 DEF StoreCreateOAuthClient, delegated, MachinesStay
    <2> QED  BY <1>7, <2>5, <2>6, Ending DEF RegisterCommits
  <1> QED  BY <1>1, <1>2, <1>3, <1>4, <1>5, <1>6, <1>7 DEF RegistrationSteps

\* A commit that is a step of its own.
LEMMA Administering ==
    ASSUME Secure, call' = call, mix' = mix, consents' = consents,
           standing' \in [Users -> Standing], Tables', Footing, MachinesStay,
           \A a \in AccessIDs : access'[a] # Absent => access[a] # Absent
    PROVE  Secure'
  <1>1. Hosted'
    BY DEF Secure, Hosted
  <1>2. \A q \in Requests, k \in TokenCall : call'[q] = k => Fit(k)'
    BY FitKept DEF Secure
  <1>3. \A a \in AccessIDs : access'[a] # Absent => Rests(a)'
    BY RestsKept DEF Secure
  <1>4. \A m \in MachineIDs : machines'[m] # Absent => Allowed(m)'
    BY AllowedKept DEF Secure, MachinesStay
  <1> QED  BY <1>1, <1>2, <1>3, <1>4 DEF Secure

LEMMA RevokingStep ==
    ASSUME Tables, UNCHANGED registry, NEW dead \in SUBSET Granted,
           revokeOAuthGrants(dead)
    PROVE  /\ Tables' /\ Footing /\ MachinesStay
           /\ \A a \in AccessIDs : access'[a] # Absent => access[a] # Absent
  <1>1. Delegation' /\ DelegatedStays
    BY RevokesGrants DEF Tables
  <1>2. Tables' /\ Footing
    BY <1>1, DelegatedStep
  <1> QED  BY <1>2 DEF MachinesStay, registry, revokeOAuthGrants

LEMMA AdminStep ==
    ASSUME Secure, AdminSteps
    PROVE  Secure'
  <1>0. /\ Tables /\ mix \in Mixes /\ standing \in [Users -> Standing]
    BY DEF Secure, Hosted
  <1>1. ASSUME Tables', Footing, MachinesStay, UNCHANGED <<hostVars, call>>,
               \A a \in AccessIDs : access'[a] # Absent => access[a] # Absent
        PROVE  Secure'
    BY <1>0, <1>1, Administering DEF hostVars
  <1>2. CASE CreateOAuthIssuer
    <2>1. PICK p \in mix.policies : StoreCreateOAuthIssuer(p)
      BY <1>2 DEF CreateOAuthIssuer
    <2>2. p \in Policies
      BY <1>0, <2>1, MixAssumption
    <2>3. Tables' /\ Footing
      BY <1>0, <2>1, <2>2, IssuerStep
    <2> QED
      BY <1>1, <1>2, <2>1, <2>3 DEF CreateOAuthIssuer, StoreCreateOAuthIssuer,
         delegated, MachinesStay
  <1>3. ASSUME NEW x \in Resources, CreateOAuthProtectedResource(x)
        PROVE  Secure'
    <2>1. StoreCreateOAuthProtectedResource(x) /\ UNCHANGED <<hostVars, call>>
      BY <1>3 DEF CreateOAuthProtectedResource
    <2>2. Tables' /\ Footing
      BY <1>0, <2>1, ResourceStep
    <2> QED
      BY <1>1, <2>1, <2>2 DEF StoreCreateOAuthProtectedResource, delegated,
         MachinesStay
  <1>4. ASSUME NEW c \in ClientIDs, PreRegisterOAuthClient(c)
        PROVE  Secure'
    <2>1. PICK meta \in mix.metadata :
            StoreCreateOAuthClient(c, "pre", meta, None)
      BY <1>4 DEF PreRegisterOAuthClient
    <2>2. meta \in Metadata /\ c \in ClientIDs \ CIMDs
          /\ UNCHANGED <<hostVars, call>>
      BY <1>0, <1>4, <2>1, MixAssumption DEF PreRegisterOAuthClient
    <2>3. Tables' /\ Footing
      BY <1>0, <2>1, <2>2, CreatesClient
    <2> QED
      BY <1>1, <2>1, <2>2, <2>3 DEF StoreCreateOAuthClient, delegated,
         MachinesStay
  <1>5. ASSUME NEW c \in ClientIDs, RotateOAuthClientSecret(c)
        PROVE  Secure'
    <2>1. StoreRotateSecret(c) /\ UNCHANGED <<hostVars, call>>
      BY <1>5 DEF RotateOAuthClientSecret
    <2>2. Tables' /\ Footing
      BY <1>0, <2>1, RotatesSecret
    <2> QED
      BY <1>1, <2>1, <2>2 DEF StoreRotateSecret, delegated, MachinesStay
  <1>6. ASSUME NEW c \in ClientIDs, ReplaceOAuthClientJWKS(c)
        PROVE  Secure'
    <2>1. PICK meta \in mix.metadata :
            /\ meta = [clients[c].meta EXCEPT !.key = meta.key]
            /\ StoreReplaceJWKS(c, meta)
      BY <1>6 DEF ReplaceOAuthClientJWKS
    <2>2. meta \in Metadata /\ clients[c] # Absent
          /\ UNCHANGED <<hostVars, call>>
      BY <1>0, <1>6, <2>1, MixAssumption DEF ReplaceOAuthClientJWKS
    <2>3. Tables' /\ Footing
      BY <1>0, <2>1, <2>2, ReplacesKeys
    <2>4. UNCHANGED <<machines, delegated>>
      BY <2>1 DEF StoreReplaceJWKS
    <2> QED  BY <1>1, <2>2, <2>3, <2>4 DEF delegated, MachinesStay
  <1>7. ASSUME NEW i \in InitialIDs, RevokeOAuthInitialAccessToken(i)
        PROVE  Secure'
    <2>1. /\ StoreRevokeOAuthInitialAccessToken(i)
          /\ UNCHANGED <<hostVars, call>>
      BY <1>7 DEF RevokeOAuthInitialAccessToken
    <2>2. Tables' /\ Footing
      BY <1>0, <2>1, InitialStep
    <2> QED
      BY <1>1, <2>1, <2>2 DEF StoreRevokeOAuthInitialAccessToken, delegated,
         MachinesStay
  <1>8. ASSUME NEW g \in GrantIDs, RevokeOAuthGrant(g)
        PROVE  Secure'
    <2>1. /\ UNCHANGED <<hostVars, call>> /\ UNCHANGED registry
          /\ revokeOAuthGrants({g}) /\ {g} \in SUBSET Granted
      BY <1>8 DEF RevokeOAuthGrant, StoreRevokeOAuthGrant, Granted
    <2> QED  BY <1>0, <1>1, <2>1, RevokingStep
  <1>9. ASSUME NEW u \in Users, RevokeUserCredentials(u)
        PROVE  Secure'
    <2> DEFINE dead == {g \in Granted : grants[g].user = u}
    <2>1. /\ UNCHANGED <<mix, consents, call>> /\ UNCHANGED registry
          /\ standing' \in [Users -> Standing]
          /\ revokeOAuthGrants(dead) /\ dead \in SUBSET Granted
      BY <1>0, <1>9 DEF RevokeUserCredentials, StoreRevokeUserGrants
    <2> HIDE DEF dead
    <2>2. /\ Tables' /\ Footing /\ MachinesStay
          /\ \A a \in AccessIDs : access'[a] # Absent => access[a] # Absent
      BY <1>0, <2>1, RevokingStep
    <2> QED  BY <2>1, <2>2, Administering
  <1>10. ASSUME NEW u \in Users, SetStanding(u)
         PROVE  Secure'
    <2>1. /\ UNCHANGED <<mix, consents, call>> /\ UNCHANGED storeVars
          /\ standing' \in [Users -> Standing]
      BY <1>0, <1>10 DEF SetStanding
    <2>2. Tables' /\ Footing /\ MachinesStay /\ access' = access
      BY <1>0, <2>1, SameTables
    <2> QED  BY <2>1, <2>2, Administering
  <1>11. ASSUME NEW disabled \in BOOLEAN, SetOAuthIssuerDisabled(disabled)
         PROVE  Secure'
    <2>1. /\ StoreSetOAuthIssuerDisabled(disabled)
          /\ UNCHANGED <<hostVars, call>>
      BY <1>11 DEF SetOAuthIssuerDisabled
    <2>2. Tables' /\ Footing
      BY <1>0, <2>1, DisablesIssuer
    <2> QED
      BY <1>1, <2>1, <2>2 DEF StoreSetOAuthIssuerDisabled, revokeOAuthGrants,
         MachinesStay
  <1>12. ASSUME NEW disabled \in BOOLEAN, NEW x \in Resources,
                SetOAuthProtectedResourceDisabled(x, disabled)
         PROVE  Secure'
    <2>1. /\ StoreSetOAuthProtectedResourceDisabled(x, disabled)
          /\ UNCHANGED <<hostVars, call>>
      BY <1>12 DEF SetOAuthProtectedResourceDisabled
    <2>2. Tables' /\ Footing
      BY <1>0, <2>1, DisablesResource
    <2> QED
      BY <1>1, <2>1, <2>2 DEF StoreSetOAuthProtectedResourceDisabled,
         revokeOAuthGrants, MachinesStay
  <1>13. ASSUME NEW disabled \in BOOLEAN, NEW c \in ClientIDs,
                SetOAuthClientDisabled(c, disabled)
         PROVE  Secure'
    <2>1. /\ StoreSetOAuthClientDisabled(c, disabled)
          /\ UNCHANGED <<hostVars, call>>
      BY <1>13 DEF SetOAuthClientDisabled
    <2>2. Tables' /\ Footing
      BY <1>0, <2>1, DisablesClient
    <2> QED
      BY <1>1, <2>1, <2>2 DEF StoreSetOAuthClientDisabled, revokeOAuthGrants,
         MachinesStay
  <1> QED  BY <1>2, <1>3, <1>4, <1>5, <1>6, <1>7, <1>8, <1>9, <1>10, <1>11,
              <1>12, <1>13 DEF AdminSteps

LEMMA LapseStep ==
    ASSUME Secure, Lapse
    PROVE  Secure'
  <1>0. /\ Tables /\ Delegation /\ UNCHANGED <<hostVars, call>>
        /\ standing' \in [Users -> Standing]
    BY DEF Secure, Hosted, Tables, Lapse, hostVars
  <1>1. ASSUME Tables', Footing, MachinesStay,
               \A a \in AccessIDs : access'[a] # Absent => access[a] # Absent
        PROVE  Secure'
    BY <1>0, <1>1, Administering DEF hostVars
  <1>2. CASE \/ \E g \in GrantIDs : CodeLapses(g)
             \/ \E a \in AccessIDs : AccessLapses(a)
             \/ \E t \in RefreshIDs : RefreshLapses(t)
    <2>1. Delegation' /\ DelegatedStays
      BY <1>0, <1>2, TokensLapse
    <2>2. UNCHANGED registry
      BY <1>2 DEF CodeLapses, AccessLapses, RefreshLapses
    <2>3. \A a \in AccessIDs : access'[a] # Absent => access[a] # Absent
      <3>1. CASE \E a \in AccessIDs : AccessLapses(a)
        <4>1. PICK b \in AccessIDs : AccessLapses(b)
          BY <3>1
        <4>2. access[b] # Absent
              /\ \A a \in AccessIDs \ {b} : access'[a] = access[a]
          BY <1>0, <4>1 DEF AccessLapses, Absent, Delegation, DelegatedType
        <4> QED  BY <4>2
      <3>2. CASE ~(\E a \in AccessIDs : AccessLapses(a))
        <4>1. access' = access
          BY <1>2, <3>2 DEF CodeLapses, RefreshLapses
        <4> QED  BY <4>1
      <3> QED  BY <3>1, <3>2
    <2>4. Tables' /\ Footing /\ MachinesStay
      BY <1>0, <2>1, <2>2, DelegatedStep DEF MachinesStay, registry
    <2> QED  BY <1>1, <2>3, <2>4
  <1>3. ASSUME NEW m \in MachineIDs, MachineLapses(m)
        PROVE  Secure'
    <2>1. Tables' /\ Footing /\ MachinesStay
      BY <1>0, <1>3, MachineStep, MachineEnds
    <2> QED  BY <1>1, <1>3, <2>1 DEF MachineLapses, delegated
  <1>4. ASSUME NEW i \in InitialIDs, InitialLapses(i)
        PROVE  Secure'
    <2>1. Tables' /\ Footing
      BY <1>0, <1>4, InitialStep
    <2> QED  BY <1>1, <1>4, <2>1 DEF InitialLapses, delegated, MachinesStay
  <1>5. ASSUME NEW c \in ClientIDs, MetadataLapses(c)
        PROVE  Secure'
    <2>1. Tables' /\ Footing
      BY <1>0, <1>5, MetadataStale
    <2> QED  BY <1>1, <1>5, <2>1 DEF MetadataLapses, delegated, MachinesStay
  <1> QED  BY <1>2, <1>3, <1>4, <1>5 DEF Lapse

-----------------------------------------------------------------------------
(* The invariant.                                                          *)

LEMMA NoTokenCall == Idle \notin TokenCall
  BY DEF Idle, TokenCall

LEMMA SecureInitially ==
    ASSUME Init
    PROVE  Secure
  <1> USE DEF Init, StoreInit
  <1>1. DelegatedType /\ RegistryType /\ Integrity /\ ClientsSound
    BY ZenonT(40) DEF DelegatedType, RegistryType, Integrity, ClientsSound
  <1>2. TokensSound
    <2>1. \A t \in RefreshIDs : refresh[t] = Absent /\ refresh[t].st # "revoked"
      BY DEF Absent
    <2> QED  BY Zenon, <2>1 DEF TokensSound, OneLiveRefresh, FamiliesDieWhole,
                         ScopesOnlyNarrow
  <1>3. Hosted
    BY DEF Hosted, Standing, Calls
  <1>4. Idle \notin TokenCall
    BY NoTokenCall
  <1> QED  BY <1>1, <1>2, <1>3, <1>4 DEF Secure, Tables, Delegation

LEMMA SecureStep ==
    ASSUME Secure, [Next]_vars
    PROVE  Secure'
  <1>1. ASSUME NEW r \in Requests, ClientSteps(r)
        PROVE  Secure'
    <2>1. CASE ReadsClient(r) \/ NeedsMetadata(r)
      BY <2>1, ClientRead
    <2>2. CASE ResolvesMetadata(r)
      BY <2>2, MetadataResolved
    <2>3. CASE ValidateOAuthAuthorizationRedirect(r)
      <3> DEFINE op == "ValidateOAuthAuthorizationRedirect"
      <3>1. "client" \in Stages(op) /\ op \in TokenOps
            /\ op \notin Bearer /\ op # Exchange /\ op # Rotation
            /\ op # "BeginOAuthAuthorization"
            /\ op # "IssueOAuthClientCredentials"
        BY StagesOf DEF Resolving, TokenOps, Exchange, Rotation, Bearer
      <3>2. Presents(r, op, {None}) /\ {None} \subseteq Args
        BY <2>3 DEF ValidateOAuthAuthorizationRedirect, Args
      <3> QED  BY <3>1, <3>2, Presenting
    <2> QED  BY <1>1, <2>1, <2>2, <2>3 DEF ClientSteps
  <1>2. ASSUME NEW r \in Requests, Refused(r)
        PROVE  Secure'
    BY <1>2, IdleReading DEF Refused, hostVars, Secure, Hosted
  <1>3. CASE UNCHANGED vars
    <2>1. UNCHANGED storeVars /\ UNCHANGED <<mix, standing, consents, call>>
      BY <1>3 DEF vars, hostVars
    <2>2. Tables' /\ Footing /\ MachinesStay /\ access' = access
      BY <2>1, SameTables DEF Secure
    <2> QED  BY Zenon, <2>1, <2>2, Administering DEF Secure, Hosted
  <1> QED  BY <1>1, <1>2, <1>3, ConsentStep, GrantStep, TokenStep, BearerStep,
              RegistrationStep, AdminStep, LapseStep DEF Next

\* Every reachable state: tables that refer to rows there are, sound
\* refresh-token families, and calls in flight that are fit for their step.
THEOREM AlwaysSecure == Spec => []Secure
  BY SecureInitially, SecureStep, PTL DEF Spec

-----------------------------------------------------------------------------
(* What follows.                                                           *)

\* The tables, the host's continuations and the calls keep their types.
THEOREM TypesHold == Spec => []TypeOK
  <1>1. Secure => TypeOK
    BY DEF Secure, Tables, Delegation, DelegatedType, RegistryType, Hosted,
           Calls, TypeOK, StoreTypeOK
  <1> QED  BY <1>1, AlwaysSecure, PTL

\* RotateOAuthRefreshToken: the refresh tokens of a grant are one family and
\* at most one of them can still be rotated, however many calls race.
THEOREM OneLiveRefreshHolds == Spec => []OneLiveRefresh
  <1>1. Secure => OneLiveRefresh
    BY DEF Secure, Tables, Delegation, TokensSound
  <1> QED  BY <1>1, AlwaysSecure, PTL

\* RevokeOAuthRefreshFamily: no call in flight leaves a usable token behind
\* in a family that was revoked.
THEOREM FamiliesDieWholeHolds == Spec => []FamiliesDieWhole
  <1>1. Secure => FamiliesDieWhole
    BY DEF Secure, Tables, Delegation, TokensSound
  <1> QED  BY <1>1, AlwaysSecure, PTL

\* RefreshOAuthToken: scopes never widen along a family, nor beyond what
\* the user consented to.
THEOREM ScopesOnlyNarrowHolds == Spec => []ScopesOnlyNarrow
  <1>1. Secure => ScopesOnlyNarrow
    BY DEF Secure, Tables, Delegation, TokensSound
  <1> QED  BY <1>1, AlwaysSecure, PTL

\* SetOAuthClientDisabled and SetOAuthProtectedResourceDisabled: an access
\* token under a live grant has its client and its resource enabled.
THEOREM DisablingRevokesHolds == Spec => []DisablingRevokes
  <1>1. Secure => DisablingRevokes
    BY Zenon DEF Secure, Rests, DisablingRevokes
  <1> QED  BY <1>1, AlwaysSecure, PTL

LEMMA Ordered == \A x, y \in Nat : x >= y => ~(x < y)
  OBVIOUS

\* RotateOAuthClientSecret: nothing minted with a secret that was replaced
\* while the client was disabled is under a live grant.
THEOREM RunbookEndsOldSecretHolds == Spec => []RunbookEndsOldSecret
  <1>1. ASSUME Secure PROVE RunbookEndsOldSecret
    <2> SUFFICES ASSUME NEW a \in AccessIDs, access[a] # Absent,
                        ~(grants[access[a].grant].st = "revoked")
                 PROVE  ~(access[a].secret
                            < clients[grants[access[a].grant].client].burnt)
      BY DEF RunbookEndsOldSecret
    <2> DEFINE c == grants[access[a].grant].client
    <2>1. ClientUp(c) /\ access[a].secret >= clients[c].burnt
      BY <1>1 DEF Secure, Rests
    <2>2. /\ access[a] \in Access /\ access[a].grant \in GrantIDs
          /\ grants[access[a].grant] \in Grant
      BY ZenonT(40), <1>1, Rows, References DEF Secure, Tables, Delegation,
         Integrity
    <2>3. access[a].secret \in Nat /\ c \in ClientIDs
      BY ZenonT(40), <2>2 DEF Access, Grant
    <2>4. clients[c].burnt \in Nat
      BY ZenonT(40), <1>1, <2>1, <2>3, Registered DEF Secure, Tables,
         ClientUp, Client
    <2> QED  BY <2>1, <2>3, <2>4, Ordered, Zenon
  <1> QED  BY <1>1, AlwaysSecure, PTL

\* AuthenticateOAuthAccessToken and OAuthUserInfo: a call that began after
\* its grant or the grant's family was revoked is not answered.
THEOREM EndedGrantsAnswerNothingHolds == Spec => []EndedGrantsAnswerNothing
  <1>1. ASSUME Secure PROVE EndedGrantsAnswerNothing
    <2> SUFFICES ASSUME NEW r \in Requests, call[r].pc = "served"
                 PROVE  ~call[r].late
      BY Zenon DEF EndedGrantsAnswerNothing
    <2>1. call[r] \in TokenCall /\ Fit(call[r])
      BY <1>1, InFlight DEF TokenPCs
    <2> QED  BY ZenonT(40), <2>1 DEF Fit, Doomed
  <1> QED  BY <1>1, AlwaysSecure, PTL

\* IssueOAuthClientCredentials: a token without a user is held by a client an
\* administrator registered, for a resource on its allowlist.
THEOREM MachineTokensAllowlistedHolds == Spec => []MachineTokensAllowlisted
  <1>1. Secure => MachineTokensAllowlisted
    BY DEF Secure, Allowed, MachineTokensAllowlisted
  <1> QED  BY <1>1, AlwaysSecure, PTL

-----------------------------------------------------------------------------
(* Rows that are counted.                                                  *)

\* Registrations through an initial access token.
Through(i) == {c \in ClientIDs : clients[c] # Absent /\ clients[c].via = i}

Counted ==
    /\ \A i \in InitialIDs :
         /\ IsFiniteSet(Through(i))
         /\ initials[i] = Absent => Through(i) = {}
         /\ initials[i] # Absent =>
              /\ Cardinality(Through(i)) = initials[i].count
              /\ initials[i].count <= initials[i].max
    /\ \A c \in CIMDs : clients[c] # Absent => clients[c].via = None

\* The refresh tokens of a grant that were replaced.
Replaced(g) == {t \in Refreshes(g) : refresh[t].next # None}

Accounted ==
    /\ \A g \in Granted :
         /\ IsFiniteSet(Accesses(g)) /\ IsFiniteSet(Replaced(g))
         /\ Cardinality(Accesses(g)) =
              IF codes[g].st # "used" THEN 0 ELSE 1 + Cardinality(Replaced(g))
    /\ \A t \in RefreshIDs : refresh[t].st = "open" => refresh[t].next = None

-----------------------------------------------------------------------------
(* Steps that register nothing.                                            *)

Unregistered ==
    /\ \A c \in ClientIDs : /\ clients'[c] = Absent <=> clients[c] = Absent
                            /\ clients[c] # Absent =>
                                 clients'[c].via = clients[c].via
    /\ \A i \in InitialIDs : /\ initials'[i] = Absent <=> initials[i] = Absent
                             /\ initials[i] # Absent =>
                                  /\ initials'[i].count = initials[i].count
                                  /\ initials'[i].max = initials[i].max

LEMMA StillCounted ==
    ASSUME Counted, Unregistered
    PROVE  Counted'
  <1>1. \A i \in InitialIDs : Through(i)' = Through(i)
    BY DEF Unregistered, Through
  <1>2. \A c \in CIMDs : clients'[c] # Absent => clients'[c].via = None
    BY CIMDAssumption DEF Unregistered, Counted
  <1> QED  BY <1>1, <1>2 DEF Counted, Unregistered

LEMMA SameRegistry ==
    ASSUME clients' = clients, initials' = initials
    PROVE  Unregistered
  BY DEF Unregistered

\* A client record is rewritten in place.
LEMMA ClientChanges ==
    ASSUME Tables, initials' = initials, NEW c \in ClientIDs,
           \/ \E disabled \in BOOLEAN : StoreSetOAuthClientDisabled(c, disabled)
           \/ StoreRotateSecret(c)
           \/ \E meta \in Metadata : StoreReplaceJWKS(c, meta)
           \/ MetadataLapses(c)
    PROVE  Unregistered
  <1>1. clients[c] # Absent /\ clients[c] \in Client
    BY Registered DEF Tables, StoreSetOAuthClientDisabled, StoreRotateSecret,
                      StoreReplaceJWKS, MetadataLapses
  <1>2. /\ clients'[c] # Absent /\ clients'[c].via = clients[c].via
        /\ \A d \in ClientIDs \ {c} : clients'[d] = clients[d]
    <2>1. CASE \E disabled \in BOOLEAN :
                 StoreSetOAuthClientDisabled(c, disabled)
      BY <1>1, <2>1 DEF StoreSetOAuthClientDisabled, Tables, RegistryType,
                        Client, Absent
    <2>2. CASE StoreRotateSecret(c)
      BY Zenon, <1>1, <2>2 DEF StoreRotateSecret, Tables, RegistryType, Client,
                        Switch, Absent
    <2>3. CASE \E meta \in Metadata : StoreReplaceJWKS(c, meta)
      BY <1>1, <2>3 DEF StoreReplaceJWKS, Tables, RegistryType, Client,
                        Switch, Absent
    <2>4. CASE MetadataLapses(c)
      BY <1>1, <2>4 DEF MetadataLapses, Tables, RegistryType, Client,
                        Switch, Absent
    <2> QED  BY <2>1, <2>2, <2>3, <2>4
  <1> QED  BY <1>1, <1>2 DEF Unregistered

\* An initial access token ends.
LEMMA InitialEnds ==
    ASSUME Tables, NEW i \in InitialIDs,
           StoreRevokeOAuthInitialAccessToken(i) \/ InitialLapses(i)
    PROVE  Unregistered
  <1>1. initials[i] # Absent /\ initials[i] \in Initial
    BY Registered DEF Tables, StoreRevokeOAuthInitialAccessToken,
                      InitialLapses, Absent
  <1>2. /\ initials'[i] # Absent /\ initials'[i].count = initials[i].count
        /\ initials'[i].max = initials[i].max /\ clients' = clients
        /\ \A j \in InitialIDs \ {i} : initials'[j] = initials[j]
    BY <1>1 DEF StoreRevokeOAuthInitialAccessToken, InitialLapses, Tables,
                RegistryType, Initial, Absent
  <1> QED  BY <1>1, <1>2 DEF Unregistered

-----------------------------------------------------------------------------
(* Steps that do.                                                          *)

LEMMA UpsertCounted ==
    ASSUME Tables, Counted, NEW c \in CIMDs, NEW meta \in Metadata, NEW found,
           StoreUpsertOAuthCIMDClient(c, meta, found)
    PROVE  Counted'
  <1>1. /\ c \in ClientIDs /\ initials' = initials
        /\ clients' = [clients EXCEPT ![c] = NewClient("cimd", meta, None)]
    BY CIMDAssumption DEF StoreUpsertOAuthCIMDClient
  <1>2. /\ clients'[c] # Absent /\ clients'[c].via = None
        /\ \A d \in ClientIDs \ {c} : clients'[d] = clients[d]
    BY <1>1 DEF NewClient, Tables, RegistryType, Absent
  <1>3. \A i \in InitialIDs : c \notin Through(i) /\ c \notin Through(i)'
    BY <1>2, NoneAssumption DEF Through, Counted
  <1>4. \A i \in InitialIDs : Through(i)' = Through(i)
    BY <1>2, <1>3 DEF Through
  <1>5. \A d \in CIMDs : clients'[d] # Absent => clients'[d].via = None
    BY <1>1, <1>2, CIMDAssumption DEF Counted
  <1> QED  BY <1>1, <1>4, <1>5 DEF Counted

LEMMA RegistrationCounted ==
    ASSUME Tables, Counted, NEW c \in ClientIDs \ CIMDs, NEW source,
           NEW meta, NEW via \in InitialIDs \cup {None},
           StoreCreateOAuthClient(c, source, meta, via)
    PROVE  Counted'
  <1>1. /\ clients[c] = Absent
        /\ clients' = [clients EXCEPT ![c] = NewClient(source, meta, via)]
        /\ initials' = IF via = None THEN initials
                       ELSE [initials EXCEPT ![via].count = @ + 1]
        /\ via # None => /\ initials[via].st = "open"
                         /\ initials[via].count < initials[via].max
    BY DEF StoreCreateOAuthClient, WithinQuota, Usable
  <1>2. /\ clients'[c] # Absent /\ clients'[c].via = via
        /\ \A d \in ClientIDs \ {c} : clients'[d] = clients[d]
    BY <1>1 DEF NewClient, Tables, RegistryType, Absent
  <1>3. \A i \in InitialIDs :
          Through(i)' = IF i = via THEN Through(i) \cup {c} ELSE Through(i)
    BY <1>1, <1>2 DEF Through
  <1>4. \A i \in InitialIDs : c \notin Through(i)
    BY <1>1 DEF Through
  <1>5. \A d \in CIMDs : clients'[d] # Absent => clients'[d].via = None
    BY <1>1, <1>2, CIMDAssumption DEF Counted
  <1>6. CASE via = None
    BY <1>1, <1>3, <1>5, <1>6, NoneAssumption DEF Counted
  <1>7. CASE via # None
    <2>1. via \in InitialIDs /\ initials[via] # Absent
          /\ initials[via] \in Initial
      BY <1>1, <1>7, Registered DEF Tables, Absent
    <2>2. /\ initials'[via] # Absent
          /\ initials'[via].count = initials[via].count + 1
          /\ initials'[via].max = initials[via].max
          /\ \A j \in InitialIDs \ {via} : initials'[j] = initials[j]
      BY <1>1, <1>7, <2>1 DEF Tables, RegistryType, Initial, Absent
    <2>3. /\ IsFiniteSet(Through(via) \cup {c})
          /\ Cardinality(Through(via) \cup {c}) = Cardinality(Through(via)) + 1
      BY Zenon, <1>4, <2>1, FS_AddElement DEF Counted
    <2>4. /\ initials[via].count \in Nat /\ initials[via].max \in Nat
      BY <2>1 DEF Initial
    <2>5. initials'[via].count <= initials'[via].max
      BY <1>1, <1>7, <2>2, <2>4
    <2> QED  BY Zenon, <1>3, <1>5, <2>1, <2>2, <2>3, <2>5 DEF Counted
  <1> QED  BY <1>6, <1>7

LEMMA InitialCounted ==
    ASSUME Tables, Counted, NEW i \in InitialIDs, NEW max \in Nat,
           StoreCreateOAuthInitialAccessToken(i, max)
    PROVE  Counted'
  <1>1. /\ initials[i] = Absent /\ clients' = clients
        /\ initials' = [initials EXCEPT ![i] = [st |-> "open", max |-> max,
                                                count |-> 0]]
    BY DEF StoreCreateOAuthInitialAccessToken
  <1>2. /\ initials'[i] # Absent /\ initials'[i].count = 0
        /\ initials'[i].max = max
        /\ \A j \in InitialIDs \ {i} : initials'[j] = initials[j]
    BY <1>1 DEF Tables, RegistryType, Absent
  <1>3. \A j \in InitialIDs : Through(j)' = Through(j)
    BY <1>1 DEF Through
  <1>4. /\ Through(i) = {} /\ IsFiniteSet(Through(i))
        /\ Cardinality(Through(i)) = 0
    BY <1>1, FS_EmptySet DEF Counted
  <1>5. \A j \in InitialIDs :
          /\ IsFiniteSet(Through(j)')
          /\ initials'[j] = Absent => Through(j)' = {}
          /\ initials'[j] # Absent =>
               /\ Cardinality(Through(j)') = initials'[j].count
               /\ initials'[j].count <= initials'[j].max
    <2> TAKE j \in InitialIDs
    <2>1. CASE j = i
      BY <1>2, <1>3, <1>4, <2>1
    <2>2. CASE j # i
      BY <1>2, <1>3, <2>2 DEF Counted
    <2> QED  BY <2>1, <2>2
  <1> QED  BY <1>1, <1>5 DEF Counted

-----------------------------------------------------------------------------
(* Steps that mint nothing.                                                *)

Unminted ==
    /\ \A a \in AccessIDs : /\ access'[a] = Absent <=> access[a] = Absent
                            /\ access[a] # Absent =>
                                 access'[a].grant = access[a].grant
    /\ \A t \in RefreshIDs : /\ refresh'[t] = Absent <=> refresh[t] = Absent
                             /\ refresh[t] # Absent =>
                                  /\ refresh'[t].grant = refresh[t].grant
                                  /\ refresh'[t].next = refresh[t].next
                             /\ refresh'[t].st = "open" =>
                                  refresh[t].st = "open"
    /\ \A g \in GrantIDs :
         grants'[g] # Absent =>
           IF grants[g] = Absent THEN codes'[g].st # "used"
           ELSE codes'[g].st = "used" <=> codes[g].st = "used"

LEMMA StillAccounted ==
    ASSUME Delegation, Accounted, Unminted
    PROVE  Accounted'
  <1>1. \A g \in GrantIDs :
          Accesses(g)' = Accesses(g) /\ Refreshes(g)' = Refreshes(g)
    BY DEF Unminted, Accesses, Refreshes
  <1>2. \A g \in GrantIDs : Replaced(g)' = Replaced(g)
    BY <1>1 DEF Unminted, Replaced, Refreshes
  <1>3. ASSUME NEW g \in Granted'
        PROVE  /\ IsFiniteSet(Accesses(g)) /\ IsFiniteSet(Replaced(g))
               /\ Cardinality(Accesses(g)) =
                    IF codes'[g].st # "used" THEN 0
                    ELSE 1 + Cardinality(Replaced(g))
    <2>1. CASE grants[g] = Absent
      <3>1. Accesses(g) = {} /\ Replaced(g) = {}
        BY <2>1 DEF Accesses, Replaced, Refreshes, Delegation, Integrity
      <3>2. codes'[g].st # "used"
        BY <1>3, <2>1 DEF Unminted, Granted
      <3> QED  BY <3>1, <3>2, FS_EmptySet
    <2>2. CASE grants[g] # Absent
      BY <1>3, <2>2 DEF Unminted, Granted, Accounted
    <2> QED  BY <2>1, <2>2
  <1>4. \A t \in RefreshIDs : refresh'[t].st = "open" => refresh'[t].next = None
    BY DEF Unminted, Accounted, Absent
  <1>5. \A g \in Granted' : g \in GrantIDs
    BY DEF Granted
  <1> QED  BY <1>1, <1>2, <1>3, <1>4, <1>5 DEF Accounted

LEMMA SameTokens ==
    ASSUME UNCHANGED delegated
    PROVE  Unminted
  BY DEF Unminted, delegated

LEMMA RevokingMintsNothing ==
    ASSUME Delegation, NEW dead \in SUBSET Granted, revokeOAuthGrants(dead)
    PROVE  Unminted
  <1> USE DEF Delegation
  <1>1. \A a \in AccessIDs : /\ access'[a] = Absent <=> access[a] = Absent
                             /\ access[a] # Absent =>
                                  access'[a].grant = access[a].grant
    BY Rows DEF revokeOAuthGrants, Access, Absent
  <1>2. \A t \in RefreshIDs : /\ refresh'[t] = Absent <=> refresh[t] = Absent
                              /\ refresh[t] # Absent =>
                                   /\ refresh'[t].grant = refresh[t].grant
                                   /\ refresh'[t].next = refresh[t].next
                              /\ refresh'[t].st = "open" =>
                                   refresh[t].st = "open"
    BY Rows DEF revokeOAuthGrants, Refresh, Absent
  <1>3. \A g \in GrantIDs : grants[g] = Absent => grants'[g] = Absent
    BY DEF revokeOAuthGrants, Granted
  <1>4. codes' = codes
    BY DEF revokeOAuthGrants
  <1> QED  BY <1>1, <1>2, <1>3, <1>4 DEF Unminted

\* The other transactions on these tables.
LEMMA TokensOnlyEnd ==
    ASSUME Delegation,
           \/ \E a \in AccessIDs :
                StoreRevokeOAuthAccessToken(a) \/ AccessLapses(a)
           \/ \E t \in RefreshIDs : RefreshLapses(t)
           \/ \E g \in GrantIDs : CodeLapses(g)
           \/ \E f : StoreRevokeOAuthRefreshFamily(f)
           \/ \E g \in GrantIDs, row \in Grant :
                StoreCreateOAuthGrantAndCode(g, row)
    PROVE  Unminted
  <1> USE DEF Delegation
  <1>1. ASSUME NEW a \in AccessIDs,
               StoreRevokeOAuthAccessToken(a) \/ AccessLapses(a)
        PROVE  Unminted
    <2>1. access[a] \in Access
      BY <1>1, Rows DEF StoreRevokeOAuthAccessToken, AccessLapses, Absent
    <2>2. /\ access'[a] # Absent /\ access'[a].grant = access[a].grant
          /\ access[a] # Absent
          /\ \A b \in AccessIDs \ {a} : access'[b] = access[b]
      BY <1>1, <2>1 DEF StoreRevokeOAuthAccessToken, AccessLapses, Access,
                        DelegatedType, Absent
    <2>3. grants' = grants /\ codes' = codes /\ refresh' = refresh
      BY <1>1 DEF StoreRevokeOAuthAccessToken, AccessLapses
    <2> QED  BY <2>2, <2>3 DEF Unminted
  <1>2. ASSUME NEW t \in RefreshIDs, RefreshLapses(t)
        PROVE  Unminted
    <2>1. refresh[t] \in Refresh
      BY <1>2, Rows DEF RefreshLapses, Absent
    <2>2. /\ refresh'[t] # Absent /\ refresh'[t].grant = refresh[t].grant
          /\ refresh'[t].next = refresh[t].next /\ refresh[t] # Absent
          /\ refresh[t].st = "open"
          /\ \A u \in RefreshIDs \ {t} : refresh'[u] = refresh[u]
      BY <1>2, <2>1 DEF RefreshLapses, Refresh, DelegatedType, Absent
    <2>3. grants' = grants /\ codes' = codes /\ access' = access
      BY <1>2 DEF RefreshLapses
    <2> QED  BY <2>2, <2>3 DEF Unminted
  <1>3. ASSUME NEW g \in GrantIDs, CodeLapses(g)
        PROVE  Unminted
    <2>1. codes[g] \in Code
      BY <1>3, Rows DEF CodeLapses, Absent
    <2>2. /\ codes'[g].st # "used" /\ codes[g].st # "used"
          /\ \A h \in GrantIDs \ {g} : codes'[h] = codes[h]
      BY <1>3, <2>1 DEF CodeLapses, Code, DelegatedType
    <2>3. grants' = grants /\ refresh' = refresh /\ access' = access
      BY <1>3 DEF CodeLapses
    <2> QED  BY <2>2, <2>3 DEF Unminted
  <1>4. ASSUME NEW f, StoreRevokeOAuthRefreshFamily(f)
        PROVE  Unminted
    <2>1. \A a \in AccessIDs : /\ access'[a] = Absent <=> access[a] = Absent
                               /\ access[a] # Absent =>
                                    access'[a].grant = access[a].grant
      BY <1>4, Rows DEF StoreRevokeOAuthRefreshFamily, Access, Absent
    <2>2. \A t \in RefreshIDs : /\ refresh'[t] = Absent <=> refresh[t] = Absent
                                /\ refresh[t] # Absent =>
                                     /\ refresh'[t].grant = refresh[t].grant
                                     /\ refresh'[t].next = refresh[t].next
                                /\ refresh'[t].st = "open" =>
                                     refresh[t].st = "open"
      BY <1>4, Rows DEF StoreRevokeOAuthRefreshFamily, Members, Refresh, Absent
    <2>3. grants' = grants /\ codes' = codes
      BY <1>4 DEF StoreRevokeOAuthRefreshFamily
    <2> QED  BY <2>1, <2>2, <2>3 DEF Unminted
  <1>5. ASSUME NEW g \in GrantIDs, NEW row \in Grant,
               StoreCreateOAuthGrantAndCode(g, row)
        PROVE  Unminted
    <2>1. /\ grants[g] = Absent /\ codes'[g].st # "used"
          /\ \A h \in GrantIDs \ {g} : grants'[h] = grants[h]
                                       /\ codes'[h] = codes[h]
          /\ access' = access /\ refresh' = refresh
      BY <1>5 DEF StoreCreateOAuthGrantAndCode, DelegatedType
    <2> QED  BY <2>1 DEF Unminted
  <1> QED  BY <1>1, <1>2, <1>3, <1>4, <1>5

-----------------------------------------------------------------------------
(* Steps that mint.                                                        *)

LEMMA ExchangeAccounted ==
    ASSUME Delegation, Accounted, NEW g \in GrantIDs, grants[g] # Absent,
           NEW a \in AccessIDs, NEW offline \in BOOLEAN, NEW t,
           offline => t \in RefreshIDs, NEW scopes, NEW secret,
           StoreConsumeOAuthAuthorizationCode(g, a, offline, t, scopes, secret)
    PROVE  Accounted'
  <1> USE DEF Delegation
  <1>0. /\ codes[g].st = "open" /\ access[a] = Absent /\ grants' = grants
        /\ offline => refresh[t] = Absent
    BY DEF StoreConsumeOAuthAuthorizationCode, Redeemable
  <1>1. /\ codes'[g].st = "used"
        /\ \A h \in GrantIDs \ {g} : codes'[h] = codes[h]
    <2>1. codes[g] \in Code
      BY Rows DEF Integrity
    <2> QED  BY <2>1 DEF StoreConsumeOAuthAuthorizationCode, Code,
                         DelegatedType
  <1>2. /\ access'[a] # Absent /\ access'[a].grant = g
        /\ \A b \in AccessIDs \ {a} : access'[b] = access[b]
    BY DEF StoreConsumeOAuthAuthorizationCode, Minted, DelegatedType, Absent
  <1>3. \A u \in RefreshIDs :
          \/ refresh'[u] = refresh[u]
          \/ refresh[u] = Absent /\ refresh'[u].next = None
    <2>1. CASE offline
      <3>1. /\ refresh' = [refresh EXCEPT ![t] = FirstRefresh(g, t, scopes)]
            /\ t \in RefreshIDs
        BY <2>1 DEF StoreConsumeOAuthAuthorizationCode
      <3>2. /\ refresh'[t].next = None
            /\ \A u \in RefreshIDs \ {t} : refresh'[u] = refresh[u]
        BY <3>1 DEF FirstRefresh, DelegatedType
      <3> QED  BY <1>0, <2>1, <3>2
    <2>2. CASE ~offline
      BY <2>2 DEF StoreConsumeOAuthAuthorizationCode
    <2> QED  BY <2>1, <2>2
  <1>4. Accesses(g) = {} /\ Replaced(g) = {}
    BY <1>0 DEF Accesses, Replaced, Refreshes, Integrity
  <1>5. /\ Accesses(g)' = {a}
        /\ \A h \in GrantIDs \ {g} : Accesses(h)' = Accesses(h)
    BY <1>0, <1>2, <1>4 DEF Accesses
  <1>6. \A h \in GrantIDs : Replaced(h)' = Replaced(h)
    BY <1>3 DEF Replaced, Refreshes
  <1>7. /\ IsFiniteSet(Accesses(g)') /\ IsFiniteSet(Replaced(g)')
        /\ Cardinality(Accesses(g)') = 1 /\ Cardinality(Replaced(g)') = 0
    <2>1. IsFiniteSet({a}) /\ Cardinality({a}) = 1
      BY ZenonT(40), FS_Singleton
    <2>2. IsFiniteSet({}) /\ Cardinality({}) = 0
      BY FS_EmptySet
    <2> QED  BY <1>4, <1>5, <1>6, <2>1, <2>2
  <1>8. \A u \in RefreshIDs : refresh'[u].st = "open" => refresh'[u].next = None
    BY <1>3 DEF Accounted
  <1>9. ASSUME NEW h \in Granted'
        PROVE  /\ IsFiniteSet(Accesses(h)') /\ IsFiniteSet(Replaced(h)')
               /\ Cardinality(Accesses(h)') =
                    IF codes'[h].st # "used" THEN 0
                    ELSE 1 + Cardinality(Replaced(h)')
    <2>1. CASE h = g
      BY <1>1, <1>7, <2>1
    <2>2. CASE h # g
      <3>1. h \in Granted /\ h \in GrantIDs
        BY <1>0 DEF Granted
      <3> QED  BY <1>1, <1>5, <1>6, <2>2, <3>1 DEF Accounted
    <2> QED  BY <2>1, <2>2
  <1> QED  BY <1>8, <1>9 DEF Accounted

LEMMA RotationAccounted ==
    ASSUME Delegation, Accounted, NEW t \in RefreshIDs, refresh[t] # Absent,
           NEW a \in AccessIDs, NEW n \in RefreshIDs, NEW scopes, NEW secret,
           StoreRotateOAuthRefreshToken(t, a, n, scopes, secret)
    PROVE  Accounted'
  <1> USE DEF Delegation
  <1>0. /\ refresh[t].st = "open" /\ access[a] = Absent /\ refresh[n] = Absent
        /\ n # t /\ grants' = grants /\ codes' = codes
    BY DEF StoreRotateOAuthRefreshToken, Rotatable
  <1>1. PICK g \in GrantIDs :
          /\ refresh[t] \in Refresh /\ refresh[t].grant = g /\ g \in Granted
          /\ codes[g].st = "used"
    BY Rows, References DEF Integrity, Granted, Refresh
  <1>2. /\ access'[a] # Absent /\ access'[a].grant = g
        /\ \A b \in AccessIDs \ {a} : access'[b] = access[b]
    BY <1>1 DEF StoreRotateOAuthRefreshToken, Minted, DelegatedType, Absent
  <1>3. /\ refresh'[t] # Absent /\ refresh'[t].grant = g
        /\ refresh'[t].st = "used" /\ refresh'[t].next = n
        /\ refresh'[n].next = None
        /\ \A u \in RefreshIDs \ {t, n} : refresh'[u] = refresh[u]
    BY <1>0, <1>1 DEF StoreRotateOAuthRefreshToken, DelegatedType, Refresh,
                      Absent
  <1>4. t \notin Replaced(g) /\ a \notin Accesses(g)
    BY <1>0 DEF Replaced, Accesses, Accounted
  <1>5. /\ Accesses(g)' = Accesses(g) \cup {a}
        /\ \A h \in GrantIDs \ {g} : Accesses(h)' = Accesses(h)
    BY <1>0, <1>2 DEF Accesses
  <1>6. /\ Replaced(g)' = Replaced(g) \cup {t}
        /\ \A h \in GrantIDs \ {g} : Replaced(h)' = Replaced(h)
    BY <1>0, <1>1, <1>3, NoneAssumption DEF Replaced, Refreshes
  <1>7. /\ IsFiniteSet(Accesses(g)) /\ IsFiniteSet(Replaced(g))
        /\ Cardinality(Accesses(g)) = 1 + Cardinality(Replaced(g))
    BY <1>1 DEF Accounted
  <1>8. \A u \in RefreshIDs : refresh'[u].st = "open" => refresh'[u].next = None
    BY <1>3 DEF Accounted
  <1>9. /\ IsFiniteSet(Accesses(g) \cup {a}) /\ IsFiniteSet(Replaced(g) \cup {t})
        /\ Cardinality(Accesses(g) \cup {a}) = Cardinality(Accesses(g)) + 1
        /\ Cardinality(Replaced(g) \cup {t}) = Cardinality(Replaced(g)) + 1
        /\ Cardinality(Accesses(g)) \in Nat /\ Cardinality(Replaced(g)) \in Nat
    BY <1>4, <1>7, FS_AddElement, FS_CardinalityType
  <1>a. /\ IsFiniteSet(Accesses(g)') /\ IsFiniteSet(Replaced(g)')
        /\ Cardinality(Accesses(g)') = 1 + Cardinality(Replaced(g)')
    BY <1>5, <1>6, <1>7, <1>9
  <1>10. ASSUME NEW h \in GrantIDs, h \in Granted
         PROVE  /\ IsFiniteSet(Accesses(h)') /\ IsFiniteSet(Replaced(h)')
                /\ Cardinality(Accesses(h)') =
                     IF codes'[h].st # "used" THEN 0
                     ELSE 1 + Cardinality(Replaced(h)')
    <2>1. CASE h = g
      BY <1>0, <1>1, <1>a, <2>1
    <2>2. CASE h # g
      BY <1>0, <1>5, <1>6, <1>10, <2>2 DEF Accounted
    <2> QED  BY <2>1, <2>2
  <1> QED  BY <1>0, <1>8, <1>10 DEF Accounted, Granted

-----------------------------------------------------------------------------
(* The calls.                                                              *)

Counts == Counted /\ Accounted

LEMMA Quiet ==
    ASSUME Secure, Counts, Unregistered, Unminted
    PROVE  Counts'
  BY StillCounted, StillAccounted DEF Counts, Secure, Tables

LEMMA StoreUntouched ==
    ASSUME Secure, Counts, UNCHANGED storeVars
    PROVE  Counts'
  <1>1. clients' = clients /\ initials' = initials /\ UNCHANGED delegated
    BY DEF storeVars, registry
  <1> QED  BY <1>1, SameRegistry, SameTokens, Quiet

\* Transactions on grants and tokens that mint nothing.
LEMMA DelegatedQuiet ==
    ASSUME Secure, Counts, UNCHANGED registry, Unminted
    PROVE  Counts'
  <1>1. clients' = clients /\ initials' = initials
    BY DEF registry
  <1> QED  BY <1>1, SameRegistry, Quiet

\* Transactions on the registry that register nothing.
LEMMA RegistryQuiet ==
    ASSUME Secure, Counts, UNCHANGED delegated, Unregistered
    PROVE  Counts'
  BY SameTokens, Quiet

LEMMA ResolvingCounts ==
    ASSUME Secure, Counts, NEW r \in Requests, ResolvesMetadata(r)
    PROVE  Counts'
  <1>1. call[r].pc \in {"fetch", "refetch"}
    BY DEF ResolvesMetadata, At
  <1>2. PICK k \in TokenCall : call[r] = k /\ Fit(k)
    BY <1>1, InFlight DEF TokenPCs
  <1>3. k.client \in CIMDs
    BY <1>1, <1>2 DEF Fit, Listed
  <1>4. PICK meta \in mix.metadata, found \in BOOLEAN :
          StoreUpsertOAuthCIMDClient(k.client, meta, found)
    BY Zenon, <1>2 DEF ResolvesMetadata, At
  <1>5. meta \in Metadata
    BY <1>4, MixAssumption DEF Secure, Hosted
  <1>6. Counted'
    BY <1>3, <1>4, <1>5, UpsertCounted DEF Secure, Counts
  <1>7. Unminted
    BY <1>4, SameTokens DEF StoreUpsertOAuthCIMDClient
  <1> QED  BY <1>6, <1>7, StillAccounted DEF Counts, Secure, Tables

LEMMA ConsentCounts ==
    ASSUME Secure, Counts, NEW r \in Requests, ConsentSteps(r)
    PROVE  Counts'
  <1>1. CASE CompleteCommits(r)
    <2> DEFINE k == call[r].consent
               row == [st |-> "live", client |-> k.client, user |-> k.user,
                       resource |-> k.resource, scopes |-> k.scopes,
                       meta |-> k.meta]
    <2>1. call[r] \in ConsentCall
      BY <1>1, Kinds DEF CompleteCommits, At, Secure, Hosted
    <2>2. row \in Grant
      BY <2>1 DEF ConsentCall, Consent, Grant
    <2>3. PICK g \in GrantIDs : StoreCreateOAuthGrantAndCode(g, row)
      BY <1>1 DEF CompleteCommits
    <2> HIDE DEF row
    <2>4. Unminted
      BY <2>2, <2>3, TokensOnlyEnd DEF Secure, Tables
    <2> QED  BY <2>3, <2>4, DelegatedQuiet DEF StoreCreateOAuthGrantAndCode
  <1>2. CASE ~CompleteCommits(r)
    <2>1. UNCHANGED storeVars
      BY <1>2 DEF ConsentSteps, BeginOAuthAuthorization, Presents,
         BeginReadsResource, BeginSealsContinuation,
         CompleteOAuthAuthorization, CompleteReadsClient,
         CompleteReadsResource, CompleteReadsIssuer, CompleteReadsStanding,
         Reads
    <2> QED  BY <2>1, StoreUntouched
  <1> QED  BY <1>1, <1>2

LEMMA TokenCounts ==
    ASSUME Secure, Counts, NEW r \in Requests, TokenSteps(r)
    PROVE  Counts'
  <1>0. Delegation /\ Tables /\ call[r] \in Calls
    BY DEF Secure, Tables, Hosted
  <1>1. CASE revokeOAuthGrantForCodeReplay(r)
    <2>1. PICK g \in Calls : call[r] = g
      BY <1>0
    <2>2. /\ revokeOAuthGrants({g.arg}) /\ {g.arg} \in SUBSET Granted
          /\ UNCHANGED registry
      <3>1. g.pc = "replay" /\ StoreRevokeOAuthGrant(g.arg)
        BY <1>1, <2>1 DEF revokeOAuthGrantForCodeReplay, At
      <3>2. g.op = Exchange /\ Fit(g)
        BY <2>1, <3>1, InFlight, OperationAt DEF TokenPCs
      <3> QED  BY <3>1, <3>2 DEF StoreRevokeOAuthGrant, Granted, Fit,
                                 WellFormed, Presented
    <2> QED  BY <1>0, <2>2, RevokingMintsNothing, DelegatedQuiet
  <1>2. CASE ExchangeCommits(r)
    <2>1. PICK k \in Calls : call[r] = k
      BY <1>0
    <2>2. k.pc = "mint" /\ k.op = Exchange
      BY <1>2, <2>1 DEF ExchangeCommits, At, Exchange
    <2>3. k.arg \in GrantIDs /\ grants[k.arg] # Absent
      BY <2>1, <2>2, InFlight DEF TokenPCs, Fit, WellFormed, Presented
    <2> DEFINE g == grants[k.arg]
               offline == OfflineAccess \in g.scopes /\ k.meta.refresh
    <2>4. PICK a \in Fresh(AccessIDs, access),
               t \in IF offline THEN Fresh(RefreshIDs, refresh) ELSE {None} :
            StoreConsumeOAuthAuthorizationCode(k.arg, a, offline, t, g.scopes,
                                               k.secret)
      BY <1>2, <2>1 DEF ExchangeCommits
    <2>5. a \in AccessIDs /\ (offline => t \in RefreshIDs)
          /\ offline \in BOOLEAN
      BY <2>4, FreshIds
    <2> HIDE DEF offline
    <2>6. Accounted'
      BY ZenonT(40), <1>0, <2>3, <2>4, <2>5, ExchangeAccounted DEF Counts
    <2>7. clients' = clients /\ initials' = initials
      BY <2>4 DEF StoreConsumeOAuthAuthorizationCode, registry
    <2> QED  BY <2>6, <2>7, SameRegistry, StillCounted DEF Counts
  <1>3. CASE RefreshCommits(r)
    <2>1. PICK k \in Calls : call[r] = k
      BY <1>0
    <2>2. k.pc = "mint" /\ k.op = Rotation
      BY <1>3, <2>1 DEF RefreshCommits, At, Rotation
    <2>3. k.arg \in RefreshIDs /\ refresh[k.arg] # Absent
      BY <2>1, <2>2, InFlight DEF TokenPCs, Fit, WellFormed, Presented
    <2>4. PICK a \in Fresh(AccessIDs, access),
               n \in Fresh(RefreshIDs, refresh), s \in Narrowed(k.arg) :
            StoreRotateOAuthRefreshToken(k.arg, a, n, s, k.secret)
      BY <1>3, <2>1 DEF RefreshCommits
    <2>5. a \in AccessIDs /\ n \in RefreshIDs
      BY <2>4, FreshIds
    <2>6. Accounted'
      BY <1>0, <2>3, <2>4, <2>5, RotationAccounted DEF Counts
    <2>7. clients' = clients /\ initials' = initials
      BY <2>4 DEF StoreRotateOAuthRefreshToken, registry
    <2> QED  BY <2>6, <2>7, SameRegistry, StillCounted DEF Counts
  <1>4. ASSUME NEW f, StoreRevokeOAuthRefreshFamily(f)
        PROVE  Counts'
    <2>1. Unminted
      BY <1>0, <1>4, TokensOnlyEnd
    <2> QED  BY <1>4, <2>1, DelegatedQuiet DEF StoreRevokeOAuthRefreshFamily
  <1>5. CASE MachineCommits(r)
    BY <1>5, SameRegistry, RegistryQuiet
       DEF MachineCommits, StoreCreateOAuthClientAccessToken
  <1>6. CASE RevokesToken(r)
    <2>1. CASE \E a \in AccessIDs : StoreRevokeOAuthAccessToken(a)
      <3>1. Unminted
        BY <1>0, <2>1, TokensOnlyEnd
      <3> QED  BY <2>1, <3>1, DelegatedQuiet DEF StoreRevokeOAuthAccessToken
    <2>2. CASE \E m : StoreRevokeOAuthClientAccessToken(m)
      BY <2>2, SameRegistry, RegistryQuiet
         DEF StoreRevokeOAuthClientAccessToken
    <2> QED  BY <1>4, <1>6, <2>1, <2>2 DEF RevokesToken
  <1>7. CASE \/ ExchangeOAuthAuthorizationCode(r) \/ ExchangeReadsCode(r)
             \/ RefreshOAuthToken(r) \/ RefreshReadsToken(r)
             \/ RefreshConflicts(r) \/ IssueOAuthClientCredentials(r)
             \/ MachineReadsResource(r) \/ RevokeOAuthToken(r)
    <2>1. UNCHANGED storeVars
      BY ZenonT(40), <1>7 DEF ExchangeOAuthAuthorizationCode,
         ExchangeReadsCode,
         RefreshOAuthToken, RefreshReadsToken, RefreshConflicts,
         IssueOAuthClientCredentials, MachineReadsResource, RevokeOAuthToken,
         Presents, Reads
    <2> QED  BY <2>1, StoreUntouched
  <1>8. CASE revokeOAuthRefreshFamily(r)
    BY Zenon, <1>4, <1>8 DEF revokeOAuthRefreshFamily
  <1> QED  BY <1>1, <1>2, <1>3, <1>5, <1>6, <1>7, <1>8 DEF TokenSteps

LEMMA RegistrationCounts ==
    ASSUME Secure, Counts, NEW r \in Requests, RegistrationSteps(r)
    PROVE  Counts'
  <1>0. Delegation /\ Tables /\ call[r] \in Calls /\ mix \in Mixes
    BY DEF Secure, Tables, Hosted
  <1>1. CASE UpdateCommits(r)
    BY <1>1, SameRegistry, RegistryQuiet DEF UpdateCommits,
       StoreUpdateOAuthIssuer
  <1>2. CASE InitialCommits(r)
    <2>1. PICK k \in Calls : call[r] = k
      BY <1>0
    <2>2. k.max \in Nat
      BY <1>2, <2>1, Kinds DEF InitialCommits, At, InitialCall
    <2>3. PICK i \in InitialIDs : StoreCreateOAuthInitialAccessToken(i, k.max)
      BY <1>2, <2>1 DEF InitialCommits
    <2>4. Counted'
      BY <1>0, <2>2, <2>3, InitialCounted DEF Counts
    <2>5. Unminted
      BY <2>3, SameTokens DEF StoreCreateOAuthInitialAccessToken
    <2> QED  BY <1>0, <2>4, <2>5, StillAccounted DEF Counts
  <1>3. CASE RegisterCommits(r)
    <2>1. PICK k \in Calls : call[r] = k
      BY <1>0
    <2>2. k.via \in InitialIDs \cup {None}
      BY <1>3, <2>1, Kinds DEF RegisterCommits, At, RegisterCall
    <2>3. PICK c \in Fresh(mix.clients \ CIMDs, clients) :
            StoreCreateOAuthClient(c, "dcr", k.meta, k.via)
      BY <1>3, <2>1 DEF RegisterCommits
    <2>4. c \in ClientIDs \ CIMDs
      BY <1>0, <2>3, FreshIds, MixAssumption
    <2>5. Counted'
      BY <1>0, <2>2, <2>3, <2>4, RegistrationCounted DEF Counts
    <2>6. Unminted
      BY <2>3, SameTokens DEF StoreCreateOAuthClient
    <2> QED  BY <1>0, <2>5, <2>6, StillAccounted DEF Counts
  <1>4. CASE \/ UpdateOAuthIssuer(r) \/ CreateOAuthInitialAccessToken(r)
             \/ RegisterOAuthClient(r) \/ RegisterReadsToken(r)
    <2>1. UNCHANGED storeVars
      BY <1>4 DEF UpdateOAuthIssuer, CreateOAuthInitialAccessToken,
         RegisterOAuthClient, RegisterReadsToken, Reads
    <2> QED  BY <2>1, StoreUntouched
  <1> QED  BY <1>1, <1>2, <1>3, <1>4 DEF RegistrationSteps

LEMMA CascadeCounts ==
    ASSUME Secure, Counts, NEW dead \in SUBSET Granted,
           revokeOAuthGrants(dead), Unregistered
    PROVE  Counts'
  BY RevokingMintsNothing, Quiet DEF Secure, Tables

LEMMA AdminCounts ==
    ASSUME Secure, Counts, AdminSteps
    PROVE  Counts'
  <1>0. Delegation /\ Tables /\ mix \in Mixes
    BY DEF Secure, Tables, Hosted
  <1>1. CASE CreateOAuthIssuer
    BY <1>1, SameRegistry, RegistryQuiet DEF CreateOAuthIssuer,
       StoreCreateOAuthIssuer
  <1>2. ASSUME NEW x \in Resources, CreateOAuthProtectedResource(x)
        PROVE  Counts'
    BY <1>2, SameRegistry, RegistryQuiet DEF CreateOAuthProtectedResource,
       StoreCreateOAuthProtectedResource
  <1>3. ASSUME NEW c \in ClientIDs, PreRegisterOAuthClient(c)
        PROVE  Counts'
    <2>1. PICK meta \in mix.metadata :
            StoreCreateOAuthClient(c, "pre", meta, None)
      BY <1>3 DEF PreRegisterOAuthClient
    <2>2. c \in ClientIDs \ CIMDs
      BY <1>3 DEF PreRegisterOAuthClient
    <2>3. Counted'
      BY <1>0, <2>1, <2>2, RegistrationCounted DEF Counts
    <2>4. Unminted
      BY <2>1, SameTokens DEF StoreCreateOAuthClient
    <2> QED  BY <1>0, <2>3, <2>4, StillAccounted DEF Counts
  <1>4. ASSUME NEW c \in ClientIDs,
               RotateOAuthClientSecret(c) \/ ReplaceOAuthClientJWKS(c)
        PROVE  Counts'
    <2>1. \/ StoreRotateSecret(c)
          \/ \E meta \in Metadata : StoreReplaceJWKS(c, meta)
      BY <1>0, <1>4, MixAssumption DEF RotateOAuthClientSecret,
         ReplaceOAuthClientJWKS
    <2>2. initials' = initials /\ UNCHANGED delegated
      BY <2>1 DEF StoreRotateSecret, StoreReplaceJWKS
    <2>3. Unregistered
      BY <1>0, <2>1, <2>2, ClientChanges
    <2> QED  BY <2>2, <2>3, RegistryQuiet
  <1>5. ASSUME NEW i \in InitialIDs, RevokeOAuthInitialAccessToken(i)
        PROVE  Counts'
    <2>1. StoreRevokeOAuthInitialAccessToken(i)
      BY <1>5 DEF RevokeOAuthInitialAccessToken
    <2>2. Unregistered
      BY <1>0, <2>1, InitialEnds
    <2> QED  BY <2>1, <2>2, RegistryQuiet
                DEF StoreRevokeOAuthInitialAccessToken
  <1>6. ASSUME NEW g \in GrantIDs, RevokeOAuthGrant(g)
        PROVE  Counts'
    <2>1. /\ revokeOAuthGrants({g}) /\ {g} \in SUBSET Granted
          /\ clients' = clients /\ initials' = initials
      BY <1>6 DEF RevokeOAuthGrant, StoreRevokeOAuthGrant, Granted, registry
    <2> QED  BY <2>1, SameRegistry, CascadeCounts
  <1>7. ASSUME NEW u \in Users, RevokeUserCredentials(u)
        PROVE  Counts'
    <2> DEFINE dead == {g \in Granted : grants[g].user = u}
    <2>1. /\ revokeOAuthGrants(dead) /\ dead \in SUBSET Granted
          /\ clients' = clients /\ initials' = initials
      BY <1>7 DEF RevokeUserCredentials, StoreRevokeUserGrants, registry
    <2> HIDE DEF dead
    <2> QED  BY <2>1, SameRegistry, CascadeCounts
  <1>8. ASSUME NEW u \in Users, SetStanding(u)
        PROVE  Counts'
    BY <1>8, StoreUntouched DEF SetStanding
  <1>9. ASSUME NEW disabled \in BOOLEAN, SetOAuthIssuerDisabled(disabled)
        PROVE  Counts'
    <2> DEFINE dead == IF disabled THEN Granted ELSE {}
    <2>1. /\ revokeOAuthGrants(dead) /\ dead \in SUBSET Granted
          /\ clients' = clients /\ initials' = initials
      BY <1>9 DEF SetOAuthIssuerDisabled, StoreSetOAuthIssuerDisabled
    <2> HIDE DEF dead
    <2> QED  BY <2>1, SameRegistry, CascadeCounts
  <1>10. ASSUME NEW disabled \in BOOLEAN, NEW x \in Resources,
                SetOAuthProtectedResourceDisabled(x, disabled)
         PROVE  Counts'
    <2> DEFINE dead == {g \in Granted : disabled /\ grants[g].resource = x}
    <2>1. /\ revokeOAuthGrants(dead) /\ dead \in SUBSET Granted
          /\ clients' = clients /\ initials' = initials
      BY <1>10 DEF SetOAuthProtectedResourceDisabled,
         StoreSetOAuthProtectedResourceDisabled
    <2> HIDE DEF dead
    <2> QED  BY <2>1, SameRegistry, CascadeCounts
  <1>11. ASSUME NEW disabled \in BOOLEAN, NEW c \in ClientIDs,
                SetOAuthClientDisabled(c, disabled)
         PROVE  Counts'
    <2> DEFINE dead == EndedWith(c, disabled)
    <2>1. StoreSetOAuthClientDisabled(c, disabled)
      BY <1>11 DEF SetOAuthClientDisabled
    <2>2. /\ revokeOAuthGrants(dead) /\ dead \in SUBSET Granted
          /\ initials' = initials
      BY <2>1 DEF StoreSetOAuthClientDisabled, EndedWith
    <2>3. Unregistered
      BY <1>0, <2>1, <2>2, ClientChanges
    <2> HIDE DEF dead
    <2> QED  BY <2>2, <2>3, CascadeCounts
  <1> QED  BY <1>1, <1>2, <1>3, <1>4, <1>5, <1>6, <1>7, <1>8, <1>9, <1>10,
              <1>11 DEF AdminSteps

LEMMA LapseCounts ==
    ASSUME Secure, Counts, Lapse
    PROVE  Counts'
  <1>0. Delegation /\ Tables
    BY DEF Secure, Tables
  <1>1. CASE \/ \E g \in GrantIDs : CodeLapses(g)
             \/ \E a \in AccessIDs : AccessLapses(a)
             \/ \E t \in RefreshIDs : RefreshLapses(t)
    <2>1. Unminted
      BY <1>0, <1>1, TokensOnlyEnd
    <2>2. UNCHANGED registry
      BY <1>1 DEF CodeLapses, AccessLapses, RefreshLapses
    <2> QED  BY <2>1, <2>2, DelegatedQuiet
  <1>2. ASSUME NEW m \in MachineIDs, MachineLapses(m)
        PROVE  Counts'
    BY <1>2, SameRegistry, RegistryQuiet DEF MachineLapses
  <1>3. ASSUME NEW i \in InitialIDs, InitialLapses(i)
        PROVE  Counts'
    BY Zenon, <1>0, <1>3, InitialEnds, RegistryQuiet DEF InitialLapses
  <1>4. ASSUME NEW c \in ClientIDs, MetadataLapses(c)
        PROVE  Counts'
    <2>1. initials' = initials /\ UNCHANGED delegated
      BY <1>4 DEF MetadataLapses
    <2> QED  BY <1>0, <1>4, <2>1, ClientChanges, RegistryQuiet
  <1> QED  BY <1>1, <1>2, <1>3, <1>4 DEF Lapse

-----------------------------------------------------------------------------
(* The theorems.                                                           *)

LEMMA CountsInitially ==
    ASSUME Init
    PROVE  Counts
  <1>1. \A i \in InitialIDs : Through(i) = {} /\ initials[i] = Absent
    BY DEF Init, StoreInit, Through
  <1>2. Counted
    BY <1>1, FS_EmptySet, CIMDAssumption DEF Counted, Init, StoreInit
  <1>3. Granted = {} /\ \A t \in RefreshIDs : refresh[t].st # "open"
    BY DEF Init, StoreInit, Granted, Absent
  <1> QED  BY <1>2, <1>3 DEF Counts, Accounted

LEMMA CountsStep ==
    ASSUME Secure, Counts, [Next]_vars
    PROVE  Counts'
  <1>1. ASSUME NEW r \in Requests,
               \/ ClientSteps(r) /\ ~ResolvesMetadata(r)
               \/ GrantSteps(r) \/ BearerSteps(r) \/ Refused(r)
        PROVE  Counts'
    <2>1. UNCHANGED storeVars
      BY <1>1 DEF ClientSteps, ReadsClient, NeedsMetadata,
         ValidateOAuthAuthorizationRedirect, Presents, GrantSteps, GrantRead,
         GrantReadsResource, GrantReadsIssuer, GrantReadsStanding,
         BearerSteps, AuthenticateOAuthAccessToken, BearerReadsClient,
         OAuthUserInfo, UserInfoReadsToken, UserInfoReadsGrant,
         UserInfoReadsUser, Refused, Reads
    <2> QED  BY <2>1, StoreUntouched
  <1>2. ASSUME NEW r \in Requests, ClientSteps(r) PROVE Counts'
    BY <1>1, <1>2, ResolvingCounts
  <1>3. CASE UNCHANGED vars
    BY <1>3, StoreUntouched DEF vars
  <1> QED  BY <1>1, <1>2, <1>3, ConsentCounts, TokenCounts,
              RegistrationCounts, AdminCounts, LapseCounts DEF Next

\* In every reachable state the counter of an initial access token is the
\* number of registrations it admitted, and the access tokens of a grant are
\* as many as the code and the refresh tokens spent on them.
THEOREM CountsHold == Spec => []Counts
  <1>1. Init => Counts
    BY CountsInitially
  <1>2. Secure /\ Counts /\ [Next]_vars => Counts'
    BY CountsStep
  <1> QED  BY <1>1, <1>2, AlwaysSecure, PTL DEF Spec

\* RegisterOAuthClient: concurrent registrations through one initial access
\* token never exceed its maximum, whatever number each of them read.
THEOREM RegistrationQuotaHolds == Spec => []RegistrationQuota
  <1>1. Counts => RegistrationQuota
    BY DEF Counts, Counted, Through, RegistrationQuota
  <1> QED  BY <1>1, CountsHold, PTL

\* ExchangeOAuthAuthorizationCode and RefreshOAuthToken: concurrent calls
\* never redeem a code or rotate a refresh token twice.
THEOREM OneTokenPerProofHolds == Spec => []OneTokenPerProof
  <1>1. Counts => OneTokenPerProof
    BY DEF Counts, Accounted, Replaced, OneTokenPerProof
  <1> QED  BY <1>1, CountsHold, PTL
=============================================================================
