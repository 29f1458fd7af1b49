--------------------------- MODULE FederationStore ----------------------------
(***************************************************************************)
(* The in-memory store's transactions on domain claims and on external     *)
(* identities, ceremony consumption included.                              *)
(***************************************************************************)
EXTENDS DirectoryStore

\* A claim defends its name once confirmed, and until it is stale.  A name
\* whose claim is gone has nobody to defend it.
GivesWay(d) == domains[d] = Absent \/ domains[d].st = "stale"

Vacant(n) == domainNames[n] # None => GivesWay(domainNames[n])

\* Bug: the name is taken and the claim that held it stays.
LeftBehind(n) == domains

\* The stale holder of the name leaves the table.
Evicted(n) == IF domainNames[n] = None THEN domains
              ELSE [domains EXCEPT ![domainNames[n]] = Absent]

StoreCreateWorkspaceDomain(d, w, n) ==
    /\ Exists(workspaces, w) /\ ~Exists(domains, d) /\ Vacant(n)
    /\ domains' = [Evicted(n) EXCEPT ![d] =
                     [st |-> "fresh", ws |-> w, name |-> n,
                      policy |-> NoPolicy]]
    /\ domainNames' = [domainNames EXCEPT ![n] = d]
    /\ UNCHANGED <<accountVars, tenantVars, grantVars, identities, spent,
                   scimVars>>

\* A commit that fails (its hook, its audit record) restores a snapshot taken
\* after the stale holder was deleted: the name keeps naming it.
StoreCreateWorkspaceDomainFails(w, n) ==
    /\ Exists(workspaces, w) /\ Vacant(n)
    /\ domains' = Evicted(n)
    /\ UNCHANGED <<accountVars, tenantVars, grantVars, domainNames, identities,
                   spent, scimVars>>

StoreConfirmWorkspaceDomain(d) ==
    /\ domains[d].st \in {"fresh", "stale"}
    /\ domains' = [domains EXCEPT ![d].st = "confirmed"]
    /\ UNCHANGED <<accountVars, tenantVars, grantVars, domainNames, identities,
                   spent, scimVars>>

StoreUpdateWorkspaceDomainPolicy(d, policy) ==
    /\ domains[d].st = "confirmed"
    /\ domains' = [domains EXCEPT ![d].policy = policy]
    /\ UNCHANGED <<accountVars, tenantVars, grantVars, domainNames, identities,
                   spent, scimVars>>

StoreDeleteWorkspaceDomain(d) ==
    /\ Exists(domains, d)
    /\ domainNames' = [domainNames EXCEPT ![domains[d].name] = None]
    /\ domains' = [domains EXCEPT ![d] = Absent]
    /\ UNCHANGED <<accountVars, tenantVars, grantVars, identities, spent,
                   scimVars>>

\* ConfirmedWorkspaceDomainByName finds a claim, and what it enforces.
Confirmed(n) == /\ domainNames[n] # None
                /\ domains[domainNames[n]].st = "confirmed"
RequiresSSO(n) == Confirmed(n) /\ domains[domainNames[n]].policy.enforce

-----------------------------------------------------------------------------
(* External identities.                                                    *)

Holders(provider, subject) ==
    {i \in IdentityIDs : /\ Exists(identities, i)
                         /\ identities[i].provider = provider
                         /\ identities[i].subject = subject}

\* Bug: the commit does not carry the ceremony.
SpendsNothing(c) == UNCHANGED spent

\* prepareCommitLocked: the commit takes the ceremony, or conflicts.
Spends(c) == c \notin spent /\ spent' = spent \cup {c}

Links(i, u, provider, subject) ==
    /\ ~Exists(identities, i) /\ Holders(provider, subject) = {}
    /\ identities' = [identities EXCEPT ![i] =
                        [user |-> u, provider |-> provider,
                         subject |-> subject]]

StoreLinkSSO(i, u, provider, subject, c) ==
    /\ Exists(users, u)
    /\ Links(i, u, provider, subject)
    /\ Spends(c)
    /\ UNCHANGED <<accountVars, tenantVars, grantVars, domains, domainNames,
                   scimVars>>

StoreTouchSSO(i, u, c) ==
    /\ Exists(identities, i) /\ identities[i].user = u
    /\ Spends(c)
    /\ UNCHANGED <<accountVars, tenantVars, grantVars, domains, domainNames,
                   identities, scimVars>>

\* A passwordless account, its verified address, its membership under the
\* domain and its identity.
StoreJITProvisionSSOUser(u, e, a, w, role, d, i, provider, subject, c) ==
    /\ Exists(workspaces, w)
    /\ NewAccount(u, e, a, "verified", FALSE)
    /\ Joins(w, u, [st |-> "active", role |-> role, source |-> d])
    /\ Links(i, u, provider, subject)
    /\ Spends(c)
    /\ UNCHANGED <<workspaces, grantVars, domains, domainNames, scimVars>>

Linked(u) == {i \in IdentityIDs : Exists(identities, i)
                                  /\ identities[i].user = u}

\* The last way to sign in stays (passkeys, another, are not in this model).
Unlinkable(u, i) == users[u].password \/ Linked(u) \ {i} # {}

StoreUnlinkSSO(u, i) ==
    /\ i \in Linked(u) /\ Unlinkable(u, i)
    /\ identities' = [identities EXCEPT ![i] = Absent]
    /\ UNCHANGED <<accountVars, tenantVars, grantVars, domains, domainNames,
                   spent, scimVars>>
=============================================================================
