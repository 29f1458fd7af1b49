------------------------------ MODULE Federation ------------------------------
(***************************************************************************)
(* The Manager's domain claims and their policies, and sign-in through an  *)
(* external provider, just-in-time provisioning included.  The provider    *)
(* answers a ceremony with any subject and any verified address, or none.  *)
(* A client may complete a ceremony as often as it likes.                  *)
(***************************************************************************)
EXTENDS Directory

-----------------------------------------------------------------------------
(* Domain claims.                                                          *)

CreateWorkspaceDomain(r) ==
    /\ Starts(r, "CreateWorkspaceDomain")
    /\ \E a \in Registered, w \in Tenants, n \in DomainNames :
         Begins(r, [Blank EXCEPT !.op = "CreateWorkspaceDomain", !.actor = a,
                                 !.ws = w, !.id = n], May("settings.write"))

CreateWorkspaceDomainCommits(r) ==
    /\ Commits(r, "CreateWorkspaceDomain")
    /\ \E d \in DomainIDs :
         StoreCreateWorkspaceDomain(d, call[r].ws, call[r].id)
    /\ Returns(r)

CreateWorkspaceDomainFails(r) ==
    /\ Commits(r, "CreateWorkspaceDomain")
    /\ StoreCreateWorkspaceDomainFails(call[r].ws, call[r].id)
    /\ Returns(r)

Claimed == {d \in DomainIDs : Exists(domains, d)}

\* authorizedWorkspaceDomain: the claim, then the permission in its
\* workspace.
MayClaim == <<"domain">> \o May("settings.write")

ReadsDomain(r) ==
    /\ At(r, "domain")
    /\ Exists(domains, call[r].id)
    /\ Continues(r, [call[r] EXCEPT !.row = domains[call[r].id],
                                    !.ws = domains[call[r].id].ws])

ConfirmWorkspaceDomain(r) ==
    /\ Starts(r, "ConfirmWorkspaceDomain")
    /\ \E a \in Registered, d \in Claimed :
         Begins(r, [Blank EXCEPT !.op = "ConfirmWorkspaceDomain", !.actor = a,
                                 !.id = d], MayClaim)

ConfirmWorkspaceDomainCommits(r) ==
    /\ Commits(r, "ConfirmWorkspaceDomain") /\ call[r].row.st # "confirmed"
    /\ StoreConfirmWorkspaceDomain(call[r].id)
    /\ Returns(r)

UpdateWorkspaceDomainPolicy(r) ==
    /\ Starts(r, "UpdateWorkspaceDomainPolicy")
    /\ \E a \in Registered, d \in Claimed, policy \in DomainPolicies :
         Begins(r, [Blank EXCEPT !.op = "UpdateWorkspaceDomainPolicy",
                                 !.actor = a, !.id = d, !.to = policy],
                MayClaim)

UpdateWorkspaceDomainPolicyCommits(r) ==
    /\ Commits(r, "UpdateWorkspaceDomainPolicy")
    /\ call[r].row.st = "confirmed"
    /\ StoreUpdateWorkspaceDomainPolicy(call[r].id, call[r].to)
    /\ Returns(r)

RemoveWorkspaceDomain(r) ==
    /\ Starts(r, "RemoveWorkspaceDomain")
    /\ \E a \in Registered, d \in Claimed :
         Begins(r, [Blank EXCEPT !.op = "RemoveWorkspaceDomain", !.actor = a,
                                 !.id = d], MayClaim)

RemoveWorkspaceDomainCommits(r) ==
    /\ Commits(r, "RemoveWorkspaceDomain")
    /\ StoreDeleteWorkspaceDomain(call[r].id)
    /\ Returns(r)

\* Time passes, and an unconfirmed claim outlives DomainClaimTTL.
ClaimExpires ==
    /\ \E d \in DomainIDs : /\ domains[d].st = "fresh"
                            /\ domains' = [domains EXCEPT ![d].st = "stale"]
    /\ UNCHANGED <<accountVars, tenantVars, grantVars, domainNames, identities,
                   spent, scimVars, mix, call, clientVars, historyVars>>

DomainSteps(r) ==
    \/ CreateWorkspaceDomain(r) \/ CreateWorkspaceDomainCommits(r)
    \/ CreateWorkspaceDomainFails(r) \/ ReadsDomain(r)
    \/ ConfirmWorkspaceDomain(r) \/ ConfirmWorkspaceDomainCommits(r)
    \/ UpdateWorkspaceDomainPolicy(r) \/ UpdateWorkspaceDomainPolicyCommits(r)
    \/ RemoveWorkspaceDomain(r) \/ RemoveWorkspaceDomainCommits(r)

-----------------------------------------------------------------------------
(* SSO ceremonies.                                                         *)

\* BeginSSO, BeginSSOLink and BeginSSOStepUp read nothing: the sealed
\* continuation is all there is of the ceremony.
beginSSO(r) ==
    /\ Starts(r, "FinishSSO")
    /\ \E c \in Ceremonies, p \in Providers, u \in Registered \cup {None},
          op \in {"login", "link", "step-up"} :
         /\ begun[c] = Absent
         /\ (op = "login") = (u = None)
         /\ begun' = [begun EXCEPT ![c] =
                        [op |-> op, provider |-> p, user |-> u]]
    /\ UNCHANGED <<storeVars, mix, call, principals, historyVars>>

\* The config field holds the provider, addr the verified address, which
\* only a sign-in looks at.
FinishSSO(r) ==
    /\ Starts(r, "FinishSSO")
    /\ \E c \in Ceremonies, s \in Subjects, a \in Addresses \cup {None} :
         /\ begun[c] # Absent
         /\ begun[c].op # "login" => a = None
         /\ Begins(r, [Blank EXCEPT !.op = "FinishSSO", !.ceremony = c,
                         !.config = begun[c].provider, !.user = begun[c].user,
                         !.subject = s, !.addr = a],
                   IF begun[c].op = "link" THEN <<>> ELSE <<"identity">>)

Ceremony(r) == begun[call[r].ceremony].op

\* SSOIdentity: a step-up must resolve to the actor, and only a sign-in may
\* go on to provision an unknown identity.
ReadsIdentity(r) ==
    /\ At(r, "identity")
    /\ LET held == Holders(call[r].config, call[r].subject) IN
       \/ \E i \in held :
            LET u == identities[i].user IN
            /\ Ceremony(r) = "step-up" => u = call[r].user
            /\ Continues(r, [call[r] EXCEPT !.id = i, !.actor = u,
                               !.todo = <<"identity", "user", "commit">>])
       \/ /\ held = {} /\ Ceremony(r) = "login" /\ call[r].addr # None
          /\ Continues(r, [call[r] EXCEPT
                             !.todo = <<"identity", "joinable", "workspace",
                                        "unclaimed", "commit">>])

\* A confirmed domain joins identities of exactly this provider.
ReadsJoinable(r) ==
    /\ At(r, "joinable")
    /\ LET n == DomainOf[call[r].addr]
           d == domainNames[n] IN
       /\ Confirmed(n)
       /\ domains[d].policy.join
       /\ domains[d].policy.provider = call[r].config
       /\ Continues(r, [call[r] EXCEPT !.id = d, !.ws = domains[d].ws,
                                       !.role = domains[d].policy.role])

\* A sign-in or step-up with a known identity.
FinishSSOCommits(r) ==
    /\ Commits(r, "FinishSSO") /\ Ceremony(r) # "link"
    /\ call[r].id \in IdentityIDs
    /\ StoreTouchSSO(call[r].id, call[r].actor, call[r].ceremony)
    /\ Returns(r)

\* A sign-in that provisions its account.
FinishSSOJITCommits(r) ==
    /\ Commits(r, "FinishSSO") /\ call[r].id \in DomainIDs
    /\ \E u \in Users, e \in EmailIDs, i \in IdentityIDs :
         StoreJITProvisionSSOUser(u, e, call[r].addr, call[r].ws, call[r].role,
           call[r].id, i, call[r].config, call[r].subject, call[r].ceremony)
    /\ Returns(r)

\* The actor may have been disabled since the ceremony began.
FinishSSOLinkCommits(r) ==
    /\ Commits(r, "FinishSSO") /\ Ceremony(r) = "link"
    /\ \E i \in IdentityIDs :
         StoreLinkSSO(i, call[r].user, call[r].config, call[r].subject,
                      call[r].ceremony)
    /\ Returns(r)

UnlinkSSO(r) ==
    /\ Starts(r, "UnlinkSSO")
    /\ \E i \in IdentityIDs :
         /\ Exists(identities, i)
         /\ Begins(r, [Blank EXCEPT !.op = "UnlinkSSO", !.id = i,
                                    !.actor = identities[i].user], <<>>)

UnlinkSSOCommits(r) ==
    /\ Commits(r, "UnlinkSSO")
    /\ StoreUnlinkSSO(call[r].actor, call[r].id)
    /\ Returns(r)

SSOSteps(r) ==
    \/ beginSSO(r) \/ FinishSSO(r) \/ ReadsIdentity(r) \/ ReadsJoinable(r)
    \/ FinishSSOCommits(r) \/ FinishSSOJITCommits(r) \/ FinishSSOLinkCommits(r)
    \/ UnlinkSSO(r) \/ UnlinkSSOCommits(r)
=============================================================================
