# Credbound: a TLA+ verification project

Credbound is a Go authentication library. A host embeds a `Manager`; every
call into it reads the store a few times, decides, and commits with **one**
store transaction that holds the mutation, its audit event and the optional
transactional hooks. Nothing is locked between the reads and the transaction,
so other calls' transactions fall between any two steps of a call. That gap is
what is hard to get right and hard to test, and it is what these modules are
about.

The modules are translated from the Go source. `PROJECT.json` maps every
definition that models code to its file and lines, and lists the components,
hazards, runs, mutants, findings and theorems.

## 1. Inventory

| Part | State | Operations that change it | What is hard |
|---|---|---|---|
| Password sign-in, change (`auth.go`) | password hash, login throttle | `AuthenticatePassword`, `ChangePassword` | transparent rehash races replacement; finalization retries |
| Password reset (`reset.go`) | reset credentials | `BeginPasswordReset`, `CompletePasswordReset` | read unused by two calls; expiry in flight; sweep in the same transaction |
| Email sign-in (`magiclink.go`, `emailotp.go`) | email credentials | begin, complete | single use; lockout must survive a pending second factor |
| TOTP, recovery codes (`totp.go`) | factor, last step, codes | enroll, confirm, verify, disable, regenerate | replay of steps and codes, re-enrollment in flight |
| Sessions (`session.go`) | sessions | create, authenticate (touch), sign out, revoke | a context that outlives the password it came from |
| Account status (`lifecycle.go`, `revocation.go`) | disabled, all credentials | disable, enable, revoke, anonymize | cascades must be one step |
| Commit protocol (`memory/store.go`, `events.go`) | tables, ceremonies, audit log | prepare, mutate, hook, roll back, append | partial failure, replay, pruning |
| Audit chain (`audit.go`) | sequence, head, checkpoints | `VerifyAuditChainFrom` | two reads of a moving log |
| Passkeys (`passkey.go`) | passkeys, continuations | begin, finish, delete | stateless ceremonies made single use |
| OAuth clients (`oauth.go`, `oauth_admin.go`) | issuer, resources, clients and their index, initial access tokens | register, resolve metadata, consent, enable, disable, rotate | lookup and upsert race; cascades that overtake calls; rollback of the index |
| OAuth tokens (`oauth_tokens.go`, `memory/oauth.go`) | grants, codes, token families | exchange, refresh, revoke | reuse detection, lost answers |
| PATs (`pat.go`) | tokens | create, authenticate, revoke | touch after revocation |
| Workspaces (`lifecycle.go`, `invitation.go`, `rbac.go`) | memberships, invitations | invite, accept, grant, suspend | last administrator; write-back of stale records |
| Instance administration (`admin.go`) | administrators | grant, remove | last root |
| Role catalog (`workspace_roles.go`) | none (pure) | inheritance closure | cycles, order |
| SCIM (`scim.go`, `memory/scim.go`) | configurations, users, groups | provisioning | derived roles, write-back |
| SSO (`sso.go`) | identities | begin, finish, JIT creation | ceremonies, duplicate creation |
| Domains, emails (`domain.go`, `email.go`) | claims, addresses | claim, confirm, add, verify | takeover of stale claims, reissued tokens |
| PostgreSQL store (`sqlstore/postgresql`) | all tables | the same port, statement by statement | READ COMMITTED: what a statement saw before it waited |
| Identifiers (`internal.go`) | last UUIDv7 | `newID` | sequence wrap, clock stepping back |
| HTTP handlers, adapters, configuration, export, observers | | | not modelled, see section 8 |

How they interact: every Manager operation goes through the commit protocol;
password replacement and the administrative operations cascade into sessions,
PATs and OAuth grants; the account status is read by every authentication;
domains and directories decide who may join a workspace and with which role.

## 2. Modules

Five families, each a store module with its transactions, a module of the
Manager's calls over it, an MC module, and proofs.

| Module | Role |
|---|---|
| `AccountStore` | The account tables and every transaction on them, each one atomic step with the guard the store evaluates under its lock |
| `Accounts` | The Manager's account operations as concurrent calls over `AccountStore`: one action per store access |
| `CredentialPromise` | Abstract specification of the session table: mint, replace-and-end-all, revoke |
| `MCAccounts` | The mixes of operations and symmetry |
| `AccountsProofs` | Typing, hashes and sessions, the refinement, what was accepted and what is returned |
| `StoreCommit` | prepareCommitLocked, mutation, hook, rollback and audit append, on three tables |
| `AuditTrail` | The calls that show it at work: passkey ceremonies, client registration and resolution, unchained rejections, chain verification |
| `MCAuditTrail`, `AuditTrailProofs` | Workloads and symmetry; theorems about the two |
| `OAuthStore` | The OAuth tables of one issuer and every transaction on them, cascades included |
| `OAuth` | The authorization server as concurrent calls over `OAuthStore`: consent, token endpoint, revocation, bearer validation, UserInfo, registration, administration |
| `MCOAuth` | Workloads, client metadata, policies and symmetry |
| `OAuthProofs`, `OAuthSafety` | The inductive invariant and the steps of consents, tokens and bearers; the other steps and the theorems |
| `DirectoryStore`, `FederationStore`, `ProvisioningStore` | Tables and transactions of accounts, addresses, workspaces, offices, invitations and PATs; of domains and identities; of SCIM |
| `Directory` | What the calls on these tables share: the reads still to make, the authorization checks |
| `Governance`, `Profiles`, `Federation`, `Provisioning` | The calls: tenant and instance administration; sign-up, addresses, anonymization; domains and SSO; SCIM |
| `Tenancy` | Their composition over the same tables, its initial states and properties |
| `RoleCatalog` | buildRoleCatalog as a closure, with its cycle check |
| `MCTenancy` | The mixes of operations and a host's roles and policies |
| `TenancyInvariant`, `TenancyCalls`, `TenancyEffects`, `TenancyProofs` | The inductive invariant; the steps of calls; the transactions; the commits and the theorems |
| `SqlEngine` | External: transactions at READ COMMITTED |
| `PgStatements`, `PgFactors`, `PgTenancy`, `PgOAuth` | The store's SQL statements, one action each, under the names of their queries |
| `PgStore`, `MCPostgres` | 65 transactions as programs of statements on several connections, and their properties; the mixes |
| `Identifiers` | newID and its theorem |

### Accounts

A call is a record in `call[r]` with a `pc` naming the next store access and
exactly what the Go function keeps in local variables at that point
(`SignInRead`, `SignInFinal`, ...). `AuthenticatePassword` is nine actions
(`SignIn` ... `SignInRetries`): the lookup of the user, the read of the
password, of the throttle, the rehash, the read of the factor, the pending
confirmation and the guarded record with its two retries. A refused call has
changed nothing and ends; which error it reports is not modelled. `held` is the
set of `Authentication` values the host kept, usable at any later time.

A hash is `[pwd, era, enc]`: the password, the replacement that installed it,
and the rehashes since. Equality of hashes is equality of the stored strings,
because each `Hash` call salts afresh. Time is a deadline that passes at any
moment (`Lapse`) and, for TOTP, a step counter (`Tick`). The variables
`accepted`, `burned`, `redeemed`, `tally`, `epoch` and the fields `root` and
`digest` of a session are history: nothing reads them but the properties.

### StoreCommit and AuditTrail

`Attempt(c, changed)` is the transaction of commit `c`: `Replayed` when its
ceremony is remembered as used, `Rejected` when the hook refuses and the
snapshot is restored, `Committed` otherwise. The ceremony record stays in both
of the latter, as the comment on `Store.ceremonies` says. A transaction whose
audit cannot be written changes nothing and is `Abandon` in `AuditTrail`. A
hash is the sequence of everything hashed into it: this is collision freedom of
SHA-256 over length-prefixed fields, the one cryptographic assumption.

`newAudit` fixes the event's time before the store method runs, so commits reach
the store out of the order of their stamps and prune by them. Only the stamps of
commits that consume a ceremony are kept; nothing reads the others.
`VerifyAuditChainFrom` is two actions, `ScanChain` and `CompareHead`, because
the memory store takes its lock once for the events and once for the head.

### OAuthStore and OAuth

One issuer: client and resource are always resolved under the issuer of the
request. A grant and its authorization code are created together and share an
identifier; a refresh-token family is named after its first token. What a token
row copies from its grant never changes and is read from the grant.
A client's metadata is a record of what the operations look at, and two
metadata hashes are equal when the records are.

A token-endpoint call remembers the client metadata it read (`meta`), the secret
it presented and the issuer's CIMD policy; `activeOAuthGrant` is four actions
(`GrantRead` ... `GrantReadsStanding`) shared by exchange, refresh and bearer
validation, because each of its reads can be overtaken. `Refused` ends any call
before its commit: it stands for the checks that only refuse (PKCE, redirect
URI, digests, assurance), a failing store and a caller that goes away. The
answer of a bearer call is the state `served`. A denied consent writes an audit
event only and is a `Refused`.

An administrator's operation is one action where its reads can only skip a
commit that changes nothing. `UpdateOAuthIssuer` and
`CreateOAuthInitialAccessToken` use what they read, and are two. `standing` is
what the accounts and governance side says of a user: permitted, active without
the permission, or disabled.

History: `via` and `burnt` of a client, `secret` of an access token and `late`
of a call are read by the properties only.

### Directory and Tenancy

A handler is the sequence of store reads that precede its commit. `call[r].todo`
holds the reads still to make and ends with `"commit"`; each read is a step
(`Checks`, `Lookups` and the `Reads...` actions) that refuses, or keeps in the
call what a later step uses. So `GrantRole` reads the actor, the workspace, the
actor's permission, the target and the membership one after the other, and then
writes back the membership it read with the new role, as `rbac.go` does. The
commit action (`...Commits`) is the store transaction with the guards the store
evaluates itself.

Write-backs keep their staleness: a call that computed rows before its commit
carries them (`row`, `rows`, `cfg`, `to`), and the store writes them as they
are. `StoreTouchPAT`, `StoreUpdateSCIMUser` and the recomputation of directory
roles are of this kind.

An abandoned domain claim is evicted before the commit that replaces it is
prepared, so a commit that fails afterwards leaves the eviction
(`memory/store.go:1766`); the model has both outcomes. `ClaimExpires` is the
reservation running out at any moment.

A behaviour runs one *mix*: the operations of one area together with those that
interfere with it. It starts empty (the mix with `Bootstrap`), bootstrapped
with one account, or staffed with a second one, and where the mix needs it with
a confirmed domain (`Federated`) or a connected directory (`Connected`): states
that `Bootstrap`, `CreateUser`, `ConfirmWorkspaceDomain`,
`CreateSCIMConfiguration` and `AdoptSCIMUser` lead to. An instance whose first account
comes from `SignUp` never has a root, since `Bootstrap` refuses once there are
accounts; `RootRemains` therefore speaks of instances that have one. It asks a
disabling or an erasure to leave an enabled root, and a demotion to leave a root:
that is what each of them counts.

History: `ended` (tokens whose owner lost the standing they were issued under),
`admitted` and `finished` (uses of invitations and ceremonies), `computed` and
`raced` (directory users whose role was computed; directories two of whose
changes overlapped), and `stale` of a call (a directory's tables changed since
it began).

### SqlEngine and PgStore

`db` is what is committed; a transaction has its own writes, its row locks and
the statements still to run. A statement sees what is committed when it starts
and its own writes. One that locks or changes rows waits for the other holders
of the rows it found and then works on those that still match; rows that came to
match meanwhile are not found. That re-evaluation, and its limits, is what the
store's guards rest on.

Three things are wider or coarser than PostgreSQL: the rows of one statement are
locked at once, which allows more interleavings than one by one and turns a
deadlock between statements into a wait that `Rollback` ends; a row deleted and
inserted again under the same key is the same row; locks taken for foreign keys,
which only lengthen waits, are left out. The lock on the head of the audit
chain is taken right before `Commit` and is part of it. `Rollback` is possible
at every statement: an error, a refused hook, a deadlock, a lost connection.

`by` (the connection that stamped a row), `pwd` of a session, `replaced` and
`raised` are history. `raised` says whether a row came to match a locking
statement of a transaction after it had run (`Overlooked`): an account promoted
meanwhile, a client enabled meanwhile. `OfficesRemain` and
`RegistrationsWithinLimit` except exactly those.

### Identifiers

`newID` is one step under the generator's mutex: the clock is any integer at
each call, and reading randomness may fail after the generator has moved. The
other modules take identifiers as fresh.

## 3. Runs

All state counts are distinct states.

| Run | Question | Result |
|---|---|---|
| `accounts` | 11 mixes of the account operations: the stored hash is the latest, no stale session, completion only on the current hash, the sessions refine `CredentialPromise`, resets and links are redeemed once, the lockout counts every guess, TOTP steps strictly increase, codes burn once | holds, 2.4 M |
| `retries` | under fairness of in-flight calls, every call ends | holds, 39 k |
| `renewal` | the documented promise that the sweep of sessions is exhaustive | **violated** |
| `trail` | ceremonies replayed, rejected, expiring in flight; commits, unchained events, verifications: spent once until expiry, chain sound, tables match the trail, accusations explained | holds, 2.7 M |
| `index` | the index by client_id matches the table after a rollback | **violated** |
| `authorization` | codes and refresh tokens redeemed, replayed, revoked; consent, exchange, bearer validation and UserInfo overtaken by every switch, by secret rotation and by the user's revocation; registrations, metadata resolution, policy updates: one token per proof, one live refresh token, families die whole, scopes only narrow, ended grants answer nothing, machine tokens only on the allowlist, disabling revokes, the rotation runbook ends the old secret, quotas hold | holds, 1.4 M |
| `revival` | a disabled client stays disabled until it is enabled | **violated** |
| `tenancy` | 21 mixes of the operations on accounts, addresses, workspaces, offices, invitations, PATs, domains, SSO and SCIM: offices stay filled, what is single-use is used once, tokens of lost standings stay dead, addresses and names have one holder, a directory's memberships follow it | holds, 1.1 M |
| `adoption` | a membership that a directory manages keeps its source | **violated** |
| `orphans` | a workspace with an enabled administrator keeps one, in an instance without a directory | **violated** |
| `invited` | a workspace with an active administrator keeps one, in an instance without a directory | **violated** |
| `postgres` | 18 mixes of SQL transactions on two connections: replaced passwords stay replaced, one primary address, offices stay filled, settled rows stay, registration limits | holds, 0.6 M |

Every property of a passing run has a mutant: a definition changed the way a
plausible slip in that code would, marked `Bug:` beside the definition, under
which TLC finds the property violated in the same configuration.

### Bounds and why they are enough

* Two requests, or two connections: every race the properties are about is
  between two calls; calls that must come in sequence reuse a slot. In
  `Accounts` and `OAuth` administrators act without a slot.
* One user in `Accounts` and `OAuth`: no transaction of theirs reads one user's
  rows to write another's.
* `MaxEra` 1 is one replacement *started* below the bound, and two calls may both
  have started, so two replacements happen. `rehashes` of a mix, 1 or 2, lets a
  rehash race a replacement and a retry; mixes about other things have 0. Two passwords tell old from new.
* `MaxFailedLogins` 2 in `accounts` gives a state below and at the threshold,
  and `Lapse` restarts the window.
* `accounts` has `Skew` 0 and two time steps. The theorem `StepsNeverReplay` covers
  every skew.
* The mixes of `accounts` put together what interferes: sign-ins, changes and
  sessions (`Opening`, `Promoting`, `Revoking`), a session, a reset and a magic link
  against what ends them (`Resetting`, `Mailing`, `Linking`), guesses by link and by
  code (`ByLink`, `ByCode`), the life of a factor (`Replaying`, `Disabling`,
  `Reissuing`). Operations that meet in no mix are raced by the theorems alone: all
  nine properties of the run are proved for any mix.
* `MaxID` bounds the identifier at which a call may start: a ceremony and two
  calls that finish it, with the rows and events each of them writes.
  `MaxClock` 2 with `CeremonyTTL` 1 lets a ceremony be decoded in time, committed
  at its last instant and after it.
* `authorization` has one grant and three tokens of each kind: the first refresh
  token, its successor, and the one a second rotation would store. Families and
  grants touch no rows but their own. Three clients, one of them a
  metadata-document client, against a quota of one; one rotation of the secret; one
  machine token.
* `tenancy` has three accounts (two to compete for an office, one to arrive), two
  workspaces, three addresses, two claims for one domain name, two ceremonies and
  two identities, one directory with two users and one group, one invitation and one
  PAT. `MaxCode` 1 is one reissue of a verification. Tokens are created and
  authenticated in four mixes, next to every operation that ends one
  (`WorkspaceTokens`, `MemberTokens`, `AccountTokens`, `DirectedTokens`); an invitation
  is accepted, registered from and revoked in one (`Answering`).
* `postgres` has per mix just the rows its operations compete for, `MaxAttempts` 2
  below `MaxFailures` 3, three passwords, two secrets and three TOTP steps, and
  limits of two with three clients to register.
* Deadlock detection is off in `trail`, `tenancy` and `postgres`: once the
  identifiers are used up the host has nothing left to call.
* Symmetry permutes requests or connections, passwords and the identifiers of
  sessions, clients, grants and tokens; none of the runs that use it checks
  liveness.

### Fairness

`FairSpec` of `Accounts` is weak fairness of `Step(r)` for each request: a call in
flight is a running goroutine and its next store access is enabled until it
takes it. The host need not start anything and no deadline need pass. It is the
only fairness assumed; all other properties are safety.

## 4. Findings

* **`renewal`** (`session.go:179`). `AuthenticateSession` rebuilds a context with an
  empty `CredentialDigest`, and `CreateSession` skips its guard for an empty
  one. A context validated just before a password change therefore mints a
  session after the sweep. `types.go:646` says such a session can never be
  minted. Sessions whose context carried the fingerprint are safe
  (`NoStaleSession`, proved).
* **`index`** (`memory/store.go:2925`). `snapshotLocked` copies
  `oauthClientTokenKeys` twice and `oauthClientKeys` never, so after any rejected
  hook no OAuth client is found by its client_id. `ports.go:10` asks for "all
  three stages or none".
* **`revival`** (`oauth.go:926`). When the cached metadata of a metadata-document
  client has expired, `resolveOAuthClient` stores a record built from the fetched
  document, which keeps the identifier and creation time only. `DisabledAt`
  is lost, and with it the effect of `DisableOAuthClient`, which "disables a
  client record so authorization, token, and bearer-validation operations
  refuse it" (`oauth_admin.go:123`). Grants revoked by the cascade stay revoked.

* **`adoption`** (`rbac.go:182`). `GrantRole` checks the source of the membership it
  reads and commits a local one later, over what `AdoptSCIMUser` installed in
  between. SCIM-004 says that "an ordinary local mutation cannot overwrite a
  SCIM-managed membership" (`src/specs/PRD.md:83`).
* **`orphans`** (`memory/store.go:2368`). `RemoveMembership` and `UpsertMembership` of the
  memory store count the memberships of disabled accounts, so the last enabled
  administrator can be removed; the PostgreSQL store counts enabled accounts.
  ADR-011 (lines 31-35) guards the last enabled administrator "so that the tenant cannot be
  orphaned". What the memory store does keep is `AdminsRemain`, proved.
* **`invited`** (`invitation.go:85`). An acceptance that found no membership writes the
  invited role over one granted since, without the last-administrator guard.
  TENANT-003 says that the last active administrator "cannot be removed,
  suspended, or demoted" (`src/specs/PRD.md:51`).

### Known disagreements without a run

The models contain these too; a hazard records each, and the property nearest to
it is stated without it.

* `memory/store.go:1766`: an abandoned domain claim is deleted before the commit is
  prepared, so a commit that fails afterwards has lost it, against the "all three
  stages or none" of `ports.go:10`. `ClaimsHoldTheirNames` holds in spite of it.
* `sqlstore/postgresql/store.go:119`: an account promoted after `SetUserDisabled` or a
  withdrawal took its locks is overlooked, although disabling "refuses to orphan"
  (`store.go:107`). `OfficesRemain` excepts exactly what a locking query overlooked.
* `sqlstore/postgresql/oauth.go:516`: a rotation that commits its successor after the
  family was enumerated leaves it alive, although the comment at line 511 speaks of
  every token in the family.
* `sqlstore/postgresql/store.go:1606`: two identities unlinked at once both pass the
  count of methods, although "the last authentication method cannot be unlinked".

### Behaviour no comment rules out

Whole rows written back by `UpdateOAuthIssuer`, `UpdateWorkspace` and
`UpdateSCIMConfiguration`, and JSON records read without a lock in the PostgreSQL
store, are hazards with a note. `AdminsRemain` excepts the operations in `Unguarded`
(acceptance of an invitation and the directory's own), and `DirectoryHolds` the
directories two of whose changes overlapped: of those it says nothing.

## 5. Theorems

Proved by TLAPS for every value of the constants that satisfies the named
assumptions: any number of accounts, calls, rows and identifiers. The
assumptions say that bounds are numbers, that distinct kinds of identifiers
differ from `None` and from each other, and what the mixes of a run may
combine (`BoundsAssumption`, `IdentifierAssumption`, `NoHashAssumption`,
`ThresholdAssumption`, `BatchAssumption`, `CodeAssumption`, `TrailBounds` and, in
the modules named, the assumptions of `OAuthStore`, `OAuth`, `DirectoryStore`,
`Directory` and `Tenancy`); TLC evaluates each of them on the runs.

| Theorem | States |
|---|---|
| `Typing` | `TypeOK` of `Accounts` |
| `Resurrection` | `RehashNeverResurrects` |
| `StaleSessions` | `NoStaleSession` |
| `SignInsComplete` | `CompletesOnlyCurrent` |
| `PromiseKept` | `Accounts` refines `CredentialPromise` |
| `GuessesCounted` | `GuessesAreCounted` |
| `SingleUse` | `RedeemedOnce` |
| `StepsNeverReplay` | `StepsIncrease` |
| `RecoveryCodesBurn` | `CodesBurnOnce` |
| `TrailTyping` | `TypeOK` of `AuditTrail` |
| `ChainSound` | `ChainIsSound` |
| `AccusationsExplained` | `AccusesOnlyRacing` |
| `AllOrNothing` | `TrailMatchesTables` |
| `CeremoniesSpentOnce` | `SpentWhileItLasts` |
| `AlwaysSecure` | the inductive invariant of `OAuth` |
| `TypesHold` | `TypeOK` of `OAuth` |
| `OneLiveRefreshHolds`, `FamiliesDieWholeHolds`, `ScopesOnlyNarrowHolds`, `DisablingRevokesHolds`, `RunbookEndsOldSecretHolds`, `EndedGrantsAnswerNothingHolds`, `MachineTokensAllowlistedHolds` | the property in the name |
| `RegistrationQuotaHolds`, `OneTokenPerProofHolds` | the property in the name, by counting |
| `AlwaysSound` | the inductive invariant of `Tenancy` |
| `RootRemainsHolds`, `AdminsRemainHolds`, `EndedTokensStayDeadHolds`, `SingleUseHolds`, `ClaimsHoldTheirNamesHolds`, `AddressesAreSoundHolds` | the property in the name |
| `IdentifiersIncrease` | what `newID` returns strictly increases |

### Accounts and the audit trail

* **Sessions.** `NoStaleSession` is inductive with `RehashNeverResurrects` and the
  fact that every fingerprint in flight or held is a hash that was stored: a
  mint compares fingerprints under the lock, and a replacement ends every
  session of the user in the same step.
* **Sign-ins.** `CompletesOnlyCurrent` is an action property: of the seven places that
  return a context only `SignInRecords` returns a fingerprint at the first level
  with nothing pending, and its transaction has just compared it. It needs
  `SessionsRebuilt`: a validation of a session carries no fingerprint.
* **Refinement.** A session maps to unborn, live or dead with the epoch its
  fingerprint names; each transaction maps to one abstract action or a stutter.
* **History.** `accepted` increases because its last entry is at most
  `LastUsedStep`; a burned code is never in the unused set because batches only
  grow; a redeemed token is "used" or "deleted" and neither comes back.
* **Chain.** `ChainIsSound` is inductive by itself: a step appends nothing, one
  unchained event, or one event that extends the head (`AuditEffect`,
  `ExtendsOne`).
* **Verification.** Every report and every scan under way is a point of the chain
  (`OnChain`), and from a point of a sound chain the loop reaches the end and
  stops nowhere else (`ScanReaches`). So the comparison fails only when the head
  moved.
* **Tables.** `TrailMatchesTables` needs `RowsAreFresh`: a passkey about to be saved
  has an identifier new to the trail and to every other call.
* **Ceremonies.** `CeremonyInv`: a ceremony has one expiry, a commit was stamped in
  the past, and a spent ceremony is remembered while it lasts. The pruning by a
  stamp that is at most the clock can then only forget what has expired.

### OAuth

The inductive invariant is `Secure`:

* `Tables`: every row refers to rows that exist; a grant's refresh tokens are one
  family with one open token; revoked grants have no live token; clients keep
  their source. Without it no cascade could be shown to reach every token.
* `Fit(k)` of every call in flight. `WellFormed`: it is at a point of its operation
  and remembers what that point needs. `Backed`: once it has resolved its client,
  **either the client is still up and the secret it presented is not burnt, or its
  grant is revoked**, and likewise for the resource. This is what makes
  `DisablingRevokes` and `RunbookEndsOldSecret` inductive: a switch revokes, in its
  own transaction, the grants of the calls that read before it. `Doomed`: a bearer
  call that began after its grant ended has not passed the check that will refuse
  it. `Listed`: a machine call saw the allowlist the client still has.
* `Rests(a)` and `Allowed(m)`: the same of every stored token; `Hosted`: the host's
  side keeps its types.

`Counts` adds the two facts about cardinalities: the counter of an initial access
token is the number of clients registered through it (`Counted`), and a grant
has one access token for its code and one per replaced refresh token
(`Accounted`). Both need the finite-set theorems, so they are apart.

### Tenancy

The inductive invariant is `Sound`, `Tables` and `Calls`:

* `Tables`: rows have their fields and refer to accounts, links and configurations
  that exist; nobody is a member before having an account (a new account can take
  no office from another); every claim holds its name; ended tokens are
  revoked; `admitted` and `finished` say of invitations and ceremonies what the
  rows say.
* `Calls`: what a call has left to do is reads its operation makes and then the commit
  (`Ready(Reads(op))`), its inputs are what the operation takes (`Inputs`), and the
  directory rows it computed are for accounts that exist (`Found`). Without the
  first, a call could reach the commit of an operation without the reads.

A commit is proved in two halves. `TenancyEffects` shows of each store transaction
its `Effect`: rows keep their form, no account is lost, a root remains, an
administrator remains unless the operation is `Unguarded`, an account is closed only
when it is dispensable (`Closing`: another enabled root, another enabled
administrator in each of its workspaces), tokens only end and end with their owner's
standing, one invitation is accepted, one ceremony is spent.
`TenancyProofs` shows once that a commit with such an effect keeps `Sound`
(`CommitHolds`), and that every commit action has it. `TenancyCalls` does the
reads, where only `call` changes.

`AddressesAreSound` needs more, the invariant `Mail`: an address is in one record;
the lookup leads from every verified record to its owner and back; each account
has exactly one primary record; the record of an anonymized account has a
tombstone for address that is made from the record's own identifier, so that it
collides with nothing; and no invitation is addressed to a tombstone.

TLC checked `Tables`, `Calls` and `Mail` as invariants of the `tenancy` instance before
they were proved.

### Identifiers

`Ahead`: the generator is at or past every identifier it returned. The theorem holds
while the millisecond count fits the 48 bits of the layout, which the statement
says.

### Only model-checked

* `CallsAreAnswered`: liveness is out of the prover's reach.
* The properties of `PgStore`: a transaction is a program, a sequence of statement
  names run by a table of actions, and an invariant would have to say for each of
  the 65 programs and each position what its locks and writes are. The runs cover
  it.
* `TypeOK` of `Tenancy`: it says that the program of a call is a sequence of strings,
  and no backend proves that a string literal is in `STRING`. `Tables` and `Calls` say
  more about rows and calls, and are proved.
* `DirectoryHolds`: its `computed` half compares a stored role with `Candidates`, a set
  built from all groups and their priorities, before and after calls that read
  groups, links and memberships one by one. The invariant would have to restate
  the algorithm for every partial recomputation.
* `RoleCatalog`: the closure is evaluated by the assumption `CatalogAssumption` of
  `MCTenancy` for the catalog of a host; what a closure computes for every input
  needs induction over data.

## 6. What a ceremony promises after its expiry

`SpentWhileItLasts` stops at the expiry on purpose: a call that decoded a
continuation in time may commit late, when the store was free to forget the
ceremony ("Records may be pruned once ExpiresAt has passed", `events.go`). The
`trail` run reaches such states.

## 7. Plan

1. `DirectoryHolds` as a theorem, its first half (a deprovisioned user is suspended)
   first: it needs no roles.
2. `PasswordsHold` and `OnePrimaryAddress` of `PgStore`, from an invariant of the programs
   that touch the tables they name.
3. The SCIM transactions and the metadata-document clients of the PostgreSQL store.
4. The relaxed step-up policies as a pure module.
5. Composition of the cascades of `Accounts` with PATs and grants in one module;
   they are one transaction in the code and appear in three families.

## 8. Not modelled

* Of the PostgreSQL store: the SCIM transactions, issuers, resources,
  `UpsertOAuthCIMDClient`, machine tokens, `CreateOAuthInitialAccessToken`,
  `UpdateUser` and `UpdateWorkspace` (nothing they write decides anything), listings.
  The ceremony record and the audit chain are those of `StoreCommit`.
* HTTP handlers, provider adapters, configuration, export, observers: parsing,
  wrappers of protocol libraries, reads and post-commit notification without a
  return path into the state.
* Cryptography: sealing, digests, key rings and Argon2 appear only through what
  the operations rely on (distinct hashes, unforgeable continuations).
* The throttle on issuing emails, which only refuses calls, and the step-up policies
  other than the default.
* OAuth discovery, ID tokens (signed after the commit), listings and the bearer
  validation of client_credentials tokens: reads.
* Messages of errors, names and other data no property tells apart.
