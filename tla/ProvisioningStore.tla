-------------------------- MODULE ProvisioningStore ---------------------------
(***************************************************************************)
(* The in-memory store's SCIM transactions.  Those that recompute roles    *)
(* write memberships the Manager computed from what it read before, as     *)
(* they are: rows is a function from users to membership rows.             *)
(***************************************************************************)
EXTENDS DirectoryStore

Writes(w, rows) ==
    memberships' = [memberships EXCEPT ![w] =
                      [u \in Users |-> IF u \in DOMAIN rows THEN rows[u]
                                       ELSE memberships[w][u]]]

StoreCreateSCIMConfiguration(c, k, w, policy) ==
    /\ Exists(workspaces, w) /\ ~Exists(configs, c) /\ ~Exists(credentials, k)
    /\ configs' = [configs EXCEPT ![c] = [st |-> "enabled", ws |-> w,
                                          policy |-> policy]]
    /\ credentials' = [credentials EXCEPT ![k] = [st |-> "live", config |-> c]]
    /\ UNCHANGED <<accountVars, tenantVars, grantVars, federationVars, links,
                   groupVars>>

\* The record is written as a whole, its status as it was read.
StoreUpdateSCIMConfiguration(c, row, rows) ==
    /\ Exists(configs, c) /\ configs[c].ws = row.ws
    /\ configs' = [configs EXCEPT ![c] = row]
    /\ Writes(row.ws, rows)
    /\ UNCHANGED <<accountVars, workspaces, grantVars, federationVars,
                   credentials, links, groupVars>>

StoreSaveSCIMCredential(k, c) ==
    /\ Exists(configs, c) /\ ~Exists(credentials, k)
    /\ credentials' = [credentials EXCEPT ![k] = [st |-> "live", config |-> c]]
    /\ UNCHANGED <<accountVars, tenantVars, grantVars, federationVars, configs,
                   links, groupVars>>

StoreRevokeSCIMCredential(c, k) ==
    /\ Exists(credentials, k) /\ credentials[k].config = c
    /\ credentials' = [credentials EXCEPT ![k].st = "revoked"]
    /\ UNCHANGED <<accountVars, tenantVars, grantVars, federationVars, configs,
                   links, groupVars>>

StoreDisableSCIMConfiguration(c) ==
    /\ Exists(configs, c)
    /\ configs' = [configs EXCEPT ![c].st = "disabled"]
    /\ credentials' = [k \in CredentialIDs |->
                         IF Exists(credentials, k) /\ credentials[k].config = c
                         THEN [credentials[k] EXCEPT !.st = "revoked"]
                         ELSE credentials[k]]
    /\ UNCHANGED <<accountVars, tenantVars, grantVars, federationVars, links,
                   groupVars>>

-----------------------------------------------------------------------------
(* Directory users.                                                        *)

NewLink(l, u, c, st) ==
    /\ ~Exists(links, l)
    /\ links' = [links EXCEPT ![l] = [st |-> st, user |-> u, config |-> c]]

\* A passwordless account; its address is verified when the configuration
\* trusts the directory's addresses.
StoreCreateSCIMUser(l, c, u, e, a, verified, row, st) ==
    /\ Exists(configs, c)
    /\ NewAccount(u, e, a, verified, FALSE)
    /\ NewLink(l, u, c, st)
    /\ Joins(configs[c].ws, u, row)
    /\ UNCHANGED <<workspaces, grantVars, federationVars, configs, credentials,
                   groupVars>>

StoreAdoptSCIMUser(l, c, u, row, st) ==
    /\ Exists(configs, c) /\ Exists(users, u)
    /\ memberships[configs[c].ws][u] # Absent
    /\ NewLink(l, u, c, st)
    /\ Joins(configs[c].ws, u, row)
    /\ UNCHANGED <<accountVars, workspaces, grantVars, federationVars, configs,
                   credentials, groupVars>>

\* The membership row is the one read, with its status set.
StoreUpdateSCIMUser(l, w, st, row, revoke) ==
    /\ Exists(links, l)
    /\ links' = [links EXCEPT ![l].st = st]
    /\ Joins(w, links[l].user, row)
    /\ pats' = IF revoke THEN RevokedFor({links[l].user}, {w}) ELSE pats
    /\ UNCHANGED <<accountVars, workspaces, admins, invitations,
                   federationVars, configs, credentials, groupVars>>

-----------------------------------------------------------------------------
(* Groups.                                                                 *)

\* scimGroupExternal with the identifier of group g as it is removed.
Unkeyed(c, g) == IF Exists(groups, g) /\ groups[g].ext # None
                 THEN [groupKeys EXCEPT ![c][groups[g].ext] = None]
                 ELSE groupKeys

\* A deleted group is written like any other.
StoreUpsertSCIMGroup(g, row, w, rows) ==
    LET c == row.config IN
    /\ Exists(configs, c)
    /\ Exists(groups, g) => groups[g].config = c
    /\ row.ext # None => groupKeys[c][row.ext] \in {None, g}
    /\ groups' = [groups EXCEPT ![g] = row]
    /\ groupKeys' = IF row.ext = None THEN Unkeyed(c, g)
                    ELSE [Unkeyed(c, g) EXCEPT ![c][row.ext] = g]
    /\ Writes(w, rows)
    /\ UNCHANGED <<accountVars, workspaces, grantVars, federationVars, configs,
                   credentials, links>>

StoreDeleteSCIMGroup(g, row, w, rows) ==
    /\ Exists(groups, g)
    /\ groups' = [groups EXCEPT ![g] = [row EXCEPT !.st = "deleted"]]
    /\ groupKeys' = Unkeyed(row.config, g)
    /\ Writes(w, rows)
    /\ UNCHANGED <<accountVars, workspaces, grantVars, federationVars, configs,
                   credentials, links>>
=============================================================================
