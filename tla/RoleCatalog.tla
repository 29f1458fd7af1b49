------------------------------ MODULE RoleCatalog -----------------------------
(***************************************************************************)
(* The workspace role catalog that New compiles from the definitions a     *)
(* host configures: a set of records, each adding permissions and          *)
(* inherited roles to the role it names.                                   *)
(***************************************************************************)
EXTENDS Relation

BuiltIns == {"member", "admin"}
BuiltInPermissions(role) ==
    CASE role = "member" -> {"access"}
      [] role = "admin" -> {"access", "users.read", "users.write",
                            "settings.write", "rbac.write", "audit.read",
                            "credentials.manage", "oauth.resource.manage"}
      [] OTHER -> {}

CatalogRoles(configured) == BuiltIns \cup {d.role : d \in configured}

\* The definitions of one role are merged.
Named(configured, role) == {d \in configured : d.role = role}
Defined(configured, role) ==
    BuiltInPermissions(role)
    \cup UNION {d.permissions : d \in Named(configured, role)}

\* admin inherits from member, and so does every role a host adds.
Inherits(configured, role) ==
    (IF role = "member" THEN {} ELSE {"member"})
    \cup UNION {d.inherits : d \in Named(configured, role)}

\* The permissions of the catalog are those of all its definitions; admin is
\* given each of them, whoever defines it.
AllPermissions(configured) ==
    UNION {Defined(configured, role) : role \in CatalogRoles(configured)}
OwnPermissions(configured, role) ==
    IF role = "admin" THEN AllPermissions(configured)
    ELSE Defined(configured, role)

Inheritance(configured) ==
    LET roles == CatalogRoles(configured) IN
    [p \in roles \X roles |-> p[2] \in Inherits(configured, p[1])]

\* buildRoleCatalog accepts the definitions: inherited roles are known and
\* no role inherits from itself.
Compiles(configured) ==
    LET roles == CatalogRoles(configured) IN
    /\ \A role \in roles : Inherits(configured, role) \subseteq roles
    /\ IsIrreflexive(TransitiveClosure(Inheritance(configured), roles), roles)

\* compile: the roles a role includes, itself among them, and the permissions
\* they have together.
Includes(configured, role) ==
    LET roles == CatalogRoles(configured)
        reach == ReflexiveTransitiveClosure(Inheritance(configured), roles) IN
    {other \in roles : reach[role, other]}
Compiled(configured, role) ==
    UNION {OwnPermissions(configured, other) :
             other \in Includes(configured, role)}
=============================================================================
