---------------------------- MODULE MCAuditTrail ----------------------------
(***************************************************************************)
(* AuditTrail on small instances.                                          *)
(***************************************************************************)
EXTENDS AuditTrail, TLC

CONSTANTS r1, r2

\* Everything that commits, and verifications of what was committed.
TrailWorkload == {"passkeys", "clients", "verify"}

\* Clients alone, for the index by client_id.
ClientWorkload == {"clients"}

RequestSymmetry == Permutations({r1, r2})
=============================================================================
