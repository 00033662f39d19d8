--------------------------- MODULE MCTenantSession ---------------------------
(***************************************************************************)
(* Two companies with a key each, and a key nobody minted.  The pages are  *)
(* the hooks that need each other: Plan mounts units with verify and the   *)
(* work system with its outcome; the others stand alone.                   *)
(***************************************************************************)
EXTENDS TenantSession

CONSTANTS acme, globex, keyA, keyG, placeholder

MCTenants == {acme, globex}
MCKeys == {keyA, keyG, placeholder}
MCOwner == [k \in MCKeys |-> CASE k = keyA -> acme [] k = keyG -> globex [] OTHER -> NoTenant]
MCPages == {{"units", "verify"}, {"workSystem", "outcome"}, {"claims"}, {"census"}, {"selected"}, {"plain"}}
=============================================================================
