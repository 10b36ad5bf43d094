----------------------------- MODULE MCRentals -----------------------------
(***************************************************************************)
(* Small instances of Rentals: two tenants, a guest, an admin of the first *)
(* tenant and a platform admin.  Which operations clients use is chosen in *)
(* each .cfg.                                                              *)
(***************************************************************************)
EXTENDS Rentals, TLC

CONSTANTS guest, host, root,   \* users
          t1, t2,              \* tenants
          flat, villa          \* properties, of t1 and of t2

MCRole == [u \in Users |-> CASE u = guest -> "USER"
                             [] u = host -> "TENANT_ADMIN"
                             [] u = root -> "SUPER_ADMIN"]
MCTenantOfUser == [u \in Users |-> IF u = host THEN t1 ELSE None]
MCTenantOf == [p \in Properties |-> IF p = flat THEN t1 ELSE t2]

\* No handler reads the notifications, and no calendar property does.
Calendar == <<listing, booking, block, payment, invoice, req>>

RequestSymmetry == Permutations(Requests)
=============================================================================
