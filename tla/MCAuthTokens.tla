---------------------------- MODULE MCAuthTokens ----------------------------
(***************************************************************************)
(* Small instances of AuthTokens.                                          *)
(***************************************************************************)
EXTENDS AuthTokens, TLC

CONSTANTS guest, ann, bob, acme

\* ann and bob administer a tenant; guest has registered, or will.
MCTenantOf == [u \in Users |-> IF u = guest THEN None ELSE acme]

\* The admins are alike; guest, of no tenant, is not one of them.
AccountSymmetry ==
  Permutations(Requests) \cup Permutations(Logins) \cup Permutations({ann, bob})
=============================================================================
