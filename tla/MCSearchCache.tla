--------------------------- MODULE MCSearchCache ---------------------------
(***************************************************************************)
(* Small instances of SearchCache: a flat of one tenant, a villa of        *)
(* another, a query that lets both through and one that finds the villa.   *)
(***************************************************************************)
EXTENDS SearchCache, TLC

CONSTANTS flat, villa, t1, t2, everything, villas

MCTenantOf == [p \in Properties |-> IF p = flat THEN t1 ELSE t2]
MCSelects == [k \in Queries |-> IF k = everything THEN Properties
                                ELSE Properties \cap {villa}]

SlotSymmetry == Permutations(Searches) \cup Permutations(Admins)
=============================================================================
