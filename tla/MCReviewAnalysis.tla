-------------------------- MODULE MCReviewAnalysis --------------------------
(***************************************************************************)
(* Small instances of ReviewAnalysis.                                      *)
(***************************************************************************)
EXTENDS ReviewAnalysis, TLC

SlotSymmetry == Permutations(Creates) \cup Permutations(Jobs)
=============================================================================
