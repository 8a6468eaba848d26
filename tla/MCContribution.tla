--------------------------- MODULE MCContribution ---------------------------
(***************************************************************************)
(* Small instances of Contribution.                                        *)
(***************************************************************************)
EXTENDS Contribution, TLC

Symmetry == Permutations(Drives) \cup Permutations(Corrections)
=============================================================================
