--------------------------- MODULE MCLivePosition ---------------------------
(***************************************************************************)
(* LivePosition on one or two rows of a symbol.                            *)
(***************************************************************************)
EXTENDS LivePosition, TLC

CONSTANTS t1, t2

MCRows == {t1, t2}
MCSymmetry == Permutations(MCRows)

=============================================================================
