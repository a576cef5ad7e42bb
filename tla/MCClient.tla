------------------------------ MODULE MCClient ------------------------------
(* Client for TLC.  Jobs only differ by their names.                        *)
EXTENDS Client, TLC

Symmetry == Permutations(Jobs)

=============================================================================
