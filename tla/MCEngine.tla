------------------------------ MODULE MCEngine ------------------------------
(* Instances of Engine for TLC.                                            *)
EXTENDS Engine, TLC

(* Jobs outside Scheduled are interchangeable, and so are the workers.     *)
Symmetry == Permutations(Jobs \ Scheduled) \cup Permutations(Workers)

=============================================================================
