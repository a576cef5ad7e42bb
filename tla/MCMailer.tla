------------------------------ MODULE MCMailer ------------------------------
(* Mailer for TLC.  Senders and connections only differ by their names.     *)
EXTENDS Mailer, TLC

Symmetry == Permutations(Senders) \cup Permutations(Conns)

=============================================================================
