------------------------------ MODULE MCServer ------------------------------
(* Instances of Server for TLC. *)
EXTENDS ServerHandoff, TLC

Symmetry ==
  Permutations(Workers) \cup Permutations(Fds) \cup Permutations(Conns)

=============================================================================
