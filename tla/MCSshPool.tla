------------------------------ MODULE MCSshPool ------------------------------
(* Interchangeable goroutines and connections. *)
EXTENDS SshPool, TLC

Symmetry == Permutations(Workers) \cup Permutations(Conns)
=============================================================================
