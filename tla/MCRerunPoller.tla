---------------------------- MODULE MCRerunPoller ----------------------------
(* Two poller pids and a few runs; the runs are interchangeable. *)
EXTENDS RerunPoller, TLC

Symmetry == Permutations(Runs) \cup Permutations(Pollers)
=============================================================================
