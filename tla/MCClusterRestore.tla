-------------------------- MODULE MCClusterRestore --------------------------
(* Two servers and an agent, and up to two snapshots of etcd's own. *)
EXTENDS ClusterRestore

MCScheduled == {"midnight", "noon"}
=============================================================================
