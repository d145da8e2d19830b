--------------------------- MODULE MCVersionBump ---------------------------
(* A row for all nodes, one for those with etcd, and one that comes after it. *)
EXTENDS VersionBump

MCRun == <<[etcd |-> FALSE, cmds |-> <<"node", "host">>],
           [etcd |-> TRUE,  cmds |-> <<"node">>],
           [etcd |-> FALSE, cmds |-> <<"host", "node">>]>>
=============================================================================
