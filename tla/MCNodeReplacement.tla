-------------------------- MODULE MCNodeReplacement --------------------------
(* Clusters of one to five servers, with no agent, one and two.              *)
EXTENDS NodeReplacement

MCServerCounts == 1..5
MCAgentCounts == 0..2
=============================================================================
