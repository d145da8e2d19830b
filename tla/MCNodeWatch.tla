----------------------------- MODULE MCNodeWatch -----------------------------
(* Three interchangeable nodes and every threshold from zero to one too many. *)
EXTENDS NodeWatch

MCMinReady == 0..Cardinality(Nodes) + 1
=============================================================================
