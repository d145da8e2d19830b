------------------------------ MODULE MCFanOut ------------------------------
(* Three nodes, every operation. *)
EXTENDS FanOut

MCKinds == AllKinds
=============================================================================
