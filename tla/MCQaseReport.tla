---------------------------- MODULE MCQaseReport ----------------------------
(* Two suites of two cases, both reported. *)
EXTENDS QaseReport

CONSTANTS s1, s2

MCOutputs == AllOutputs \ {"skipped"}
MCCaseIds == [s \in Suites |-> IF s = s1 THEN 231 ELSE 237]
=============================================================================
