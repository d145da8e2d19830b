----------------------------- MODULE MCSshRetry -----------------------------
(* Up to four attempts, with commands shorter and longer than the delay. *)
EXTENDS SshRetry

MCAttemptCounts == 1..4
MCDelays == 1..3
MCDurations == 0..4
=============================================================================
