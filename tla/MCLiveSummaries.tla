---------------------------- MODULE MCLiveSummaries ----------------------------
(* LiveSummaries on a small instance for TLC. *)
EXTENDS LiveSummaries, TLC
=============================================================================
