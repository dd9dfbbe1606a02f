----------------------------- MODULE MCCalcJobs -----------------------------
(* Small instances of CalcJobs for TLC. *)
EXTENDS CalcJobs, TLC
=============================================================================
