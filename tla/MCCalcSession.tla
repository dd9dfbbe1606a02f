--------------------------- MODULE MCCalcSession ---------------------------
(* Instances of CalcSession for TLC: the constants are in the .cfg files. *)
EXTENDS CalcSession, TLC
=============================================================================
