--------------------------- MODULE MCEstimateCalc ---------------------------
(* Small instances of EstimateCalc for TLC. *)
EXTENDS EstimateCalc, TLC

Interchangeable ==
  Permutations(Lines) \cup Permutations(Specs) \cup Permutations(Envs)
    \cup Permutations(Saves) \cup Permutations(Starts) \cup Permutations(Consumers)
=============================================================================
