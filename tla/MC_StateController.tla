------------------------- MODULE MC_StateController -------------------------
(* One object, two workers, a two-state kind with two deferred write ops. *)
EXTENDS StateController, TLC

MCStates == {"S1", "S2"}
MCOps    == {"opA", "opB"}

(* Workers are interchangeable; objects are distinguished by nothing but id. *)
MCSymmetry == Permutations(Workers) \cup Permutations(Objects)
=============================================================================
