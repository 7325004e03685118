--------------------------- MODULE MC_UnitTracker ---------------------------
(* Instances of UnitTracker for TLC.                                      *)
EXTENDS UnitTracker, TLC

\* Tool calls and job paths are interchangeable.
MCSymmetry == Permutations(Callers) \cup Permutations(Jobs)
=============================================================================
