---------------------------- MODULE MCSafetyNet ----------------------------
(***************************************************************************)
(* Instances of SafetyNet for TLC.                                         *)
(***************************************************************************)
EXTENDS SafetyNet, TLC

Symmetry == Permutations(Tasks) \cup Permutations(Sims)
=============================================================================
