------------------------- MODULE MCDecisionPipeline -------------------------
(***************************************************************************)
(* An instance of DecisionPipeline for TLC.                                *)
(***************************************************************************)
EXTENDS DecisionPipeline, TLC

RideSymmetry == Permutations(Rides)
=============================================================================
