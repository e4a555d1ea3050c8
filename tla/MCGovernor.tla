----------------------------- MODULE MCGovernor -----------------------------
(***************************************************************************)
(* An instance of Governor for TLC.  A proposal is unfit for its price or  *)
(* its confidence, or fit.                                                 *)
(***************************************************************************)
EXTENDS Governor, TLC

RideSymmetry == Permutations(Rides)
=============================================================================
