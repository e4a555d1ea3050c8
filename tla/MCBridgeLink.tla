---------------------------- MODULE MCBridgeLink ----------------------------
(***************************************************************************)
(* Instances of BridgeLink for TLC.                                        *)
(***************************************************************************)
EXTENDS BridgeLink, TLC
=============================================================================
