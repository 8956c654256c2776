---------------------------- MODULE MCGasStation ----------------------------
(* Instances of GasStation for TLC: the constants are given in the .cfg. *)
EXTENDS GasStation
=============================================================================
