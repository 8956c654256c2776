--------------------------- MODULE MCBlockGossip ---------------------------
(* Instances of BlockGossip for TLC: the constants are given in the .cfg. *)
EXTENDS BlockGossip
=============================================================================
