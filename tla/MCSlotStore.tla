---------------------------- MODULE MCSlotStore ----------------------------
(***************************************************************************)
(* Instances of SlotStore for TLC: a V2 pool with its reserves, and a V3   *)
(* pool with slot 0 and a slot for a tick outside the prefetched range.    *)
(***************************************************************************)
EXTENDS SlotStore

CONSTANTS v2, v3,               \* pools
          reserves, slot0, tick \* slots

TwoPools == [s \in {reserves, slot0, tick} |-> IF s = reserves THEN v2 ELSE v3]
=============================================================================
