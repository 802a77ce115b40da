---------------------------- MODULE MCSlotSearch ----------------------------
(* SlotSearch over every occupancy of a small cache. *)
EXTENDS SlotSearch, TLC
=============================================================================
