---------------------------- MODULE MCBlockQueue ----------------------------
(* BlockQueue for TLC: more consumers than the queue has room. *)
EXTENDS BlockQueue
=============================================================================
