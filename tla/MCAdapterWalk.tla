---------------------------- MODULE MCAdapterWalk ----------------------------
(* Constants of AdapterWalk for TLC. *)
EXTENDS AdapterWalk

MCId == 1..4
=============================================================================
