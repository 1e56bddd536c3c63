----------------------------- MODULE MCAttachPin -----------------------------
(* Symmetries of AttachPin's constants. *)
EXTENDS AttachPin, TLC

Symmetry == Permutations(Pass) \cup Permutations(Pin)
=============================================================================
