------------------------------ MODULE MCKeygen ------------------------------
(* Constants of Keygen for TLC: the keygens are interchangeable. *)
EXTENDS Keygen, TLC

MCSymmetry == Permutations(Proc)
=============================================================================
