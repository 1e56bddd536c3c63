---------------------------- MODULE MCKeyRotation ----------------------------
(* Constants of KeyRotation for TLC: what pins say besides kid and ts is one value. *)
EXTENDS KeyRotation, TLC

CONSTANTS old, new, next

MCKeyOf == [k \in Kid |-> k]
\* Kids that come after the first are interchangeable.
KidSymmetry == Permutations(Kid \ {First})

MCNonFinite == {}
MCGrid == [w \in Widths |-> {"x"}]
MCRound == [d \in Dtypes |-> [x \in {"x"} |-> x]]
MCNfc == [t \in {"t"} |-> t]
MCUnhashable == {}
MCForms == {"entry", "bytes"}
MCNoExtra == [k \in Reserved |-> None]
MCDigest == [dtype |-> "f32", dim |-> 1, val |-> "x"]
=============================================================================
