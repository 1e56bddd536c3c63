------------------------------ MODULE MCMerkle ------------------------------
(* Constants of Merkle for TLC: every walk of up to MaxLen entries over four    *)
(* entries, two of which have the same id, and longer ones whose tree would     *)
(* equal that of a shorter walk if repeated ids were let through.               *)
EXTENDS Merkle, TLC

CONSTANT MaxLen

E(i, h) == [id |-> i, hash |-> h]
Few == {E(1, "h"), E(1, ""), E(2, "h"), E(3, "h")}
Short == UNION {[1..n -> Few] : n \in 0..MaxLen}
Row == [i \in 1..7 |-> E(i, "h")]
Long == {SubSeq(Row, 1, n) : n \in 4..7}
        \cup {<<Row[1], Row[2], Row[3], Row[3]>>, SubSeq(Row, 1, 5) \o <<Row[5]>>}
        \cup {<<Row[3], Row[1], Row[5], Row[2], Row[4]>>, [SubSeq(Row, 1, 6) EXCEPT ![6].hash = ""]}
MCWalk == Short \cup Long
=============================================================================
