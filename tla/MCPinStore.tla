------------------------------ MODULE MCPinStore ------------------------------
(* Constants of PinStore for TLC. Contents: "a" is exact in every width, "b" in *)
(* 32 bits, "a+" is "a" plus bits only 64-bit arrays hold.                          *)
EXTENDS PinStore, TLC

CONSTANTS honest, rogue

MCValue == {"a", "b", "a+", "inf"}
MCNonFinite == {"inf"}
MCGrid == [w \in Widths |->
  CASE w = "f16" -> {"a", "inf"} [] w = "f32" -> {"a", "b", "inf"} [] OTHER -> MCValue]
MCRound == [d \in Dtypes |-> [x \in MCValue |->
  IF d = "f64" THEN x ELSE IF x = "a+" THEN "a" ELSE x]]

\* "nfd" normalizes to "nfc".
MCText == {"nfc", "nfd", "other"}
MCNfc == [t \in Text |-> IF t = "nfd" THEN "nfc" ELSE t]
MCUnhashable == {}

A(w, v) == [width |-> w, dim |-> 1, val |-> v]
MCInput == {A("f64", "a"), A("f64", "a+"), A("f32", "b")}

NoIds == [k \in Reserved |-> None]
MCPolicy == [source_key |-> TRUE, enforce |-> TRUE, unpinned |-> FALSE,
             model |-> None, model_hash |-> None, ids |-> NoIds]
\* Pinning passes are interchangeable.
WorkerSymmetry == Permutations(Worker)

\* Headers one honest header can be turned into by editing one field.
Base(v, d, i) == [v |-> 2, kid |-> Honest, model |-> TheModel, model_hash |-> None,
  source_hash |-> "nfc", vec_hash |-> [dtype |-> d, dim |-> 1, val |-> v],
  vec_dtype |-> d, vec_dim |-> 1, ts |-> 0, extra |-> [NoIds EXCEPT !["record_id"] = i]]
MCEdited == {Base(v, d, i) : v \in {"a", "b"}, d \in {"f32"}, i \in Opt(Id)}
            \cup {[Base("a", "f32", None) EXCEPT !.v = 1],
                  [Base("a", "f64", None) EXCEPT !.vec_dtype = "f32"],
                  [Base("a", "f32", None) EXCEPT !.vec_dtype = "f64"],
                  [Base("a", "f32", None) EXCEPT !.source_hash = CHOOSE t \in Text : t \notin {"nfc", "nfd"}]}
=============================================================================
