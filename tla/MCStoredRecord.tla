---------------------------- MODULE MCStoredRecord ----------------------------
(* Constants of StoredRecord for TLC. Contents: "a" is exact in every width, "b" *)
(* in 32 bits, "a+" is "a" plus bits only 64-bit elements and integers hold,     *)
(* "huge" overflows to infinity in 32 bits, "nan" holds a NaN.                   *)
EXTENDS StoredRecord

MCValue == {"a", "b", "a+", "huge", "inf", "nan"}
MCNonFinite == {"inf", "nan"}
MCGrid == [w \in Widths |->
  CASE w = "f16" -> {"a", "inf", "nan"}
    [] w = "f32" -> {"a", "b", "inf", "nan"}
    [] w = "int" -> {"a", "a+"}
    [] OTHER -> MCValue]
MCRound == [d \in Dtypes |-> [x \in MCValue |->
  IF d = "f64" THEN x ELSE CASE x = "a+" -> "a" [] x = "huge" -> "inf" [] OTHER -> x]]
MCNfc == [t \in Text |-> t]
MCInput == {Arr(w, x) : w \in {"f16", "f32", "f64", "int"}, x \in {"a", "b", "a+", "huge"}}
MCInputs == {a \in MCInput : IsArray(a)}
MCSetup == Setups
MCSetupLance == {s \in Setups : s.backend = "lancedb" /\ s.column = "f32"}
=============================================================================
