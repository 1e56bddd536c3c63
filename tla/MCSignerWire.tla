----------------------------- MODULE MCSignerWire -----------------------------
(* Constants of SignerWire for TLC: ten strings and the callers' inputs.   *)
EXTENDS SignerWire, TLC

\* name, NFC form, code points, UTF-8 bytes, bytes as an escaped JSON string:
\* plain; too long for a kid or a key; an accented letter composed and decomposed;
\* a control character; a lone surrogate; a ts; a ts of the year 999.
Table == {
  <<"", "", 0, 0, 0>>, <<"vectorpin.record_id", "vectorpin.record_id", 1, 1, 1>>,
  <<"a", "a", 1, 1, 1>>, <<"aaaa", "aaaa", 4, 4, 4>>,
  <<"E", "E", 1, 2, 6>>, <<"E decomposed", "E", 2, 3, 7>>,
  <<"control", "control", 1, 1, 6>>, <<"surrogate", "surrogate", 1, 3, 6>>,
  <<"iso", "iso", 1, 1, 1>>, <<"year 999", "year 999", 1, 1, 1>>}
RowOf(s) == CHOOSE row \in Table : row[1] = s

MCStr == {row[1] : row \in Table}
MCNfc == [s \in MCStr |-> RowOf(s)[2]]
MCPoints == [s \in MCStr |-> RowOf(s)[3]]
MCBytes == [s \in MCStr |-> RowOf(s)[4]]
MCEscaped == [s \in MCStr |-> RowOf(s)[5]]

Base == [kid |-> "a", model |-> "E", model_hash |-> None, dim |-> 1,
         extra |-> << <<"vectorpin.record_id", "E">> >>, ts |-> "iso"]
Pair == MCStr \X {"a", "E", "E decomposed", "control", "surrogate", "aaaa"}
MCRequest ==
  [kid : MCStr, model : MCStr, model_hash : {None}, dim : {1}, extra : {Base.extra}, ts : {"iso"}]
  \cup {[Base EXCEPT !.extra = << >>]} \cup {[Base EXCEPT !.ts = s] : s \in MCStr} \cup {[Base EXCEPT !.extra = <<p>>] : p \in Pair}
  \cup {[Base EXCEPT !.extra = <<p, q>>] : p \in Pair, q \in {<<"E", "a">>, <<"a", "E">>}}
  \cup {[Base EXCEPT !.model_hash = h, !.dim = n, !.ts = t]
        : h \in Hash, n \in {1, 3, 4}, t \in {"iso", "year 999"}}

MCRequestDistinct ==
  {r \in MCRequest : \A m, n \in DOMAIN r.extra : r.extra[m][1] = r.extra[n][1] => m = n}
=============================================================================
