---------------------------- MODULE StoredRecord ----------------------------
(***************************************************************************)
(* From a row in a backend to the PinnedRecord the verifier sees: the      *)
(* element type the backend persists, the width its client delivers, the   *)
(* width the adapter declares, and vector_from_store between them          *)
(* (adapters/base.py); the five adapters' row converters; and what the     *)
(* verifier then makes of the record.  One row, pinned when it is inserted *)
(* and rewritten by others.                                                *)
(***************************************************************************)
EXTENDS PinProtocol

CONSTANTS
  Setup,         \* the deployments: [backend, column, declared]
  Input,         \* embeddings as they are pinned and inserted
  NaN,           \* contents with a NaN
  Raised,        \* the ValueError of a converter
  TheKid, TheKey, TheModel, TheText,
  MaxRewrites    \* bound: changes of the row by others

\* column: the element type that is persisted. declared: the type the adapter
\* takes it for; LanceDB reads the schema, Qdrant is told by the operator.
Setups ==
  [backend : {"lancedb"}, column : {"f16", "f32", "f64", "int"}, declared : {"schema"}]
  \cup [backend : {"pgvector"}, column : {"f16", "f32"}, declared : {"f32"}]
  \cup [backend : {"chroma", "pinecone"}, column : {"f32"}, declared : {"f32"}]
  \cup [backend : {"qdrant"}, column : {"f16", "f32"}, declared : {"f16", "f32", "f64"}]

StoredAssumption ==
  /\ Setup \subseteq Setups
  /\ Input \subseteq {a \in Array : IsArray(a) /\ a.dim = 1}
  /\ NaN \subseteq NonFinite
  /\ TheKid \in Kid /\ TheKey \in Key /\ TheModel \in Model /\ TheText \in Text
  /\ TheText \notin Unhashable
  /\ MaxRewrites \in Nat
  /\ None \notin Value /\ Raised # None

ASSUME StoredAssumption

\* What a pin field can hold: nothing, JSON null, the pin as text or as an object,
\* text that is blank, an empty object, text that is no pin, another JSON type.
Raw == {"missing", "null", "text", "object", "blank", "empty", "broken", "other"}

Row == [val : Opt(Value), raw : Raw]

\* The marks are no rows, statements, arrays or records.
MarkAssumption ==
  /\ None \notin Row /\ Raised \notin Array
  /\ None \notin [header : Header, arr : Array]
  /\ {None, Raised} \cap [arr : Array, field : Field] = {}

ASSUME MarkAssumption

VARIABLES
  setup,     \* the deployment
  row,       \* its contents (None for a NULL vector) and pin field; or None
  statement, \* what the honest signer signed: the header and the array; or None
  record,    \* what the adapter made of the row: [arr, field], Raised or None
  rewrites

vars == <<setup, row, statement, record, rewrites>>

Arr(w, x) == [width |-> w, dim |-> 1, val |-> x]

-----------------------------------------------------------------------------
(* What the backends' clients hand over for contents x, and the dtype the  *)
(* adapter asks vector_from_store for. Lists of floats are 64 bits wide.   *)

\* to_pylist, and the element type of the Arrow schema.
FromLance(x) ==
  {[arr |-> Arr(IF setup.column = "int" THEN "int" ELSE "f64", x), native |-> setup.column]}

\* An array of the persisted type when the type adapter is registered, or a list.
FromPg(x) == {[arr |-> Arr(w, x), native |-> "f32"] : w \in {setup.column, "f64"}}

\* A float32 or float64 array or a list, by client version.
FromChroma(x) == {[arr |-> Arr(w, x), native |-> "f32"] : w \in {"f32", "f64"}}

FromPinecone(x) == {[arr |-> Arr("f64", x), native |-> "f32"]}

FromQdrant(x) == {[arr |-> Arr("f64", x), native |-> setup.declared]}

Delivered(x) ==
  CASE setup.backend = "lancedb"  -> FromLance(x)
    [] setup.backend = "pgvector" -> FromPg(x)
    [] setup.backend = "chroma"   -> FromChroma(x)
    [] setup.backend = "pinecone" -> FromPinecone(x)
    [] setup.backend = "qdrant"   -> FromQdrant(x)

\* Mutant: what is wider is narrowed without the round trip.
VectorFromStoreUnchecked(arr, native) ==
  Arr(native, arr.val)

\* Mutant: every vector becomes single precision, as adapters once made it.
VectorFromStoreSingle(arr, native) == Arr("f32", Round["f32"][arr.val])

\* Mutant: the transport's width is taken for the store's.
VectorFromStoreVerbatim(arr, native) == arr

\* base.py. A float array is narrowed only if nothing is lost -- a NaN is not
\* equal to itself -- and widened freely; an integer array here is always of
\* the integer type its column persists.
VectorFromStore(arr, native) ==
  IF /\ Itemsize[arr.width] > Itemsize[native]
     /\ arr.val \notin Grid[native] \ NaN
  THEN Raised ELSE Arr(native, arr.val)

\* parse_pin_field; pgvector writes other JSON types out again as text first.
FieldOf(raw, pin) ==
  CASE raw \in {"missing", "null"} -> NoField
    [] raw \in {"text", "object"}  -> ParsePinField(JsonField(pin))
    [] OTHER                       -> BadField

ThePin == SignPin(TheKey, statement.header)

-----------------------------------------------------------------------------
Init ==
  /\ setup \in Setup
  /\ row = None /\ statement = None /\ record = None
  /\ rewrites = 0

NoIds == [k \in Reserved |-> None]

\* Pin an embedding and insert it; the backend keeps it at its own precision.
Ingest(a, d, raw) ==
  LET h == SignedHeader(TheKid, TheModel, None, a, TheText, d, NoIds, 0)
      x == IF setup.column \in Dtypes THEN Round[setup.column][a.val] ELSE a.val IN
  /\ row = None /\ CanSign(a, TheText, d) /\ raw \in {"text", "object"}
  /\ x \in Grid[setup.column]
  /\ statement' = [header |-> h, arr |-> a]
  /\ row' = [val |-> x, raw |-> raw]
  /\ UNCHANGED <<setup, record, rewrites>>

\* Somebody writes other contents, a NULL vector or another pin field; Postgres
\* and Pinecone take no NaN.
Rewrite(x, raw) ==
  /\ row # None /\ record = None /\ rewrites < MaxRewrites
  /\ x \in Grid[setup.column] \cup {None}
  /\ x \in NaN => setup.backend \in {"lancedb", "chroma", "qdrant"}
  /\ row' = [val |-> x, raw |-> raw] /\ row' # row
  /\ rewrites' = rewrites + 1
  /\ UNCHANGED <<setup, statement, record>>

\* get or one step of iter_records: the row becomes a record, or a ValueError.
\* A NULL is refused by each converter or by vector_from_store (no 1-D shape).
Convert ==
  /\ row # None /\ record = None
  /\ IF row.val = None THEN record' = Raised
     ELSE \E m \in Delivered(row.val) :
            LET arr == VectorFromStore(m.arr, m.native) IN
            record' = IF arr = Raised THEN Raised
                      ELSE [arr |-> arr, field |-> FieldOf(row.raw, ThePin)]
  /\ UNCHANGED <<setup, row, statement, rewrites>>

Next ==
  \/ \E a \in Input, d \in Opt(Dtypes), raw \in Raw : Ingest(a, d, raw)
  \/ \E x \in Opt(Value), raw \in Raw : Rewrite(x, raw)
  \/ Convert

Spec == Init /\ [][Next]_vars

-----------------------------------------------------------------------------
Registered == [k \in Kid |-> IF k = TheKid THEN [key |-> TheKey, from |-> None, until |-> None]
                                           ELSE None]
Strict == [source_key |-> FALSE, enforce |-> TRUE, unpinned |-> FALSE,
           model |-> None, model_hash |-> None, ids |-> NoIds]
Converted == record \notin {None, Raised}
Verdict == VerifyRecord(Registered, None, record.arr, None, record.field, Strict)

\* What the store holds is, to the last bit, the rounding the pin states.
Vouched == row.val = Round[statement.header.vec_dtype][statement.arr.val]

TypeOK ==
  /\ setup \in Setup
  /\ row # None => row \in Row
  /\ statement # None => statement.header \in Header /\ statement.arr \in Input
  /\ Converted => IsArray(record.arr) /\ record.field \in Field
  /\ rewrites \in 0..MaxRewrites

\* A record that verifies has no bit in the store that the pin does not cover, at
\* whatever width it was delivered and even if the adapter was told a narrower
\* type than the collection persists (tests/test_adapter_native_dtype.py).
NoHiddenBits == Converted /\ Verdict = "OK" => Vouched

\* A row nobody touched, pinned under the dtype its column persists (or a wider
\* one than its values need), verifies through every client, if the adapter is
\* told the truth: the transport's width raises no alarm.
HonestRowVerifies ==
  /\ record # None /\ rewrites = 0 /\ setup.column # "int"
  /\ setup.backend = "qdrant" => setup.declared = setup.column
  /\ Vouched /\ Itemsize[setup.column] <= Itemsize[statement.header.vec_dtype]
  => Converted /\ Verdict = "OK"

\* base.py:185, get_verified: "Never raises on record content."
RowNeverRaises == row # None /\ row.val # None => record # Raised
=============================================================================
