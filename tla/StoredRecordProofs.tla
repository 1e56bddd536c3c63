------------------------- MODULE StoredRecordProofs -------------------------
(***************************************************************************)
(* Theorems about StoredRecord, for every grid and rounding of the widths, *)
(* every set of deployments and inputs and any number of rewrites.         *)
(***************************************************************************)
EXTENDS StoredRecord, TLAPS

\* The statement is what Signer.pin makes of one of the inputs.
HeaderOf(a, d) == SignedHeader(TheKid, TheModel, None, a, TheText, d, NoIds, 0)
Truthful ==
  statement # None =>
    \E a \in Input, d \in Opt(Dtypes) :
      CanSign(a, TheText, d) /\ statement = [header |-> HeaderOf(a, d), arr |-> a]

\* The store keeps what its column can hold, and the pin next to it.
OnGrid == row # None => /\ statement # None
                        /\ row.val # None => row.val \in Grid[setup.column]

\* A row nobody rewrote has a vector and the signer's pin.
Untouched == row # None /\ rewrites = 0 => row.val # None /\ row.raw \in {"text", "object"}

\* The record is what the adapter makes of the row as it is.
Outcome(m) == LET arr == VectorFromStore(m.arr, m.native) IN
  IF arr = Raised THEN Raised ELSE [arr |-> arr, field |-> FieldOf(row.raw, ThePin)]
Current ==
  record # None =>
    /\ row # None
    /\ row.val = None => record = Raised
    /\ row.val # None => \E m \in Delivered(row.val) : record = Outcome(m)

Types ==
  /\ setup \in Setup
  /\ row # None => row \in Row
  /\ rewrites \in 0..MaxRewrites

IInv == Types /\ Truthful /\ OnGrid /\ Untouched /\ Current

-----------------------------------------------------------------------------
(* The signer.                                                             *)

\* What Signer.pin states of an input.
LEMMA HeaderFacts ==
  ASSUME NEW a \in Array, NEW d \in Opt(Dtypes), CanSign(a, TheText, d)
  PROVE  LET h == HeaderOf(a, d) IN
         /\ h \in Header /\ h.v = 2 /\ h.kid = TheKid /\ h.ts = 0
         /\ h.vec_dim = a.dim /\ h.vec_dim > 0 /\ h.vec_dtype \in Dtypes
         /\ h.vec_hash = HashVector(a, h.vec_dtype)
         /\ Round[h.vec_dtype][a.val] \notin NonFinite
         /\ h.extra = NoIds
<1> DEFINE dt == SignableDtype(a, d)
           h == HeaderOf(a, d)
<1>1. a.dim > 0 /\ Round[dt][a.val] \notin NonFinite BY DEF CanSign
<1>2. dt \in Dtypes BY DEF CanSign, SignableDtype, NativeDtype, Opt, Dtypes
<1>3. HashVector(a, dt) \in Digest
  BY <1>2, PrecisionAssumption DEF PrecisionAssumption, HashVector, Digest, Array
<1>4. NoIds \in [Reserved -> Opt(Name)] BY DEF NoIds, Opt
<1>5. HashText(TheText) \in Text
  BY StoredAssumption, TextAssumption DEF StoredAssumption, TextAssumption, HashText
<1>6. a.dim \in Nat BY DEF Array
<1>7. h = [v |-> 2, kid |-> TheKid, model |-> TheModel, model_hash |-> None,
           source_hash |-> HashText(TheText), vec_hash |-> HashVector(a, dt),
           vec_dtype |-> dt, vec_dim |-> a.dim, ts |-> 0, extra |-> NoIds]
  BY DEF HeaderOf, SignedHeader
<1> HIDE DEF dt, h
<1>8. h \in Header
  BY <1>2, <1>3, <1>4, <1>5, <1>6, <1>7, StoredAssumption DEF StoredAssumption, Header, Opt
<1> QED BY <1>1, <1>2, <1>7, <1>8 DEF h

LEMMA InputType == Input \subseteq {a \in Array : IsArray(a) /\ a.dim = 1}
BY StoredAssumption DEF StoredAssumption

\* The signer's pin parses.
LEMMA ThePinFacts ==
  ASSUME NEW h \in Header, h.v = 2, h.ts = 0, h.vec_dim > 0
  PROVE  /\ SignPin(TheKey, h) \in Pin
         /\ SignPin(TheKey, h).sig # None
         /\ ParsePinField(JsonField(SignPin(TheKey, h))) = JsonField(SignPin(TheKey, h))
<1> DEFINE p == SignPin(TheKey, h)
<1>1. Canonical(h) \in Message
  <2>1. h \in Body BY DEF Header, Body, Opt
  <2> QED BY <2>1 DEF Canonical, CanonicalV2, Message
<1>2. [key |-> TheKey, msg |-> Canonical(h)] \in Signature
  BY <1>1, StoredAssumption DEF StoredAssumption, Signature
<1>3. p.header = h /\ p.sig = [key |-> TheKey, msg |-> Canonical(h)] /\ p \in Pin
  BY <1>2 DEF SignPin, Pin, Opt
<1>4. p.sig # None BY <1>2, <1>3, NoneAssumption DEF NoneAssumption
<1> HIDE DEF p
<1>5. Parses(p) BY <1>3, <1>4 DEF Parses
<1>6. ParsePinField(JsonField(p)) = JsonField(p) BY <1>5 DEF ParsePinField, JsonField
<1> QED BY <1>3, <1>4, <1>6 DEF p

-----------------------------------------------------------------------------
(* The adapters.                                                           *)

Floats == {"f16", "f32", "f64"}

LEMMA SetupFacts == Setup \subseteq Setups
BY StoredAssumption DEF StoredAssumption

\* A width that is not larger holds no more contents.
LEMMA GridOrder ==
  ASSUME NEW u \in Floats, NEW w \in Floats, Itemsize[u] <= Itemsize[w]
  PROVE  Grid[u] \subseteq Grid[w]
<1>1. Itemsize["f16"] = 2 /\ Itemsize["f32"] = 4 /\ Itemsize["f64"] = 8
  BY DEF Itemsize, Widths
<1> QED BY <1>1, PrecisionAssumption DEF PrecisionAssumption, Floats

\* Whatever a client delivers holds the contents of the row, in a width that has them.
LEMMA DeliveredFacts ==
  ASSUME setup \in Setups, NEW x \in Grid[setup.column], x \in Value, NEW m \in Delivered(x)
  PROVE  /\ m.arr \in Array /\ m.arr.val = x /\ m.arr.dim = 1 /\ x \in Grid[m.arr.width]
         /\ \/ m.arr.width \in Floats /\ m.native \in Floats
            \/ m.arr.width = "int" /\ m.native = "int"
<1>1. \A w \in Floats : w \in Widths BY DEF Floats, Widths
<1>2. \A w \in Widths : Arr(w, x) \in Array /\ Arr(w, x).val = x /\ Arr(w, x).dim = 1
                        /\ Arr(w, x).width = w
  BY DEF Arr, Array
<1>3. "f16" \in Floats /\ "f32" \in Floats /\ "f64" \in Floats /\ "int" \in Widths
  BY DEF Floats, Widths
<1>4. setup.column \in Floats => x \in Grid["f64"]
  BY PrecisionAssumption DEF PrecisionAssumption, Floats
<1>5. CASE setup.backend = "lancedb"
  <2>1. setup.column \in Floats \cup {"int"} BY <1>5 DEF Setups, Floats
  <2>2. m = [arr |-> Arr(IF setup.column = "int" THEN "int" ELSE "f64", x),
             native |-> setup.column]
    BY <1>5 DEF Delivered, FromLance
  <2>3. CASE setup.column = "int"
    <3>1. m.arr = Arr("int", x) /\ m.native = "int" BY <2>2, <2>3
    <3> QED BY <1>2, <1>3, <2>3, <3>1
  <2>4. CASE setup.column \in Floats
    <3>1. setup.column # "int" BY <2>4 DEF Floats
    <3>2. m.arr = Arr("f64", x) /\ m.native = setup.column BY <2>2, <3>1
    <3> QED BY <1>1, <1>2, <1>3, <1>4, <2>4, <3>2
  <2> QED BY <2>1, <2>3, <2>4
<1>6. CASE setup.backend # "lancedb"
  <2>1. setup.column \in Floats /\ setup.declared \in Floats
    BY <1>6 DEF Setups, Floats
  <2>2. \E w \in Floats, n \in Floats :
          m.arr = Arr(w, x) /\ m.native = n /\ (w = setup.column \/ w = "f64")
    <3>1. CASE setup.backend = "pgvector" BY <2>1, <1>3, <3>1 DEF Delivered, FromPg
    <3>2. CASE setup.backend = "chroma"
      <4>1. setup.column = "f32" BY <3>2 DEF Setups
      <4> QED BY <4>1, <1>3, <3>2 DEF Delivered, FromChroma
    <3>3. CASE setup.backend = "pinecone" BY <2>1, <1>3, <3>3 DEF Delivered, FromPinecone
    <3>4. CASE setup.backend = "qdrant" BY <2>1, <1>3, <3>4 DEF Delivered, FromQdrant
    <3> QED BY <1>6, <3>1, <3>2, <3>3, <3>4 DEF Setups
  <2> QED BY <1>1, <1>2, <1>4, <2>1, <2>2
<1> QED BY <1>5, <1>6

\* vector_from_store narrows only what survives: an array that comes out holds the
\* delivered contents, in the declared width.
LEMMA VectorFacts ==
  ASSUME setup \in Setups, NEW x \in Grid[setup.column], x \in Value, NEW m \in Delivered(x),
         VectorFromStore(m.arr, m.native) # Raised
  PROVE  LET arr == VectorFromStore(m.arr, m.native) IN
         /\ arr \in Array /\ IsArray(arr)
         /\ arr.val = x /\ arr.dim = 1 /\ arr.width = m.native
<1> DEFINE arr == VectorFromStore(m.arr, m.native)
<1>1. /\ m.arr \in Array /\ m.arr.val = x /\ m.arr.dim = 1 /\ x \in Grid[m.arr.width]
      /\ \/ m.arr.width \in Floats /\ m.native \in Floats
         \/ m.arr.width = "int" /\ m.native = "int"
  BY DeliveredFacts
<1>2. /\ arr = Arr(m.native, x)
      /\ Itemsize[m.arr.width] > Itemsize[m.native] => x \in Grid[m.native]
  BY <1>1 DEF VectorFromStore
<1>3. m.native \in Widths BY <1>1 DEF Floats, Widths
<1>4. arr \in Array /\ arr.val = x /\ arr.dim = 1 /\ arr.width = m.native
  BY <1>2, <1>3 DEF Arr, Array
<1>5. x \in Grid[m.native]
  <2>1. CASE m.arr.width = "int" /\ m.native = "int" BY <1>1, <2>1
  <2>2. CASE m.arr.width \in Floats /\ m.native \in Floats
    <3>1. Itemsize[m.arr.width] \in Nat /\ Itemsize[m.native] \in Nat
      BY <2>2 DEF Itemsize, Widths, Floats
    <3>2. CASE Itemsize[m.arr.width] <= Itemsize[m.native]
      BY <1>1, <2>2, <3>2, GridOrder
    <3> QED BY <1>2, <3>1, <3>2
  <2> QED BY <1>1, <2>1, <2>2
<1> HIDE DEF arr
<1>6. IsArray(arr) BY <1>4, <1>5 DEF IsArray
<1> QED BY <1>4, <1>6 DEF arr

-----------------------------------------------------------------------------
(* The verifier, on a record whose pin field is the signer's pin.          *)

\* With the registry and the policy of the model, every step but the vector's passes.
LEMMA VerdictOnPin ==
  ASSUME NEW h \in Header, h.v = 2, h.ts = 0, h.vec_dim > 0, h.kid = TheKid, h.extra = NoIds,
         NEW arr \in Array
  PROVE  LET v == VerifyRecord(Registered, None, arr, None,
                               JsonField(SignPin(TheKey, h)), Strict) IN
         v = "OK" <=> VectorStage(h, arr) = "OK"
<1> DEFINE p == SignPin(TheKey, h)
           q == [source |-> None, vector |-> arr, model |-> None, model_hash |-> None,
                 ids |-> [NoIds EXCEPT !["record_id"] = None], now |-> None]
           entry == [key |-> TheKey, from |-> None, until |-> None]
<1>1. /\ p.sig # None /\ ParsePinField(JsonField(p)) = JsonField(p)
      /\ p.header = h /\ p.sig = [key |-> TheKey, msg |-> Canonical(h)]
  BY ThePinFacts DEF SignPin
<1>2. entry # None
  <2>1. entry \in KeyEntry BY StoredAssumption DEF StoredAssumption, KeyEntry, Opt
  <2> QED BY <2>1, NoneAssumption DEF NoneAssumption
<1>3. Registered[TheKid] = entry BY StoredAssumption DEF StoredAssumption, Registered
<1>4. arr # None BY NoneAssumption DEF NoneAssumption
<1>5. VerifyRecord(Registered, None, arr, None, JsonField(p), Strict)
        = Verify(Registered, {2}, p, q)
  <2>1. JsonField(p).state = "json" /\ JsonField(p).pin = p BY DEF JsonField
  <2>2. h.extra["record_id"] = None BY DEF NoIds, Reserved
  <2> HIDE DEF p
  <2>3. /\ Strict.source_key = FALSE /\ Strict.model = None /\ Strict.model_hash = None
        /\ Strict.ids = NoIds
    BY DEF Strict
  <2> QED BY <1>1, <2>1, <2>2, <2>3 DEF VerifyRecord
<1> HIDE DEF p, entry
<1>6. KeyStage(Registered, {2}, p, None) = "OK"
  <2>1. entry.from = None /\ entry.until = None BY DEF entry
  <2> QED BY <1>1, <1>2, <1>3, <2>1 DEF KeyStage, WindowStage
<1>7. SignatureStage(Registered, p) = "OK"
  <2>1. entry.key = TheKey BY DEF entry
  <2> QED BY <1>1, <1>3, <2>1 DEF SignatureStage
<1>8. /\ q.source = None /\ q.vector = arr /\ q.model = None /\ q.model_hash = None
      /\ q.now = None /\ \A k \in Reserved : q.ids[k] = None
  BY DEF NoIds
<1>9. SourceStage(h, q.source) = "OK" /\ ModelStage(h, q.model, q.model_hash) = "OK"
  BY <1>8 DEF SourceStage, ModelStage
<1>10. ReplayStage(h, q.ids) = "OK" BY <1>8 DEF ReplayStage, Reserved
<1> HIDE DEF q
<1>11. Verify(Registered, {2}, p, q) = "OK" <=> VectorStage(h, arr) = "OK"
  BY <1>1, <1>6, <1>7, <1>8, <1>9, <1>10 DEF Verify
<1> QED BY <1>5, <1>11 DEF p

\* A field that is not the signer's pin is refused.
LEMMA VerdictWithoutPin ==
  ASSUME NEW arr, NEW f \in {NoField, BadField}
  PROVE  VerifyRecord(Registered, None, arr, None, f, Strict) # "OK"
<1>1. ParsePinField(f) = f /\ f.state \in {"absent", "unusable"}
  BY DEF ParsePinField, NoField, BadField
<1> QED BY <1>1 DEF VerifyRecord, Strict

\* The vector step passes exactly for a narrow enough array whose contents round to
\* those that were signed; what is on the dtype's grid rounds to itself.
LEMMA VectorStageFacts ==
  ASSUME NEW a \in Array, NEW h \in Header, h.vec_hash = HashVector(a, h.vec_dtype),
         h.vec_dim = a.dim, NEW arr \in Array, IsArray(arr)
  PROVE  VectorStage(h, arr) = "OK" <=>
           /\ arr.dim = a.dim /\ ~IsWiderThan(arr, h.vec_dtype) /\ arr.val \notin NonFinite
           /\ arr.val = Round[h.vec_dtype][a.val]
<1> DEFINE dt == h.vec_dtype
<1>1. dt \in Dtypes /\ arr # None BY NoneAssumption DEF Header, NoneAssumption
<1>2. ~IsWiderThan(arr, dt) => Round[dt][arr.val] = arr.val
  <2> SUFFICES ASSUME ~IsWiderThan(arr, dt) PROVE Round[dt][arr.val] = arr.val OBVIOUS
  <2>1. arr.width # "int" /\ ~(Itemsize[arr.width] > Itemsize[dt]) /\ arr.width \in Widths
    BY DEF IsWiderThan, Array
  <2>2. arr.width \in Floats /\ dt \in Floats /\ Itemsize[arr.width] <= Itemsize[dt]
    BY <1>1, <2>1 DEF Itemsize, Widths, Floats, Dtypes
  <2>3. arr.val \in Grid[dt] BY <2>2, GridOrder DEF IsArray
  <2> QED BY <1>1, <2>3, PrecisionAssumption DEF PrecisionAssumption
<1>3. HashVector(arr, dt) = HashVector(a, dt)
        <=> arr.dim = a.dim /\ Round[dt][arr.val] = Round[dt][a.val]
  BY DEF HashVector
<1> QED BY <1>1, <1>2, <1>3 DEF VectorStage

-----------------------------------------------------------------------------
LEMMA InitInvariant == Init => IInv
BY StoredAssumption
   DEF StoredAssumption, Init, IInv, Types, Truthful, OnGrid, Untouched, Current

LEMMA IngestKeeps ==
  ASSUME IInv, NEW a \in Input, NEW d \in Opt(Dtypes), NEW raw \in Raw, Ingest(a, d, raw)
  PROVE  IInv'
<1> DEFINE x == IF setup.column \in Dtypes THEN Round[setup.column][a.val] ELSE a.val
           s == [header |-> HeaderOf(a, d), arr |-> a]
           r == [val |-> x, raw |-> raw]
<1>1. /\ row = None /\ CanSign(a, TheText, d) /\ raw \in {"text", "object"}
      /\ x \in Grid[setup.column]
      /\ statement' = s /\ row' = r
      /\ UNCHANGED <<setup, record, rewrites>>
  BY DEF Ingest, HeaderOf
<1>2. a \in Array BY InputType
<1>3. x \in Value /\ x # None
  BY <1>2, PrecisionAssumption, StoredAssumption DEF PrecisionAssumption, StoredAssumption, Array
<1>4. r \in Row /\ r.val = x /\ r.raw = raw BY <1>3 DEF Row, Opt
<1>5. s \in [header : Header, arr : Array] BY <1>1, <1>2, HeaderFacts
<1>6. s # None /\ r # None BY <1>4, <1>5, MarkAssumption DEF MarkAssumption
<1>7. Truthful' BY <1>1 DEF Truthful
<1> HIDE DEF x, r, s
<1>8. record = None BY <1>1 DEF IInv, Current
<1> QED BY <1>1, <1>3, <1>4, <1>6, <1>7, <1>8
        DEF IInv, Types, OnGrid, Untouched, Current

LEMMA RewriteKeeps ==
  ASSUME IInv, NEW x \in Opt(Value), NEW raw \in Raw, Rewrite(x, raw)
  PROVE  IInv'
<1> DEFINE r == [val |-> x, raw |-> raw]
<1>1. /\ row # None /\ record = None /\ x \in Grid[setup.column] \cup {None}
      /\ row' = r /\ rewrites' = rewrites + 1 /\ rewrites' \in 0..MaxRewrites
      /\ UNCHANGED <<setup, statement, record>>
  BY StoredAssumption DEF Rewrite, StoredAssumption, IInv, Types
<1>2. r \in Row /\ r.val = x BY DEF Row
<1>3. rewrites' # 0 BY <1>1 DEF IInv, Types
<1> HIDE DEF r
<1> QED BY <1>1, <1>2, <1>3 DEF IInv, Types, Truthful, OnGrid, Untouched, Current

LEMMA ConvertKeeps == ASSUME IInv, Convert PROVE IInv'
<1>1. row # None /\ record = None /\ UNCHANGED <<setup, row, statement, rewrites>>
  BY DEF Convert
<1>2. row.val = None => record' = Raised BY DEF Convert
<1>3. row.val # None => \E m \in Delivered(row.val)' : record' = Outcome(m)'
  <2> SUFFICES ASSUME row.val # None
               PROVE  \E m \in Delivered(row.val)' : record' = Outcome(m)'
    OBVIOUS
  <2>1. PICK m \in Delivered(row.val) :
          LET arr == VectorFromStore(m.arr, m.native) IN
          record' = IF arr = Raised THEN Raised
                    ELSE [arr |-> arr, field |-> FieldOf(row.raw, ThePin)]
    BY DEF Convert
  <2>2. Delivered(row.val)' = Delivered(row.val)
    BY <1>1 DEF Delivered, FromLance, FromPg, FromChroma, FromPinecone, FromQdrant
  <2>3. ThePin' = ThePin BY <1>1 DEF ThePin
  <2>4. Outcome(m)' = Outcome(m) BY <1>1, <2>3 DEF Outcome
  <2>5. record' = Outcome(m) BY <2>1 DEF Outcome
  <2> QED BY <2>2, <2>4, <2>5
<1>4. Current'
  <2>1. row' # None BY <1>1
  <2>2. row'.val = None => record' = Raised BY <1>1, <1>2
  <2>3. row'.val # None => \E m \in Delivered(row.val)' : record' = Outcome(m)'
    BY <1>1, <1>3
  <2> QED BY <2>1, <2>2, <2>3 DEF Current
<1> QED BY <1>1, <1>4 DEF IInv, Types, Truthful, OnGrid, Untouched

LEMMA StepInvariant == IInv /\ [Next]_vars => IInv'
<1> SUFFICES ASSUME IInv, [Next]_vars PROVE IInv' OBVIOUS
<1>1. ASSUME NEW a \in Input, NEW d \in Opt(Dtypes), NEW raw \in Raw, Ingest(a, d, raw)
      PROVE  IInv'
  BY <1>1, IngestKeeps
<1>2. ASSUME NEW x \in Opt(Value), NEW raw \in Raw, Rewrite(x, raw) PROVE IInv'
  BY <1>2, RewriteKeeps
<1>3. CASE Convert BY <1>3, ConvertKeeps
<1>4. CASE UNCHANGED vars
  <2>1. UNCHANGED <<setup, row, statement, record, rewrites>> BY <1>4 DEF vars
  <2> QED BY <2>1
          DEF IInv, Types, Truthful, OnGrid, Untouched, Current, Delivered, FromLance,
              FromPg, FromChroma, FromPinecone, FromQdrant, Outcome, ThePin
<1> QED BY <1>1, <1>2, <1>3, <1>4 DEF Next

\* The inductive invariant holds always.
THEOREM Invariant == Spec => []IInv
BY InitInvariant, StepInvariant, PTL DEF Spec

-----------------------------------------------------------------------------
(* What the invariant says of a record.                                    *)

\* The statement, unfolded.
LEMMA StatementFacts ==
  ASSUME IInv, row # None
  PROVE  LET h == statement.header a == statement.arr IN
         /\ statement # None /\ a \in Input /\ a \in Array
         /\ h \in Header /\ h.v = 2 /\ h.kid = TheKid /\ h.ts = 0
         /\ h.vec_dim = a.dim /\ h.vec_dim > 0 /\ h.vec_dtype \in Dtypes
         /\ h.vec_hash = HashVector(a, h.vec_dtype)
         /\ Round[h.vec_dtype][a.val] \notin NonFinite
         /\ h.extra = NoIds
<1>1. statement # None BY DEF IInv, OnGrid
<1>2. PICK a \in Input, d \in Opt(Dtypes) :
        CanSign(a, TheText, d) /\ statement = [header |-> HeaderOf(a, d), arr |-> a]
  BY <1>1 DEF IInv, Truthful
<1>3. a \in Array BY InputType
<1> QED BY <1>1, <1>2, <1>3, HeaderFacts

\* A record comes from the row as it is, through vector_from_store.
LEMMA RecordFacts ==
  ASSUME IInv, Converted
  PROVE  /\ row # None /\ row.val # None
         /\ record.arr \in Array /\ IsArray(record.arr)
         /\ record.arr.val = row.val /\ record.arr.dim = 1
         /\ record.field = FieldOf(row.raw, ThePin)
         /\ row \in Row /\ setup \in Setups
<1>1. row # None /\ row.val # None BY DEF IInv, Current, Converted
<1>2. row \in Row /\ setup \in Setups BY <1>1, SetupFacts DEF IInv, Types
<1>3. row.val \in Value /\ row.val \in Grid[setup.column]
  BY <1>1, <1>2 DEF IInv, OnGrid, Row, Opt
<1>4. PICK m \in Delivered(row.val) : record = Outcome(m)
  BY <1>1 DEF IInv, Current, Converted
<1>5. VectorFromStore(m.arr, m.native) # Raised BY <1>4 DEF Outcome, Converted
<1>6. record = [arr |-> VectorFromStore(m.arr, m.native),
                field |-> FieldOf(row.raw, ThePin)]
  BY <1>4, <1>5 DEF Outcome
<1>7. /\ record.arr = VectorFromStore(m.arr, m.native)
      /\ record.field = FieldOf(row.raw, ThePin)
  BY <1>6
<1>8. /\ record.arr \in Array /\ IsArray(record.arr)
      /\ record.arr.val = row.val /\ record.arr.dim = 1
  BY <1>2, <1>3, <1>5, <1>7, VectorFacts
<1> QED BY <1>1, <1>2, <1>7, <1>8

\* The field of a record is the signer's pin, or there is none to check.
LEMMA FieldFacts ==
  ASSUME IInv, row # None
  PROVE  LET f == FieldOf(row.raw, ThePin) IN
         /\ f \in Field
         /\ f \in {NoField, BadField} \/ f = JsonField(ThePin)
         /\ row.raw \in {"text", "object"} => f = JsonField(ThePin)
<1>1. ParsePinField(JsonField(ThePin)) = JsonField(ThePin) /\ ThePin \in Pin
  BY StatementFacts, ThePinFacts DEF ThePin
<1> HIDE DEF ThePin
<1>2. NoField \in Field /\ BadField \in Field /\ JsonField(ThePin) \in Field
  BY <1>1 DEF NoField, BadField, JsonField, Field, Opt
<1> QED BY <1>1, <1>2 DEF FieldOf

\* The adapter only makes arrays of finite width and fields a pin can be in.
THEOREM TypeCorrect == Spec => []TypeOK
<1>1. IInv => TypeOK
  <2> SUFFICES ASSUME IInv PROVE TypeOK OBVIOUS
  <2>1. statement # None => statement.header \in Header /\ statement.arr \in Input
    <3> SUFFICES ASSUME statement # None
                 PROVE  statement.header \in Header /\ statement.arr \in Input
      OBVIOUS
    <3>1. PICK a \in Input, d \in Opt(Dtypes) :
            CanSign(a, TheText, d) /\ statement = [header |-> HeaderOf(a, d), arr |-> a]
      BY DEF IInv, Truthful
    <3>2. a \in Array BY InputType
    <3> QED BY <3>1, <3>2, HeaderFacts
  <2>2. Converted => IsArray(record.arr) /\ record.field \in Field
    BY RecordFacts, FieldFacts
  <2> QED BY <2>1, <2>2 DEF IInv, Types, TypeOK
<1> QED BY <1>1, Invariant, PTL

\* What verifies is in the store exactly as it was signed, whatever the client
\* delivered and whatever type the adapter was told.
THEOREM NoHiddenBitsEver == Spec => []NoHiddenBits
<1>1. IInv => NoHiddenBits
  <2> SUFFICES ASSUME IInv, Converted, Verdict = "OK" PROVE Vouched
    BY DEF NoHiddenBits
  <2>1. /\ row # None /\ record.arr \in Array /\ IsArray(record.arr)
        /\ record.arr.val = row.val /\ record.field = FieldOf(row.raw, ThePin)
    BY RecordFacts
  <2>2. record.field = JsonField(ThePin)
    BY <2>1, FieldFacts, VerdictWithoutPin DEF Verdict
  <2>3. VectorStage(statement.header, record.arr) = "OK"
    BY <2>1, <2>2, StatementFacts, VerdictOnPin DEF Verdict, ThePin
  <2> QED BY <2>1, <2>3, StatementFacts, VectorStageFacts DEF Vouched
<1> QED BY <1>1, Invariant, PTL

\* If the adapter is told the truth, the declared width is the column's.
LEMMA TrueWidth ==
  ASSUME setup \in Setups, setup.column # "int",
         setup.backend = "qdrant" => setup.declared = setup.column,
         NEW x, NEW m \in Delivered(x)
  PROVE  /\ m.native \in Floats /\ setup.column \in Floats
         /\ \/ m.native = setup.column
            \/ m.native = "f32" /\ setup.column = "f16"
<1>1. setup.column \in Floats BY DEF Setups, Floats
<1>2. CASE setup.backend = "lancedb"
  <2>1. m.native = setup.column BY <1>2 DEF Delivered, FromLance
  <2> QED BY <1>1, <2>1
<1>3. CASE setup.backend = "pgvector"
  <2>1. m.native = "f32" BY <1>3 DEF Delivered, FromPg
  <2>2. setup.column \in {"f16", "f32"} BY <1>3 DEF Setups
  <2> QED BY <2>1, <2>2 DEF Floats
<1>4. CASE setup.backend = "chroma"
  <2>1. m.native = "f32" BY <1>4 DEF Delivered, FromChroma
  <2>2. setup.column = "f32" BY <1>4 DEF Setups
  <2> QED BY <2>1, <2>2 DEF Floats
<1>5. CASE setup.backend = "pinecone"
  <2>1. m.native = "f32" BY <1>5 DEF Delivered, FromPinecone
  <2>2. setup.column = "f32" BY <1>5 DEF Setups
  <2> QED BY <2>1, <2>2 DEF Floats
<1>6. CASE setup.backend = "qdrant"
  <2>1. m.native = setup.declared BY <1>6 DEF Delivered, FromQdrant
  <2> QED BY <1>1, <1>6, <2>1
<1>7. setup.backend \in {"lancedb", "pgvector", "chroma", "pinecone", "qdrant"}
  BY DEF Setups
<1> QED BY <1>2, <1>3, <1>4, <1>5, <1>6, <1>7

\* The transport's width raises no alarm: a row nobody touched, of a type its pin
\* states, verifies through every client.
THEOREM HonestRowAlwaysVerifies == Spec => []HonestRowVerifies
<1>1. IInv => HonestRowVerifies
  <2> SUFFICES ASSUME IInv, record # None, rewrites = 0, setup.column # "int",
                      setup.backend = "qdrant" => setup.declared = setup.column,
                      Vouched, Itemsize[setup.column] <= Itemsize[statement.header.vec_dtype]
               PROVE  Converted /\ Verdict = "OK"
    BY DEF HonestRowVerifies
  <2> DEFINE h == statement.header
             x == row.val
  <2>1. row # None /\ x # None /\ row.raw \in {"text", "object"}
    BY DEF IInv, Current, Untouched
  <2>2. PICK m \in Delivered(x) : record = Outcome(m) BY <2>1 DEF IInv, Current
  <2>3. setup \in Setups BY SetupFacts DEF IInv, Types
  <2>4. x \in Value /\ x \in Grid[setup.column]
    BY <2>1 DEF IInv, Types, OnGrid, Row, Opt
  <2>5. /\ m.native \in Floats /\ setup.column \in Floats
        /\ \/ m.native = setup.column
           \/ m.native = "f32" /\ setup.column = "f16"
    BY <2>3, TrueWidth
  <2>6. Itemsize["f16"] = 2 /\ Itemsize["f32"] = 4 /\ Itemsize["f64"] = 8
    BY DEF Itemsize, Widths
  <2>7. x \in Grid[m.native]
    <3>1. Itemsize[setup.column] <= Itemsize[m.native] BY <2>5, <2>6 DEF Floats
    <3> QED BY <2>4, <2>5, <3>1, GridOrder
  <2>8. x \notin NonFinite /\ x = Round[h.vec_dtype][statement.arr.val]
    BY <2>1, StatementFacts DEF Vouched
  <2>9. VectorFromStore(m.arr, m.native) # Raised
    <3>1. m.arr.val = x BY <2>3, <2>4, DeliveredFacts
    <3>2. x \notin NaN BY <2>8, StoredAssumption DEF StoredAssumption
    <3>3. VectorFromStore(m.arr, m.native) = Arr(m.native, x)
      BY <2>7, <3>1, <3>2 DEF VectorFromStore
    <3>4. Arr(m.native, x) \in Array BY <2>4, <2>5 DEF Arr, Array, Floats, Widths
    <3> QED BY <3>3, <3>4, MarkAssumption DEF MarkAssumption
  <2>10. /\ record = [arr |-> VectorFromStore(m.arr, m.native),
                      field |-> FieldOf(row.raw, ThePin)]
         /\ record.arr = VectorFromStore(m.arr, m.native)
    BY <2>2, <2>9 DEF Outcome
  <2>11. /\ record.arr \in Array /\ IsArray(record.arr)
         /\ record.arr.val = x /\ record.arr.dim = 1 /\ record.arr.width = m.native
    BY <2>3, <2>4, <2>9, <2>10, VectorFacts
  <2>12. Converted
    <3>1. record.field \in Field BY <2>1, <2>10, FieldFacts
    <3>2. record \in [arr : Array, field : Field] BY <2>10, <2>11, <3>1
    <3> QED BY <3>2, MarkAssumption DEF MarkAssumption, Converted
  <2>13. ~IsWiderThan(record.arr, h.vec_dtype)
    <3>1. Itemsize[m.native] <= Itemsize[h.vec_dtype] /\ m.native # "int"
      <4>1. h.vec_dtype \in {"f32", "f64"} BY <2>1, StatementFacts DEF Dtypes
      <4> QED BY <2>5, <2>6, <4>1 DEF Floats
    <3>2. Itemsize[m.native] \in Nat /\ Itemsize[h.vec_dtype] \in Nat
      <4>1. h.vec_dtype \in {"f32", "f64"} BY <2>1, StatementFacts DEF Dtypes
      <4> QED BY <2>5, <2>6, <4>1 DEF Floats
    <3> QED BY <2>11, <3>1, <3>2 DEF IsWiderThan
  <2>14. statement.arr.dim = 1 BY <2>1, StatementFacts, InputType
  <2>15. VectorStage(h, record.arr) = "OK"
    BY <2>1, <2>8, <2>11, <2>13, <2>14, StatementFacts, VectorStageFacts
  <2>16. record.field = JsonField(ThePin) BY <2>1, <2>10, FieldFacts
  <2>17. Verdict = "OK"
    BY <2>1, <2>11, <2>15, <2>16, StatementFacts, VerdictOnPin DEF Verdict, ThePin
  <2> QED BY <2>12, <2>17
<1> QED BY <1>1, Invariant, PTL
=============================================================================
