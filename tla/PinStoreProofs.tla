---------------------------- MODULE PinStoreProofs ----------------------------
(***************************************************************************)
(* Theorems about PinStore, for every choice of its constants.  The        *)
(* invariant is VerifiedWasSigned; what makes it inductive is that an      *)
(* honest signature found anywhere covers a statement in `signed`          *)
(* (KnownRows, KnownPins), that statements describe what was signed        *)
(* (Truthful) and that a stored vector lies on its width's grid (OnGrid).  *)
(***************************************************************************)
EXTENDS PinStore, TLAPS

Known(p, S) ==
  p.sig # None /\ p.sig.key = HonestKey =>
    \E s \in S : p.sig.msg = Canonical(s.header)

KnownRows == \A i \in Id : rows[i] # None /\ rows[i].field.state = "json" =>
  Known(rows[i].field.pin, signed)

KnownPins == \A w \in Worker : worker[w].phase = "signed" => Known(worker[w].pin, signed)

Truthful == \A s \in signed :
  /\ s.header.v = 2 /\ s.header.kid = Honest /\ s.header.model = TheModel
  /\ s.header.ts = 0 /\ s.header.vec_dim > 0
  /\ s.text \notin Unhashable
  /\ Round[s.header.vec_dtype][s.vec.val] \notin NonFinite
  /\ s.header.source_hash = Nfc[s.text]
  /\ s.header.vec_dim = s.vec.dim
  /\ s.header.vec_hash = HashVector(s.vec, s.header.vec_dtype)
  /\ s.header.extra["record_id"] \in {None, s.id}

OnGrid == \A i \in Id : rows[i] # None => rows[i].vec.val \in Grid[rows[i].vec.width]

\* The snapshot of a busy worker is a snapshot, its pin a pin.
Busy == \A w \in Worker :
  /\ worker[w].phase # "idle" => worker[w].snap \in Snapshot
  /\ worker[w].phase = "signed" => worker[w].pin \in Pin

\* A field that holds JSON holds a pin.
JsonIsPin == \A i \in Id : rows[i] # None /\ rows[i].field.state = "json" =>
  rows[i].field.pin \in Pin

TInv == TypeOK /\ Busy /\ JsonIsPin
IInv == TInv /\ KnownRows /\ KnownPins /\ Truthful /\ OnGrid

-----------------------------------------------------------------------------
LEMMA CanonicalType == \A h \in Header : Canonical(h) \in Message
<1> SUFFICES ASSUME NEW h \in Header PROVE Canonical(h) \in Message
  OBVIOUS
<1>1. h \in Body
  BY DEF Header, Body, Opt
<1>2. [h EXCEPT !.kid = None] \in Body
  BY DEF Header, Body, Opt
<1> QED
  BY <1>1, <1>2 DEF Canonical, CanonicalV1, CanonicalV2, Message

\* Canonical bytes of version 2 determine the header.
LEMMA CanonicalInjective ==
  ASSUME NEW g, NEW h, g.v = 2, h.v = 2, Canonical(g) = Canonical(h)
  PROVE  g = h
BY DEF Canonical, CanonicalV2

\* What the signer builds is a header that describes its inputs.
LEMMA HeaderFacts ==
  ASSUME NEW i \in Id, NEW a \in Array, NEW t \in Text, NEW d \in Opt(Dtypes),
         NEW b \in BOOLEAN, CanSign(a, t, d)
  PROVE  LET h == PinHeader(i, a, t, d, b) IN
         /\ h \in Header
         /\ h.v = 2 /\ h.kid = Honest /\ h.model = TheModel
         /\ h.ts = 0 /\ h.vec_dim > 0
         /\ Round[h.vec_dtype][a.val] \notin NonFinite
         /\ h.source_hash = Nfc[t]
         /\ h.vec_dim = a.dim
         /\ h.vec_hash = HashVector(a, h.vec_dtype)
         /\ h.extra["record_id"] \in {None, i}
<1> DEFINE dt == SignableDtype(a, d)
<1>0. a.dim > 0 /\ Round[dt][a.val] \notin NonFinite
  BY DEF CanSign
<1>1. dt \in Dtypes
  BY DEF CanSign, SignableDtype, NativeDtype, Opt, Dtypes
<1>2. HashVector(a, dt) \in Digest
  BY <1>1, PrecisionAssumption DEF PrecisionAssumption, HashVector, Digest, Array
<1>3. IdsOf(i, b) \in [Reserved -> Opt(Name)] /\ IdsOf(i, b)["record_id"] \in {None, i}
  BY StoreAssumption DEF StoreAssumption, IdsOf, Reserved, Opt
<1>4. TheModel \in Model
  BY StoreAssumption DEF StoreAssumption, TheModel
<1>5. HashText(t) \in Text /\ HashText(t) = Nfc[t]
  BY TextAssumption DEF TextAssumption, HashText
<1>6. a.dim \in Nat
  BY DEF Array
<1> DEFINE h == PinHeader(i, a, t, d, b)
<1>7. h = [v |-> 2, kid |-> Honest, model |-> TheModel, model_hash |-> None,
           source_hash |-> HashText(t), vec_hash |-> HashVector(a, dt),
           vec_dtype |-> dt, vec_dim |-> a.dim, ts |-> 0, extra |-> IdsOf(i, b)]
  BY DEF PinHeader, SignedHeader
<1> HIDE DEF dt, h
<1>8. h \in Header
  BY <1>1, <1>2, <1>3, <1>4, <1>5, <1>6, <1>7, StoreAssumption DEF StoreAssumption, Header, Opt
<1>9. /\ h.v = 2 /\ h.kid = Honest /\ h.model = TheModel
      /\ h.ts = 0 /\ h.vec_dim > 0
      /\ Round[h.vec_dtype][a.val] \notin NonFinite
      /\ h.source_hash = Nfc[t]
      /\ h.vec_dim = a.dim
      /\ h.vec_hash = HashVector(a, h.vec_dtype)
      /\ h.extra["record_id"] \in {None, i}
  BY <1>0, <1>3, <1>5, <1>7
<1> QED
  BY <1>8, <1>9 DEF h

\* A signed header makes a pin, whoever's key signs it.
LEMMA SignPinType ==
  ASSUME NEW k \in Key, NEW h \in Header
  PROVE  SignPin(k, h) \in Pin
BY CanonicalType DEF SignPin, Pin, Opt, Signature

LEMMA FieldType ==
  /\ NoField \in Field /\ BadField \in Field
  /\ \A p \in Pin : JsonField(p) \in Field
BY DEF NoField, BadField, JsonField, Field, Opt

LEMMA PersistedType ==
  ASSUME NEW a \in Array
  PROVE  Persisted(a) \in Array /\ Persisted(a).val \in Grid[Persisted(a).width]
BY PrecisionAssumption, StoreAssumption
   DEF PrecisionAssumption, StoreAssumption, Persisted, Array, Widths, Dtypes

LEMMA InputType == Input \subseteq Array
BY StoreAssumption DEF StoreAssumption

-----------------------------------------------------------------------------
LEMMA TypeInit == Init => TInv
BY StoreAssumption
   DEF StoreAssumption, Init, TInv, TypeOK, Busy, JsonIsPin, WorkerState, Opt

LEMMA TypeNext == TInv /\ [Next]_vars => TInv'
<1> SUFFICES ASSUME TInv, [Next]_vars PROVE TInv'
  OBVIOUS
<1> USE DEF TInv
<1>1. ASSUME NEW i \in Id, NEW a \in Input, NEW t \in Text, NEW d \in Opt(Dtypes),
             NEW b \in BOOLEAN, Ingest(i, a, t, d, b)
      PROVE  TInv'
  <2> DEFINE h == PinHeader(i, a, t, d, b)
             r == [vec |-> Persisted(a), text |-> t, field |-> JsonField(SignPin(HonestKey, h))]
  <2>1. a \in Array /\ h \in Header
    BY <1>1, InputType, HeaderFacts DEF Ingest
  <2>2. SignPin(HonestKey, h) \in Pin
    BY <2>1, SignPinType, StoreAssumption DEF StoreAssumption
  <2>3. r \in Row
    BY <2>1, <2>2, FieldType, PersistedType DEF Row
  <2>4. rows' = [rows EXCEPT ![i] = r] /\ UNCHANGED <<worker, edits>>
    BY <1>1 DEF Ingest
  <2>5. signed' = signed \cup {[header |-> h, id |-> i, vec |-> a, text |-> t]}
    BY <1>1 DEF Ingest, Sign
  <2>6. r.field.pin = SignPin(HonestKey, h)
    BY DEF JsonField
  <2> HIDE DEF h, r
  <2>7. TypeOK'
    BY <2>1, <2>3, <2>4, <2>5 DEF TypeOK, Opt, Statement
  <2>8. Busy'
    BY <2>4 DEF Busy
  <2>9. JsonIsPin'
    BY <2>2, <2>4, <2>6 DEF JsonIsPin, TypeOK
  <2> QED
    BY <2>7, <2>8, <2>9
<1>2. ASSUME NEW w \in Worker, NEW i \in Id, Fetch(w, i)
      PROVE  TInv'
  <2> DEFINE snap == [id |-> i, vec |-> rows[i].vec, text |-> rows[i].text]
  <2>1. rows[i] \in Row
    BY <1>2 DEF Fetch, TypeOK, Opt
  <2>2. snap \in Snapshot
    BY <2>1 DEF Row, Snapshot
  <2>3. /\ worker' = [worker EXCEPT ![w] = [phase |-> "fetched", pin |-> None, snap |-> snap]]
        /\ UNCHANGED <<rows, signed, edits>>
    BY <1>2 DEF Fetch
  <2> HIDE DEF snap
  <2>4. TypeOK'
    BY <2>2, <2>3 DEF TypeOK, WorkerState, Opt
  <2>5. Busy'
    BY <2>2, <2>3 DEF Busy, TypeOK
  <2> QED
    BY <2>3, <2>4, <2>5 DEF JsonIsPin
<1>3. ASSUME NEW w \in Worker, NEW b \in BOOLEAN, SignSnapshot(w, b)
      PROVE  TInv'
  <2> DEFINE s == worker[w].snap
             h == PinHeader(s.id, s.vec, s.text, None, b)
  <2>1. s \in Snapshot
    BY <1>3 DEF SignSnapshot, Busy
  <2>2. s.id \in Id /\ s.vec \in Array /\ s.text \in Text
    BY <2>1 DEF Snapshot
  <2>3. UNCHANGED <<rows, edits>> /\ JsonIsPin'
    BY <1>3 DEF SignSnapshot, JsonIsPin
  <2>4. CASE CanSign(s.vec, s.text, None)
    <3>1. h \in Header
      BY <2>2, <2>4, HeaderFacts DEF Opt
    <3>2. SignPin(HonestKey, h) \in Pin
      BY <3>1, SignPinType, StoreAssumption DEF StoreAssumption
    <3>3. worker' = [worker EXCEPT ![w].phase = "signed", ![w].pin = SignPin(HonestKey, h)]
      BY <1>3, <2>4 DEF SignSnapshot
    <3>4. signed' = signed \cup {[header |-> h, id |-> s.id, vec |-> s.vec, text |-> s.text]}
      BY <1>3, <2>4 DEF SignSnapshot, Sign
    <3> HIDE DEF h, s
    <3>5. TypeOK'
      <4>1. signed' \subseteq Statement
        BY <2>2, <3>1, <3>4 DEF TypeOK, Statement
      <4>2. worker[w] \in WorkerState
        BY DEF TypeOK
      <4>3. [worker[w] EXCEPT !.phase = "signed", !.pin = SignPin(HonestKey, h)] \in WorkerState
        BY <3>2, <4>2 DEF WorkerState, Opt
      <4> QED
        BY <2>3, <3>3, <4>1, <4>3 DEF TypeOK
    <3>6. Busy'
      BY <2>1, <3>2, <3>3 DEF Busy, TypeOK, WorkerState, s
    <3> QED
      BY <2>3, <3>5, <3>6
  <2>5. CASE ~CanSign(s.vec, s.text, None)
    <3>1. /\ worker' = [worker EXCEPT ![w] = [phase |-> "idle", snap |-> None, pin |-> None]]
          /\ UNCHANGED signed
      BY <1>3, <2>5 DEF SignSnapshot
    <3> QED
      BY <2>3, <3>1 DEF TypeOK, WorkerState, Opt, Busy
  <2> QED
    BY <2>4, <2>5
<1>4. ASSUME NEW w \in Worker, Attach(w)
      PROVE  TInv'
  <2> DEFINE i == worker[w].snap.id
  <2>1. i \in Id /\ worker[w].pin \in Pin
    BY <1>4 DEF Attach, Busy, Snapshot
  <2>2. /\ rows' = IF rows[i] = None THEN rows
                   ELSE [rows EXCEPT ![i].field = JsonField(worker[w].pin)]
        /\ worker' = [worker EXCEPT ![w] = [phase |-> "idle", snap |-> None, pin |-> None]]
        /\ UNCHANGED <<signed, edits>>
    BY <1>4 DEF Attach
  <2> HIDE DEF i
  <2>3. rows' \in [Id -> Opt(Row)]
    BY <2>1, <2>2, FieldType DEF TypeOK, Opt, Row
  <2>4. TypeOK' /\ Busy'
    BY <2>2, <2>3 DEF TypeOK, WorkerState, Opt, Busy
  <2>5. JsonIsPin'
    BY <2>1, <2>2 DEF JsonIsPin, JsonField, TypeOK, Opt, Row
  <2> QED
    BY <2>4, <2>5
<1>5. ASSUME NEW i \in Id, NEW a \in Input, NEW t \in Text, Rewrite(i, a, t)
      PROVE  TInv'
  <2>1. Persisted(a) \in Array
    BY InputType, PersistedType
  <2>2. rows' \in [Id -> Opt(Row)] /\ JsonIsPin'
    BY <1>5, <2>1 DEF Rewrite, TypeOK, Opt, Row, JsonIsPin
  <2> QED
    BY <1>5, <2>2, StoreAssumption DEF StoreAssumption, Rewrite, Edit, TypeOK, Busy
<1>6. ASSUME NEW i \in Id, Remove(i)
      PROVE  TInv'
  BY <1>6, StoreAssumption
     DEF StoreAssumption, Remove, Edit, TypeOK, Busy, JsonIsPin, Opt
<1>7. ASSUME NEW i \in Id, NEW f \in {NoField, BadField}, Spoil(i, f)
      PROVE  TInv'
  <2>1. f \in Field /\ f.state # "json"
    BY FieldType DEF NoField, BadField
  <2>2. rows' \in [Id -> Opt(Row)] /\ JsonIsPin'
    BY <1>7, <2>1 DEF Spoil, TypeOK, Opt, Row, JsonIsPin
  <2> QED
    BY <1>7, <2>2, StoreAssumption DEF StoreAssumption, Spoil, Edit, TypeOK, Busy
<1>8. ASSUME NEW i \in Id, NEW p \in Pin, rows[i] # None, Edit,
             rows' = [rows EXCEPT ![i].field = JsonField(p)]
      PROVE  TInv'
  <2>1. rows' \in [Id -> Opt(Row)] /\ JsonIsPin'
    BY <1>8, FieldType DEF JsonField, TypeOK, Opt, Row, JsonIsPin
  <2> QED
    BY <1>8, <2>1, StoreAssumption DEF StoreAssumption, Edit, TypeOK, Busy
<1>9. ASSUME NEW i \in Id, NEW s \in signed, NEW h \in Edited \cup {s.header},
             Transplant(i, s, h)
      PROVE  TInv'
  <2> DEFINE p == [header |-> h, sig |-> [key |-> HonestKey, msg |-> Canonical(s.header)]]
  <2>1. s.header \in Header /\ h \in Header
    BY StoreAssumption DEF StoreAssumption, TypeOK, Statement
  <2>2. p \in Pin
    BY <2>1, CanonicalType, StoreAssumption DEF StoreAssumption, Pin, Opt, Signature
  <2> QED
    BY <1>8, <1>9, <2>2 DEF Transplant
<1>10. ASSUME NEW i \in Id, NEW k \in Key, NEW h \in Edited, SelfSign(i, k, h)
       PROVE  TInv'
  <2>1. SignPin(k, h) \in Pin
    BY SignPinType, StoreAssumption DEF StoreAssumption
  <2> QED
    BY <1>8, <1>10, <2>1 DEF SelfSign
<1>11. CASE UNCHANGED vars
  BY <1>11 DEF vars, TypeOK, Busy, JsonIsPin
<1> QED
  BY <1>1, <1>2, <1>3, <1>4, <1>5, <1>6, <1>7, <1>9, <1>10, <1>11 DEF Next

\* Rows, pins, snapshots and statements always have the types the code gives
\* them, whatever is ingested, attached or edited (TypeOK).
THEOREM TypeCorrect == Spec => []TypeOK
<1>1. TInv => TypeOK
  BY DEF TInv
<1> QED
  BY TypeInit, TypeNext, <1>1, PTL DEF Spec

-----------------------------------------------------------------------------
(* The honest signatures in circulation.                                   *)

\* A pin stays known when statements are only added.
LEMMA KnownStays ==
  ASSUME NEW p, NEW S, NEW T, Known(p, S), S \subseteq T
  PROVE  Known(p, T)
BY DEF Known

\* Signing only adds statements, and what it adds is truthful.
LEMMA SignFacts ==
  ASSUME NEW i \in Id, NEW a \in Array, NEW t \in Text, NEW d \in Opt(Dtypes),
         NEW b \in BOOLEAN, CanSign(a, t, d), Sign(i, a, t, d, b), Truthful
  PROVE  /\ signed \subseteq signed'
         /\ Truthful'
         /\ Known(SignPin(HonestKey, PinHeader(i, a, t, d, b)), signed')
<1> DEFINE h == PinHeader(i, a, t, d, b)
           s == [header |-> h, id |-> i, vec |-> a, text |-> t]
<1>1. signed' = signed \cup {s}
  BY DEF Sign
<1>2. /\ h.v = 2 /\ h.kid = Honest /\ h.model = TheModel
      /\ h.ts = 0 /\ h.vec_dim > 0
      /\ t \notin Unhashable
      /\ Round[h.vec_dtype][a.val] \notin NonFinite
      /\ h.source_hash = Nfc[t]
      /\ h.vec_dim = a.dim
      /\ h.vec_hash = HashVector(a, h.vec_dtype)
      /\ h.extra["record_id"] \in {None, i}
  BY HeaderFacts DEF CanSign
<1>3. SignPin(HonestKey, h).sig.msg = Canonical(h)
  BY DEF SignPin
<1> HIDE DEF h
<1>4. s.header = h /\ s.id = i /\ s.vec = a /\ s.text = t
  OBVIOUS
<1> HIDE DEF s
<1>5. Truthful'
  BY <1>1, <1>2, <1>4 DEF Truthful
<1>6. Known(SignPin(HonestKey, h), signed')
  BY <1>1, <1>3, <1>4 DEF Known
<1> QED
  BY <1>1, <1>5, <1>6 DEF h

LEMMA SafeInit == Init => IInv
<1> SUFFICES ASSUME Init PROVE IInv
  OBVIOUS
<1>1. KnownRows /\ OnGrid
  BY DEF Init, KnownRows, OnGrid
<1>2. KnownPins /\ Truthful
  BY DEF Init, KnownPins, Truthful
<1> QED
  BY <1>1, <1>2, TypeInit DEF IInv

LEMMA SafeNext == IInv /\ [Next]_vars => IInv'
<1> SUFFICES ASSUME IInv, [Next]_vars
             PROVE  (KnownRows /\ KnownPins /\ Truthful /\ OnGrid)'
  BY TypeNext DEF IInv
<1> USE DEF IInv
<1>0. TypeOK /\ Busy /\ JsonIsPin
  BY DEF TInv
<1>1. ASSUME NEW i \in Id, NEW a \in Input, NEW t \in Text, NEW d \in Opt(Dtypes),
             NEW b \in BOOLEAN, Ingest(i, a, t, d, b)
      PROVE  (KnownRows /\ KnownPins /\ Truthful /\ OnGrid)'
  <2> DEFINE p == SignPin(HonestKey, PinHeader(i, a, t, d, b))
             r == [vec |-> Persisted(a), text |-> t, field |-> JsonField(p)]
  <2>1. a \in Array
    BY InputType
  <2>2. signed \subseteq signed' /\ Truthful' /\ Known(p, signed')
    BY <1>1, <2>1, SignFacts DEF Ingest
  <2>3. rows' = [rows EXCEPT ![i] = r] /\ UNCHANGED worker
    BY <1>1 DEF Ingest
  <2>4. r.field.pin = p /\ r.vec = Persisted(a)
    BY DEF JsonField
  <2> HIDE DEF p, r
  <2>5. KnownRows'
    BY <1>0, <2>2, <2>3, <2>4, KnownStays DEF KnownRows, TypeOK
  <2>6. KnownPins'
    BY <2>2, <2>3, KnownStays DEF KnownPins
  <2>7. OnGrid'
    BY <1>0, <2>1, <2>3, <2>4, PersistedType DEF OnGrid, TypeOK
  <2> QED
    BY <2>2, <2>5, <2>6, <2>7
<1>2. ASSUME NEW w \in Worker, NEW i \in Id, Fetch(w, i)
      PROVE  (KnownRows /\ KnownPins /\ Truthful /\ OnGrid)'
  <2>1. /\ UNCHANGED <<rows, signed>>
        /\ \A x \in Worker : worker'[x].phase = "signed" => worker'[x] = worker[x]
    BY <1>0, <1>2 DEF Fetch, TypeOK
  <2> QED
    BY <2>1 DEF KnownRows, KnownPins, Truthful, OnGrid, Known
<1>3. ASSUME NEW w \in Worker, NEW b \in BOOLEAN, SignSnapshot(w, b)
      PROVE  (KnownRows /\ KnownPins /\ Truthful /\ OnGrid)'
  <2> DEFINE s == worker[w].snap
             p == SignPin(HonestKey, PinHeader(s.id, s.vec, s.text, None, b))
  <2>1. s.id \in Id /\ s.vec \in Array /\ s.text \in Text
    BY <1>0, <1>3 DEF SignSnapshot, Busy, Snapshot
  <2>2. UNCHANGED rows
    BY <1>3 DEF SignSnapshot
  <2>3. CASE CanSign(s.vec, s.text, None)
    <3>1. signed \subseteq signed' /\ Truthful' /\ Known(p, signed')
      BY <1>3, <2>1, <2>3, SignFacts DEF SignSnapshot, Opt
    <3>2. worker' = [worker EXCEPT ![w].phase = "signed", ![w].pin = p]
      BY <1>3, <2>3 DEF SignSnapshot
    <3> HIDE DEF p, s
    <3>3. worker'[w].pin = p /\ \A x \in Worker \ {w} : worker'[x] = worker[x]
      BY <1>0, <3>2 DEF TypeOK, WorkerState
    <3>4. KnownRows'
      BY <2>2, <3>1, KnownStays DEF KnownRows
    <3>5. KnownPins'
      BY <3>1, <3>3, KnownStays DEF KnownPins
    <3> QED
      BY <2>2, <3>1, <3>4, <3>5 DEF OnGrid
  <2>4. CASE ~CanSign(s.vec, s.text, None)
    <3>1. /\ UNCHANGED signed
          /\ worker' = [worker EXCEPT ![w] = [phase |-> "idle", snap |-> None, pin |-> None]]
      BY <1>3, <2>4 DEF SignSnapshot
    <3>2. \A x \in Worker : worker'[x].phase = "signed" => worker'[x] = worker[x]
      BY <1>0, <3>1 DEF TypeOK
    <3> QED
      BY <2>2, <3>1, <3>2 DEF KnownRows, KnownPins, Truthful, OnGrid, Known
  <2> QED
    BY <2>3, <2>4
<1>4. ASSUME NEW w \in Worker, Attach(w)
      PROVE  (KnownRows /\ KnownPins /\ Truthful /\ OnGrid)'
  <2> DEFINE i == worker[w].snap.id
  <2>1. i \in Id /\ Known(worker[w].pin, signed)
    BY <1>0, <1>4 DEF Attach, Busy, Snapshot, KnownPins
  <2>2. /\ rows' = IF rows[i] = None THEN rows
                   ELSE [rows EXCEPT ![i].field = JsonField(worker[w].pin)]
        /\ worker' = [worker EXCEPT ![w] = [phase |-> "idle", snap |-> None, pin |-> None]]
        /\ UNCHANGED signed
    BY <1>4 DEF Attach
  <2>3. \A x \in Worker : worker'[x].phase = "signed" => worker'[x] = worker[x]
    BY <1>0, <2>2 DEF TypeOK
  <2> HIDE DEF i
  <2>4. KnownRows'
    BY <1>0, <2>1, <2>2 DEF KnownRows, Known, JsonField, TypeOK, Opt, Row
  <2>5. OnGrid'
    BY <1>0, <2>1, <2>2 DEF OnGrid, TypeOK, Opt, Row
  <2> QED
    BY <2>2, <2>3, <2>4, <2>5 DEF KnownPins, Known, Truthful
<1>5. ASSUME NEW i \in Id, NEW a \in Input, NEW t \in Text, Rewrite(i, a, t)
      PROVE  (KnownRows /\ KnownPins /\ Truthful /\ OnGrid)'
  <2>1. /\ rows[i] \in Row /\ UNCHANGED <<worker, signed>>
        /\ rows' = [rows EXCEPT ![i].vec = Persisted(a), ![i].text = t]
    BY <1>0, <1>5 DEF Rewrite, Edit, TypeOK, Opt
  <2>2. Persisted(a).val \in Grid[Persisted(a).width]
    BY InputType, PersistedType
  <2>3. rows'[i].vec = Persisted(a) /\ rows'[i].field = rows[i].field
    BY <1>0, <2>1 DEF TypeOK, Row
  <2>4. \A j \in Id \ {i} : rows'[j] = rows[j]
    BY <1>0, <2>1 DEF TypeOK
  <2>5. rows[i] # None
    BY <1>5 DEF Rewrite
  <2>6. KnownRows'
    <3>1. \A j \in Id : rows'[j] # None => rows[j] # None /\ rows'[j].field = rows[j].field
      BY <2>3, <2>4, <2>5
    <3> QED
      BY <2>1, <3>1 DEF KnownRows
  <2>7. OnGrid'
    BY <2>2, <2>3, <2>4 DEF OnGrid
  <2> QED
    BY <2>1, <2>6, <2>7 DEF KnownPins, Known, Truthful
<1>6. ASSUME NEW i \in Id, Remove(i)
      PROVE  (KnownRows /\ KnownPins /\ Truthful /\ OnGrid)'
  BY <1>0, <1>6 DEF Remove, Edit, TypeOK, KnownRows, KnownPins, Known, Truthful, OnGrid
\* Every way to replace just the pin field by a pin or by no pin.
<1>7. ASSUME NEW i \in Id, NEW f, rows[i] # None, Edit,
             rows' = [rows EXCEPT ![i].field = f], f.state = "json" => Known(f.pin, signed)
      PROVE  (KnownRows /\ KnownPins /\ Truthful /\ OnGrid)'
  <2>1. rows[i] \in Row /\ UNCHANGED <<worker, signed>>
    BY <1>0, <1>7 DEF Edit, TypeOK, Opt
  <2>2. rows'[i].field = f /\ rows'[i].vec = rows[i].vec
    BY <1>0, <1>7, <2>1 DEF TypeOK, Row
  <2>3. \A j \in Id \ {i} : rows'[j] = rows[j]
    BY <1>0, <1>7 DEF TypeOK
  <2> QED
    BY <1>7, <2>1, <2>2, <2>3 DEF KnownRows, KnownPins, Known, Truthful, OnGrid
<1>8. ASSUME NEW i \in Id, NEW f \in {NoField, BadField}, Spoil(i, f)
      PROVE  (KnownRows /\ KnownPins /\ Truthful /\ OnGrid)'
  BY <1>7, <1>8 DEF Spoil, NoField, BadField
<1>9. ASSUME NEW i \in Id, NEW s \in signed, NEW h \in Edited \cup {s.header},
             Transplant(i, s, h)
      PROVE  (KnownRows /\ KnownPins /\ Truthful /\ OnGrid)'
  <2> DEFINE p == [header |-> h, sig |-> [key |-> HonestKey, msg |-> Canonical(s.header)]]
  <2>1. Known(p, signed)
    BY DEF Known
  <2>2. JsonField(p).pin = p
    BY DEF JsonField
  <2>3. rows[i] # None /\ Edit /\ rows' = [rows EXCEPT ![i].field = JsonField(p)]
    BY <1>9 DEF Transplant
  <2> HIDE DEF p
  <2> QED
    BY <1>7, <2>1, <2>2, <2>3
<1>10. ASSUME NEW i \in Id, NEW k \in Key, NEW h \in Edited, SelfSign(i, k, h)
       PROVE  (KnownRows /\ KnownPins /\ Truthful /\ OnGrid)'
  <2>1. Known(SignPin(k, h), signed) /\ JsonField(SignPin(k, h)).pin = SignPin(k, h)
    BY <1>10 DEF SelfSign, Known, SignPin, JsonField
  <2> QED
    BY <1>7, <1>10, <2>1 DEF SelfSign
<1>11. CASE UNCHANGED vars
  BY <1>11 DEF vars, KnownRows, KnownPins, Known, Truthful, OnGrid
<1> QED
  BY <1>1, <1>2, <1>3, <1>4, <1>5, <1>6, <1>8, <1>9, <1>10, <1>11 DEF Next

-----------------------------------------------------------------------------
(* From the invariant to the verdict.                                      *)

\* The precision rule: an array no wider than the pinned dtype that hashes like
\* the signed one holds exactly the signed value, rounded once (verifier.py
\* step 6, is_wider_than).
LEMMA NoLooseBits ==
  ASSUME NEW a \in Array, NEW b \in Array, NEW d \in Dtypes,
         a.val \in Grid[a.width], ~IsWiderThan(a, d), HashVector(a, d) = HashVector(b, d)
  PROVE  a.val = Round[d][b.val]
<1>1. a.val \in Grid[d]
  BY PrecisionAssumption
     DEF PrecisionAssumption, IsWiderThan, Itemsize, Array, Widths, Dtypes
<1>2. Round[d][a.val] = a.val
  BY <1>1, PrecisionAssumption DEF PrecisionAssumption
<1> QED
  BY <1>2 DEF HashVector

LEMMA Safe == IInv => VerifiedWasSigned
<1> SUFFICES ASSUME IInv, NEW i \in Id, rows[i] # None, GetVerified(i) = "OK",
                    ~(Policy.unpinned /\ rows[i].field.state = "absent")
             PROVE  \E s \in signed : Vouches(s, i, rows[i].vec, rows[i].text)
  BY DEF VerifiedWasSigned
<1> DEFINE r == rows[i]
           p == r.field.pin
           h == p.header
           src == r.text
           ids == [Policy.ids EXCEPT !["record_id"] =
                     IF Policy.enforce /\ h.extra["record_id"] # None THEN i ELSE None]
           q == [source |-> src, vector |-> r.vec, model |-> Policy.model,
                 model_hash |-> Policy.model_hash, ids |-> ids, now |-> None]
<1>1. r \in Row /\ r.vec \in Array /\ r.text \in Text /\ r.field \in Field
  BY DEF IInv, TInv, TypeOK, Opt, Row
<1>2. Policy.source_key /\ Policy.enforce /\ Policy.ids \in [Reserved -> Opt(Name)]
  BY StoreAssumption DEF StoreAssumption
<1>3. r.text # None
  BY <1>1, NoneAssumption DEF NoneAssumption
<1>4. r.field.state = "json" /\ Parses(p)
  BY <1>1, <1>2 DEF GetVerified, VerifyRecord, ParsePinField, BadField, NoField, Field
<1>5. Verify(Reg, {2}, p, q) = "OK"
  BY <1>2, <1>3, <1>4 DEF GetVerified, VerifyRecord, ParsePinField
<1>6. p \in Pin
  BY <1>4 DEF IInv, TInv, JsonIsPin
<1> HIDE DEF p, r
<1>7. h \in Header
  BY <1>6 DEF Pin
<1> HIDE DEF h, ids
<1>8. /\ KeyStage(Reg, {2}, p, None) = "OK"
      /\ SignatureStage(Reg, p) = "OK"
      /\ SourceStage(h, src) = "OK"
      /\ VectorStage(h, r.vec) = "OK"
      /\ ReplayStage(h, ids) = "OK"
  BY <1>5 DEF Verify, h
<1>9. \E s \in signed : s.header = h
  <2>1. h.v = 2
    BY <1>4 DEF Parses, h
  <2>2. h.kid = Honest
    BY <1>7, <1>8 DEF KeyStage, Reg, Header, h
  <2>3. p.sig = [key |-> HonestKey, msg |-> Canonical(h)]
    BY <1>7, <1>8, <2>2 DEF SignatureStage, Reg, Header, h
  <2>4. p.sig # None
    BY <1>4 DEF Parses
  <2>5. PICK s \in signed : Canonical(h) = Canonical(s.header)
    BY <1>4, <2>3, <2>4 DEF IInv, KnownRows, Known, r, p
  <2>6. s.header.v = 2
    BY DEF IInv, Truthful
  <2> QED
    BY <2>1, <2>5, <2>6, CanonicalInjective
<1>10. PICK s \in signed : s.header = h
  BY <1>9
<1>11. s.vec \in Array /\ s.id \in Id /\ h.vec_dtype \in Dtypes
  BY <1>7 DEF IInv, TInv, TypeOK, Statement, Header
<1>12. Nfc[s.text] = Nfc[src]
  BY <1>3, <1>8, <1>10 DEF SourceStage, HashText, IInv, Truthful
<1>13. r.vec # None
  BY <1>1, <1>8, <1>11, NoneAssumption DEF NoneAssumption, Array
<1>14. /\ r.vec.dim = s.vec.dim
       /\ ~IsWiderThan(r.vec, h.vec_dtype)
       /\ HashVector(r.vec, h.vec_dtype) = HashVector(s.vec, h.vec_dtype)
  BY <1>8, <1>10, <1>13 DEF VectorStage, IInv, Truthful
<1>15. r.vec.val = Round[h.vec_dtype][s.vec.val]
  BY <1>1, <1>11, <1>14, NoLooseBits DEF IInv, OnGrid, r
<1>16. h.extra["record_id"] = None \/ s.id = i
  <2>1. SUFFICES ASSUME h.extra["record_id"] # None
                 PROVE  s.id = i
    OBVIOUS
  <2>2. ids["record_id"] = i /\ i # None
    BY <1>2, <2>1, StoreAssumption, NoneAssumption
       DEF StoreAssumption, NoneAssumption, ids, Reserved
  <2>3. h.extra["record_id"] = i
    BY <1>8, <2>2 DEF ReplayStage
  <2> QED
    BY <1>10, <2>1, <2>3 DEF IInv, Truthful
<1> QED
  BY <1>10, <1>12, <1>14, <1>15, <1>16 DEF Vouches, r

\* For every collection, every reader policy and every number of producers,
\* rows and edits: what get_verified accepts is what an honest signer signed
\* (VerifiedWasSigned).
THEOREM VerifiedWasSignedAlways == Spec => []VerifiedWasSigned
BY SafeInit, SafeNext, Safe, PTL DEF Spec

-----------------------------------------------------------------------------
(* And back: an honest, current pin is never refused.                      *)

LEMMA Accepted == IInv => HonestRowVerifies
<1> SUFFICES ASSUME IInv, PolicyMet, NEW i \in Id, NEW s \in signed, rows[i] # None,
                    rows[i].field = JsonField(SignPin(HonestKey, s.header)),
                    Vouches(s, i, rows[i].vec, rows[i].text),
                    ~IsWiderThan(rows[i].vec, s.header.vec_dtype)
             PROVE  GetVerified(i) = "OK"
  BY DEF HonestRowVerifies
<1> DEFINE r == rows[i]
           h == s.header
           p == SignPin(HonestKey, h)
           ids == [Policy.ids EXCEPT !["record_id"] =
                     IF Policy.enforce /\ h.extra["record_id"] # None THEN i ELSE None]
           q == [source |-> r.text, vector |-> r.vec, model |-> Policy.model,
                 model_hash |-> Policy.model_hash, ids |-> ids, now |-> None]
<1>1. r \in Row /\ r.vec \in Array /\ r.text \in Text
  BY DEF IInv, TInv, TypeOK, Opt, Row
<1>2. s.vec \in Array /\ s.id \in Id /\ h \in Header /\ h.vec_dtype \in Dtypes
  BY DEF IInv, TInv, TypeOK, Statement, Header
<1>3. /\ h.v = 2 /\ h.kid = Honest /\ h.model = TheModel
      /\ h.ts = 0 /\ h.vec_dim > 0
      /\ s.text \notin Unhashable /\ Round[h.vec_dtype][s.vec.val] \notin NonFinite
      /\ h.source_hash = Nfc[s.text] /\ h.vec_dim = s.vec.dim
      /\ h.vec_hash = HashVector(s.vec, h.vec_dtype)
      /\ h.extra["record_id"] \in {None, s.id}
  BY DEF IInv, Truthful
<1>4. /\ Nfc[s.text] = Nfc[r.text] /\ r.vec.dim = s.vec.dim
      /\ r.vec.val = Round[h.vec_dtype][s.vec.val]
      /\ h.extra["record_id"] = None \/ s.id = i
  BY DEF Vouches
<1>5. p.header = h /\ p.sig = [key |-> HonestKey, msg |-> Canonical(h)] /\ p.sig # None
  <2>1. p.header = h /\ p.sig = [key |-> HonestKey, msg |-> Canonical(h)]
    BY DEF SignPin
  <2>2. p.sig \in Signature
    BY <1>2, <2>1, CanonicalType, StoreAssumption DEF StoreAssumption, Signature
  <2> QED
    BY <2>1, <2>2, NoneAssumption DEF NoneAssumption
<1> HIDE DEF r, h, p, ids
<1>6. KeyStage(Reg, {2}, p, None) = "OK" /\ SignatureStage(Reg, p) = "OK"
  <2>1. Reg[Honest] = [key |-> HonestKey, from |-> None, until |-> None]
    BY StoreAssumption DEF StoreAssumption, Reg
  <2>2. Reg[Honest] \in KeyEntry
    BY <2>1, StoreAssumption DEF StoreAssumption, KeyEntry, Opt
  <2>3. Reg[Honest] # None
    BY <2>2, NoneAssumption DEF NoneAssumption
  <2> QED
    BY <1>3, <1>5, <2>1, <2>3 DEF KeyStage, WindowStage, SignatureStage
<1>7. SourceStage(h, r.text) = "OK"
  BY <1>1, <1>2, <1>3, <1>4, TextAssumption
     DEF TextAssumption, SourceStage, HashText, IInv, TInv, TypeOK, Statement
<1>8. VectorStage(h, r.vec) = "OK"
  <2>1. s.vec.val \in Value
    BY <1>2 DEF Array
  <2>2. Round[h.vec_dtype][r.vec.val] = Round[h.vec_dtype][s.vec.val]
    BY <1>2, <1>4, <2>1, PrecisionAssumption DEF PrecisionAssumption
  <2> QED
    BY <1>3, <1>4, <2>2 DEF VectorStage, HashVector, r, h
<1>9. ModelStage(h, Policy.model, Policy.model_hash) = "OK"
  BY <1>3 DEF PolicyMet, ModelStage
<1>10. ReplayStage(h, ids) = "OK"
  <2>1. \A k \in Reserved \ {"record_id"} : ids[k] = None
    BY StoreAssumption DEF StoreAssumption, PolicyMet, ids, Reserved
  <2>2. ids["record_id"] = None \/ ids["record_id"] = h.extra["record_id"]
    BY <1>3, <1>4, StoreAssumption DEF StoreAssumption, ids, Reserved
  <2> QED
    BY <2>1, <2>2 DEF ReplayStage, Reserved
<1>11. Verify(Reg, {2}, p, q) = "OK"
  BY <1>5, <1>6, <1>7, <1>8, <1>9, <1>10 DEF Verify
<1>12. rows[i].field.state = "json" /\ rows[i].field.pin = p
  BY DEF JsonField, p, h
<1>13. Parses(p)
  BY <1>3, <1>5 DEF Parses
<1>14. Policy.source_key /\ r.text # None
  BY <1>1, StoreAssumption, NoneAssumption DEF StoreAssumption, NoneAssumption
<1> QED
  BY <1>5, <1>11, <1>12, <1>13, <1>14
     DEF GetVerified, VerifyRecord, ParsePinField, r, ids

\* For every choice of the constants, an honest pin on what it was made for is
\* accepted (HonestRowVerifies): no interleaving raises a false alarm.
THEOREM HonestRowVerifiesAlways == Spec => []HonestRowVerifies
BY SafeInit, SafeNext, Accepted, PTL DEF Spec

-----------------------------------------------------------------------------
(* What ingestion inserts is such a row.                                   *)

\* Only ingestion puts a row where there was none.
LEMMA OnlyIngestInserts ==
  ASSUME TypeOK, [Next]_vars, NEW i \in Id, rows[i] = None, rows'[i] # None
  PROVE  \E a \in Input, t \in Text, d \in Opt(Dtypes), b \in BOOLEAN : Ingest(i, a, t, d, b)
<1>1. rows' # rows /\ rows \in [Id -> Opt(Row)]
  BY DEF TypeOK
<1>2. ASSUME NEW j \in Id, NEW a \in Input, NEW t \in Text, NEW d \in Opt(Dtypes),
             NEW b \in BOOLEAN, Ingest(j, a, t, d, b)
      PROVE  j = i
  BY <1>1, <1>2 DEF Ingest
<1>3. /\ \A w \in Worker, j \in Id : ~Fetch(w, j)
      /\ \A w \in Worker, b \in BOOLEAN : ~SignSnapshot(w, b)
      /\ ~UNCHANGED vars
  BY <1>1 DEF Fetch, SignSnapshot, vars
<1>4. ASSUME NEW w \in Worker, Attach(w) PROVE FALSE
  BY <1>1, <1>4 DEF Attach
<1>5. ASSUME NEW j \in Id, rows[j] # None, NEW e, rows' = [rows EXCEPT ![j] = e] PROVE FALSE
  BY <1>1, <1>5
<1>6. /\ \A j \in Id, a \in Input, t \in Text : ~Rewrite(j, a, t)
      /\ \A j \in Id : ~Remove(j)
      /\ \A j \in Id, f \in {NoField, BadField} : ~Spoil(j, f)
  BY <1>5 DEF Rewrite, Remove, Spoil
<1>7. /\ \A j \in Id, s \in signed : \A h \in Edited \cup {s.header} : ~Transplant(j, s, h)
      /\ \A j \in Id, k \in Key, h \in Edited : ~SelfSign(j, k, h)
  BY <1>5 DEF Transplant, SelfSign
<1> QED BY <1>2, <1>3, <1>4, <1>6, <1>7 DEF Next

\* The row and the statement behind it.
LEMMA Ingested ==
  ASSUME IInv, NEW i \in Id, NEW a \in Input, NEW t \in Text, NEW d \in Opt(Dtypes),
         NEW b \in BOOLEAN, Ingest(i, a, t, d, b),
         PinHeader(i, a, t, d, b).vec_dtype = NativeWidth
  PROVE  \E s \in signed' :
           /\ rows'[i].field = JsonField(SignPin(HonestKey, s.header))
           /\ Vouches(s, i, rows'[i].vec, rows'[i].text)
           /\ ~IsWiderThan(rows'[i].vec, s.header.vec_dtype)
<1> DEFINE h == PinHeader(i, a, t, d, b)
           s == [header |-> h, id |-> i, vec |-> a, text |-> t]
           r == [vec |-> Persisted(a), text |-> t, field |-> JsonField(SignPin(HonestKey, h))]
<1>1. a \in Array /\ CanSign(a, t, d)
  BY InputType DEF Ingest
<1>2. h.vec_dtype = NativeWidth /\ NativeWidth \in Dtypes
  BY StoreAssumption DEF StoreAssumption
<1>3. s \in signed' /\ rows'[i] = r
  BY DEF Ingest, Sign, IInv, TInv, TypeOK
<1>4. /\ Persisted(a).dim = a.dim /\ Persisted(a).width = NativeWidth
      /\ Persisted(a).val = Round[NativeWidth][a.val]
  BY <1>1 DEF Persisted, Array
<1>5. ~IsWiderThan(Persisted(a), NativeWidth)
  BY <1>2, <1>4 DEF IsWiderThan, Dtypes, Itemsize, Widths
<1>6. s.header = h /\ s.id = i /\ s.vec = a /\ s.text = t
      /\ r.vec = Persisted(a) /\ r.text = t /\ r.field = JsonField(SignPin(HonestKey, h))
  OBVIOUS
<1> HIDE DEF h, s, r
<1>7. Vouches(s, i, r.vec, r.text)
  BY <1>2, <1>4, <1>6 DEF Vouches
<1> QED BY <1>2, <1>3, <1>5, <1>6, <1>7

\* For every collection, every precision and every policy the signer meets: what is
\* ingested under the store's own dtype verifies at once (IngestVerifies).
THEOREM IngestAlwaysVerifies == Spec => IngestVerifies
<1> DEFINE A == \A i \in Id : /\ rows[i] = None /\ rows'[i] # None
                              /\ rows'[i].field.pin.header.vec_dtype = NativeWidth
                              => GetVerified(i)' = "OK"
<1>0. IInv /\ [Next]_vars => HonestRowVerifies'
  BY SafeNext, Accepted, PTL
<1>1. IInv /\ [Next]_vars => [PolicyMet => A]_vars
  <2> SUFFICES ASSUME IInv, [Next]_vars, PolicyMet, NEW i \in Id,
                      rows[i] = None, rows'[i] # None,
                      rows'[i].field.pin.header.vec_dtype = NativeWidth
               PROVE  GetVerified(i)' = "OK"
    OBVIOUS
  <2>1. HonestRowVerifies'
    BY <1>0
  <2>2. PICK a \in Input, t \in Text, d \in Opt(Dtypes), b \in BOOLEAN : Ingest(i, a, t, d, b)
    BY OnlyIngestInserts DEF IInv, TInv
  <2>3. rows'[i].field = JsonField(SignPin(HonestKey, PinHeader(i, a, t, d, b)))
    BY <2>2 DEF Ingest, IInv, TInv, TypeOK
  <2>4. PinHeader(i, a, t, d, b).vec_dtype = NativeWidth
    BY <2>3 DEF JsonField, SignPin
  <2>5. PICK s \in signed' :
          /\ rows'[i].field = JsonField(SignPin(HonestKey, s.header))
          /\ Vouches(s, i, rows'[i].vec, rows'[i].text)
          /\ ~IsWiderThan(rows'[i].vec, s.header.vec_dtype)
    BY <2>2, <2>4, Ingested
  <2> QED BY <2>1, <2>5 DEF HonestRowVerifies, PolicyMet
<1> QED BY SafeInit, SafeNext, <1>1, PTL DEF Spec, IngestVerifies
=============================================================================
