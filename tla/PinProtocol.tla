----------------------------- MODULE PinProtocol -----------------------------
(***************************************************************************)
(* The pin: what the signer commits to, what the parser lets through and   *)
(* what the verifier decides, as operators without state.  Translated from *)
(* src/src/vectorpin/{hash,signer,attestation,verifier}.py and adapters/   *)
(* base.py.                                                                *)
(*                                                                         *)
(* Data is abstract.  SHA-256 is injective, so a digest is the value that  *)
(* was hashed; an Ed25519 signature is the pair (key, signed bytes); the   *)
(* contents of an embedding are one member of Value, and floating-point    *)
(* precision is the set Grid[w] of values an array of width w can hold and *)
(* the function Round[d] that a cast to dtype d applies.                   *)
(***************************************************************************)
EXTENDS Integers, FiniteSets

CONSTANTS
  Value,       \* contents of an embedding, over all element widths
  NonFinite,   \* the contents that hold a NaN or an infinity
  Grid,        \* Grid[w] : contents an array of element width w can hold
  Round,       \* Round[d][x] : the contents of x.astype(d)
  Text,        \* source texts
  Nfc,         \* Nfc[t] : the NFC form of t
  Unhashable,  \* texts with a lone surrogate: no UTF-8 form, no hash
  Key,         \* Ed25519 key pairs
  Kid,         \* key identifiers
  Model,       \* model names and model hashes
  Name,        \* record, collection and tenant identifiers
  BadTs,       \* a `ts` that does not parse (only a v1 pin may carry it)
  NaiveTs,     \* a v1 `ts` that parses without an offset
  None         \* Python's None: not given, not present

Dtypes == {"f32", "f64"}
Widths == {"f16", "f32", "f64", "f128", "int"}

\* The reals a float width holds include those of every narrower float width;
\* a cast to d lands on d's grid and leaves what is already there alone.
PrecisionAssumption ==
  /\ NonFinite \subseteq Value
  /\ Grid \in [Widths -> SUBSET Value]
  /\ Grid["f16"] \subseteq Grid["f32"]
  /\ Grid["f32"] \subseteq Grid["f64"]
  /\ Grid["f64"] \subseteq Grid["f128"]
  /\ Round \in [Dtypes -> [Value -> Value]]
  /\ \A d \in Dtypes, x \in Value : Round[d][x] \in Grid[d]
  /\ \A d \in Dtypes : \A x \in Grid[d] : Round[d][x] = x
  /\ \A d \in Dtypes : \A x \in NonFinite : Round[d][x] \in NonFinite

TextAssumption ==
  /\ Unhashable \subseteq Text
  /\ Nfc \in [Text -> Text]
  /\ \A t \in Text : Nfc[Nfc[t]] = Nfc[t] /\ (Nfc[t] \in Unhashable <=> t \in Unhashable)

ASSUME PrecisionAssumption
ASSUME TextAssumption

Opt(S) == S \cup {None}

-----------------------------------------------------------------------------
(* hash.py: arrays, dtypes and digests. `dim` is shape[0] of a 1-D array   *)
(* and 0 for an empty array or one that is not 1-D.                        *)

Itemsize == [w \in Widths |->
  CASE w = "f16" -> 2 [] w = "f32" -> 4 [] w = "f128" -> 16 [] OTHER -> 8]

Array == [width : Widths, dim : Nat, val : Value]
IsArray(a) == a \in Array /\ a.val \in Grid[a.width]

NativeDtype(a) ==
  CASE a.width \in {"f16", "f32"} -> "f32"
    [] a.width = "f64"            -> "f64"
    [] OTHER                      -> None

IsWiderThan(a, d) == a.width = "int" \/ Itemsize[a.width] > Itemsize[d]

HashVectorUncast(a, d) == [dtype |-> d, dim |-> a.dim, val |-> a.val]   \* mutant
HashVector(a, d) == [dtype |-> d, dim |-> a.dim, val |-> Round[d][a.val]]
HashText(t) == Nfc[t]

-----------------------------------------------------------------------------
(* attestation.py: the header and the bytes a signature covers.            *)

Reserved == {"record_id", "collection_id", "tenant_id"}
Digest == [dtype : Dtypes, dim : Nat, val : Value]
Header == [v : {1, 2}, kid : Kid, model : Model, model_hash : Opt(Model),
           source_hash : Text, vec_hash : Digest, vec_dtype : Dtypes,
           vec_dim : Nat, ts : Nat \cup {BadTs, NaiveTs},
           extra : [Reserved -> Opt(Name)]]

Body == [v : {1, 2}, kid : Opt(Kid), model : Model, model_hash : Opt(Model),
         source_hash : Text, vec_hash : Digest, vec_dtype : Dtypes,
         vec_dim : Nat, ts : Nat \cup {BadTs, NaiveTs},
         extra : [Reserved -> Opt(Name)]]

CanonicalV2(h) == [tag |-> "vectorpin/v2", body |-> h]
CanonicalV1(h) == [tag |-> "", body |-> [h EXCEPT !.kid = None]]
Canonical(h) == IF h.v = 1 THEN CanonicalV1(h) ELSE CanonicalV2(h)

Message == [tag : {"vectorpin/v2", "", "vectorpin/manifest", "vectorpin/audit"},
            body : Body]
Signature == [key : Key, msg : Message]
Pin == [header : Header, sig : Opt(Signature)]   \* None: not 64 bytes

-----------------------------------------------------------------------------
(* signer.py: Signer.pin.                                                  *)

SignableDtype(a, d) == IF d = None THEN NativeDtype(a) ELSE d

CanSign(a, t, d) ==
  /\ a.dim > 0
  /\ SignableDtype(a, d) # None
  /\ Round[SignableDtype(a, d)][a.val] \notin NonFinite
  /\ a.val \notin NonFinite
  /\ t \notin Unhashable

\* Mutant: the requested dtype is recorded, not the one resolved from the array.
SignedHeaderUnresolved(kid, m, mh, a, t, d, extra, second) ==
  [v |-> 2, kid |-> kid, model |-> m, model_hash |-> mh,
   source_hash |-> HashText(t), vec_hash |-> HashVector(a, SignableDtype(a, d)),
   vec_dtype |-> d, vec_dim |-> a.dim, ts |-> second, extra |-> extra]

SignedHeader(kid, m, mh, a, t, d, extra, second) ==
  LET dt == SignableDtype(a, d) IN
  [v |-> 2, kid |-> kid, model |-> m, model_hash |-> mh,
   source_hash |-> HashText(t), vec_hash |-> HashVector(a, dt),
   vec_dtype |-> dt, vec_dim |-> a.dim, ts |-> second, extra |-> extra]

SignPin(key, h) == [header |-> h, sig |-> [key |-> key, msg |-> Canonical(h)]]

-----------------------------------------------------------------------------
(* verifier.py: Verifier._verify_inner, one operator per step of the spec. *)
(* reg maps each kid to a KeyEntry or None; q holds the caller's optional  *)
(* ground truth.                                                           *)

KeyEntry == [key : Key, from : Opt(Nat), until : Opt(Nat)]
Registry == [Kid -> Opt(KeyEntry)]
Query == [source : Opt(Text), vector : Opt(Array), model : Opt(Model),
          model_hash : Opt(Model), ids : [Reserved -> Opt(Name)], now : Opt(Nat)]

\* None is nothing else: a value that is given is told from one that is not.
NoneAssumption ==
  /\ None \notin Text \cup Key \cup Kid \cup Model \cup Name \cup Nat
  /\ None \notin Array /\ None \notin Signature /\ None \notin KeyEntry
  /\ BadTs # NaiveTs /\ {BadTs, NaiveTs} \cap (Nat \cup {None}) = {}
ASSUME NoneAssumption

\* Mutant: the window is evaluated at `ts`, trusted time or not.
WindowStageByTs(e, ts, now) ==
  IF e.from = None /\ e.until = None /\ now = None THEN "OK"
  ELSE IF ts = BadTs THEN "KEY_EXPIRED"
  ELSE IF ts = NaiveTs THEN "PARSE_ERROR"
  ELSE IF \/ now # None /\ ts > now
          \/ e.from # None /\ ts < e.from
          \/ e.until # None /\ ts >= e.until
       THEN "KEY_EXPIRED" ELSE "OK"

WindowStage(e, ts, now) ==
  IF e.from = None /\ e.until = None /\ now = None THEN "OK"
  ELSE IF ts = BadTs THEN "KEY_EXPIRED"
  ELSE IF ts = NaiveTs THEN "PARSE_ERROR"
  ELSE LET at == IF now = None THEN ts ELSE now IN
       IF \/ now # None /\ ts > now
          \/ e.from # None /\ at < e.from
          \/ e.until # None /\ at >= e.until
       THEN "KEY_EXPIRED" ELSE "OK"

KeyStage(reg, accepted, p, now) ==
  IF p.header.v \notin accepted THEN "UNSUPPORTED_VERSION"
  ELSE IF p.sig = None THEN "SIGNATURE_INVALID"
  ELSE IF reg[p.header.kid] = None THEN "UNKNOWN_KEY"
  ELSE WindowStage(reg[p.header.kid], p.header.ts, now)

SignatureStage(reg, p) ==
  IF p.sig = [key |-> reg[p.header.kid].key, msg |-> Canonical(p.header)]
  THEN "OK" ELSE "SIGNATURE_INVALID"

\* Mutant: the text is hashed as it is.
SourceStageRaw(h, t) ==
  IF t = None THEN "OK"
  ELSE IF t \in Unhashable THEN "PARSE_ERROR"
  ELSE IF t # h.source_hash THEN "SOURCE_MISMATCH" ELSE "OK"

SourceStage(h, t) ==
  IF t = None THEN "OK"
  ELSE IF t \in Unhashable THEN "PARSE_ERROR"
  ELSE IF HashText(t) # h.source_hash THEN "SOURCE_MISMATCH" ELSE "OK"

VectorStage(h, a) ==
  IF a = None THEN "OK"
  ELSE IF a.dim # h.vec_dim \/ IsWiderThan(a, h.vec_dtype) THEN "SHAPE_MISMATCH"
  ELSE IF a.val \in NonFinite THEN "PARSE_ERROR"
  ELSE IF HashVector(a, h.vec_dtype) # h.vec_hash THEN "VECTOR_TAMPERED" ELSE "OK"

ModelStage(h, m, mh) ==
  IF \/ m # None /\ h.model # m
     \/ mh # None /\ h.model_hash # mh
  THEN "MODEL_MISMATCH" ELSE "OK"

ReplayStage(h, ids) ==
  LET differs(k) == ids[k] # None /\ h.extra[k] # ids[k] IN
  IF differs("record_id") THEN "RECORD_MISMATCH"
  ELSE IF differs("collection_id") THEN "COLLECTION_MISMATCH"
  ELSE IF differs("tenant_id") THEN "TENANT_MISMATCH" ELSE "OK"

\* The first step that fails names the verdict.
Verify(reg, accepted, p, q) ==
  LET h == p.header
      key == KeyStage(reg, accepted, p, q.now)
      vector == VectorStage(h, q.vector)
      source == SourceStage(h, q.source)
      model == ModelStage(h, q.model, q.model_hash) IN
  IF key # "OK" THEN key
  ELSE IF SignatureStage(reg, p) # "OK" THEN "SIGNATURE_INVALID"
  ELSE IF source # "OK" THEN source
  ELSE IF vector # "OK" THEN vector
  ELSE IF model # "OK" THEN model
  ELSE ReplayStage(h, q.ids)

-----------------------------------------------------------------------------
(* adapters/base.py: parse_pin_field and verify_record. A stored pin field *)
(* is absent, present but unusable (blank, an empty object, malformed), or *)
(* JSON that decodes to `pin`.                                             *)

Field == [state : {"absent", "unusable", "json"}, pin : Opt(Pin)]
NoField == [state |-> "absent", pin |-> None]
BadField == [state |-> "unusable", pin |-> None]
JsonField(p) == [state |-> "json", pin |-> p]

\* The default parser takes version 2 only, a `ts` that parses, a positive
\* vec_dim and a 64-byte signature.
Parses(p) ==
  /\ p.header.v = 2
  /\ p.header.ts \in Nat
  /\ p.header.vec_dim > 0
  /\ p.sig # None

ParsePinField(f) ==
  IF f.state = "json" /\ ~Parses(f.pin) THEN BadField ELSE f

\* Mutant: the record id is never compared.
VerifyRecordUnbound(reg, id, a, text, field, policy) ==
  LET f == ParsePinField(field)
      h == f.pin.header
      bound == FALSE IN
  IF f.state = "unusable" THEN "PARSE_ERROR"
  ELSE IF f.state = "absent" THEN IF policy.unpinned THEN "OK" ELSE "PARSE_ERROR"
  ELSE IF policy.source_key /\ text = None THEN "SOURCE_MISMATCH"
  ELSE Verify(reg, {2}, f.pin,
         [source |-> IF policy.source_key THEN text ELSE None,
          vector |-> a, model |-> policy.model, model_hash |-> policy.model_hash,
          ids |-> [policy.ids EXCEPT !["record_id"] = IF bound THEN id ELSE None],
          now |-> None])

\* policy: [source_key, enforce, unpinned : BOOLEAN, model, model_hash, ids];
\* text is the record's field under source_key, None when it has none.
VerifyRecord(reg, id, a, text, field, policy) ==
  LET f == ParsePinField(field)
      h == f.pin.header
      bound == policy.enforce /\ h.extra["record_id"] # None IN
  IF f.state = "unusable" THEN "PARSE_ERROR"
  ELSE IF f.state = "absent" THEN IF policy.unpinned THEN "OK" ELSE "PARSE_ERROR"
  ELSE IF policy.source_key /\ text = None THEN "SOURCE_MISMATCH"
  ELSE Verify(reg, {2}, f.pin,
         [source |-> IF policy.source_key THEN text ELSE None,
          vector |-> a, model |-> policy.model, model_hash |-> policy.model_hash,
          ids |-> [policy.ids EXCEPT !["record_id"] = IF bound THEN id ELSE None],
          now |-> None])
=============================================================================
