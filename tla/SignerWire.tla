----------------------------- MODULE SignerWire -----------------------------
(***************************************************************************)
(* The strings of a pin from the caller's hands to the verifier's: the     *)
(* signer normalizes and screens them (signer.py), the pin is stored as a  *)
(* dict or as JSON (attestation.py), somebody may edit what is stored, the *)
(* parser applies the wire rules and the verifier compares with what the   *)
(* caller expects (verifier.py).                                           *)
(*                                                                         *)
(* A string is an opaque value with its NFC form, its length in code       *)
(* points, in UTF-8 and as an escaped JSON string; the caps are constants. *)
(* What is stored is a JSON object: white space, the order of keys and     *)
(* escapes are the JSON library's.  A signature is the bytes it was made   *)
(* over; the parts of a pin that PinProtocol models (source, vector,       *)
(* windows) are left out.                                                  *)
(***************************************************************************)
EXTENDS Integers, Sequences, FiniteSets, FiniteSetsExt

CONSTANTS
  Str, Empty,              \* strings, and the empty one
  Nfc,                     \* Nfc[s] : the NFC form
  Unsafe,                  \* strings with control or bidi-override characters
  Surrogates,              \* strings with a lone surrogate
  Stamp,                   \* strings that strftime makes of a datetime
  Instant,                 \* strings that match _TS_RE and exist in the calendar
  Points, Bytes, Escaped,  \* lengths: code points, UTF-8, JSON with \u escapes
  RecordId,                \* the key "vectorpin.record_id"
  Request,                 \* the callers' inputs
  MaxKid, MaxModel, MaxKey, MaxValue,  \* caps, in bytes
  MaxEntries, MaxDim, MaxPin,          \* caps on extra, vec_dim and the whole
  MaxEdits,                \* bound: changes of one stored pin
  Wrong,                   \* a value of another JSON type, or a missing string
  Null,                    \* JSON's null
  None                     \* Python's None; a field that is not written

StrictHash == {"sha256:h1", "sha256:h2"}
\* Python's `$` also matches before a final newline.
HashMatches == StrictHash \cup {"sha256:h1 newline"}
Hash == HashMatches \cup {"malformed"}
Encoding == {"canonical", "other alphabet or bits", "not 64 bytes"}

\* kid, model, model_hash, dim, extra (a sequence of pairs, keys distinct), ts
Requests ==
  [kid : Str, model : Str, model_hash : {None} \cup Hash, dim : Nat \ {0},
   extra : Seq(Str \X Str), ts : Str]

WireAssumption ==
  /\ Empty \in Str /\ RecordId \in Str
  /\ Unsafe \subseteq Str /\ Surrogates \subseteq Str
  /\ Nfc \in [Str -> Str] /\ \A s \in Str : Nfc[Nfc[s]] = Nfc[s]
  /\ \A s \in Str : (s \in Unsafe \cup Surrogates) = (Nfc[s] \in Unsafe \cup Surrogates)
  /\ Nfc[RecordId] = RecordId
  /\ Stamp \subseteq Str /\ Instant \subseteq Str
  /\ \A t \in Stamp \cup Instant : t # Empty /\ t \notin Unsafe \cup Surrogates /\ Nfc[t] = t
  /\ Points \in [Str -> Nat] /\ Bytes \in [Str -> Nat] /\ Escaped \in [Str -> Nat]
  /\ \A s \in Str : Points[s] <= Bytes[s] /\ Bytes[s] <= Escaped[s]
  /\ Request \subseteq Requests
  /\ \A r \in Request : \A m, n \in DOMAIN r.extra : r.extra[m][1] = r.extra[n][1] => m = n
  /\ {MaxKid, MaxModel, MaxKey, MaxValue, MaxEntries, MaxDim, MaxPin, MaxEdits} \subseteq Nat
  /\ {Wrong, None} \cap Str = {} /\ Wrong # None /\ None # "OK"
  /\ {Wrong, None, Null} \cap Hash = {} /\ Null # None
  /\ \A D \in SUBSET Str : \A x \in {Wrong, None} : x \notin [D -> Str \cup {Wrong}]

ASSUME WireAssumption

Safe(s) == s \notin Unsafe \cup Surrogates

-----------------------------------------------------------------------------
(* attestation.py: headers and the bytes under the signature.              *)

\* The strings of a header that both versions sign.
Encoded(h) ==
  {h.model, h.ts} \cup DOMAIN h.extra \cup {h.extra[k] : k \in DOMAIN h.extra}

NormalizedExtra(e) ==
  [k \in {Nfc[j] : j \in DOMAIN e} |-> Nfc[e[CHOOSE j \in DOMAIN e : Nfc[j] = k]]]

\* canonicalize: no two keys of a signed or parsed v2 header share a form.
CanonicalizeV2(h) ==
  [h EXCEPT !.kid = Nfc[h.kid], !.model = Nfc[h.model], !.ts = Nfc[h.ts],
            !.extra = NormalizedExtra(h.extra)]
CanonicalizeV1(h) == [h EXCEPT !.kid = None]
Canonicalize(h) == IF h.v = 1 THEN CanonicalizeV1(h) ELSE CanonicalizeV2(h)
\* .encode("utf-8") has no bytes for a lone surrogate.
Raises(h) ==
  (Encoded(h) \cup IF h.v = 1 THEN {} ELSE {h.kid}) \cap Surrogates # {}

\* PinHeader.to_dict: an empty extra and an absent model_hash are not written.
NoExtra == [k \in {} |-> Empty]
ToDict(h) == [h EXCEPT !.extra = IF h.extra = NoExtra THEN None ELSE h.extra]

\* The keys of what is stored as extra.
Entries(e) == IF e \in {Wrong, None} THEN {} ELSE DOMAIN e

\* What from_dict makes of a dict: `d.get("extra", {})`, and null is no model_hash.
Extra(d) == IF d.extra = None THEN NoExtra ELSE d.extra
HeaderOf(d) ==
  [d EXCEPT !.model_hash = IF d.model_hash = Null THEN None ELSE d.model_hash,
            !.extra = Extra(d)]

-----------------------------------------------------------------------------
(* signer.py.                                                              *)

\* The caller's dict, as it is.
RawExtra(pairs) ==
  [k \in {pairs[n][1] : n \in DOMAIN pairs} |->
     pairs[CHOOSE n \in DOMAIN pairs : pairs[n][1] = k][2]]

\* extra_norm: of the keys with one normal form the last one stays.
SignedExtra(pairs) ==
  LET at(k) == {n \in DOMAIN pairs : Nfc[pairs[n][1]] = k} IN
  [k \in {Nfc[pairs[n][1]] : n \in DOMAIN pairs} |-> Nfc[pairs[Max(at(k))][2]]]

\* Mutant: the extra strings are signed as they came.
SignedHeaderRaw(r) ==
  [v |-> 2, kid |-> Nfc[r.kid], model |-> Nfc[r.model], model_hash |-> r.model_hash,
   source_hash |-> "sha256:h1", vec_hash |-> "sha256:h1", dim |-> r.dim, ts |-> r.ts,
   extra |-> RawExtra(r.extra)]

SignedHeader(r) ==
  [v |-> 2, kid |-> Nfc[r.kid], model |-> Nfc[r.model], model_hash |-> r.model_hash,
   source_hash |-> "sha256:h1", vec_hash |-> "sha256:h1", dim |-> r.dim, ts |-> r.ts,
   extra |-> SignedExtra(r.extra)]

\* Mutant: the values of extra are not screened.
CanSignAnyValue(r) ==
  /\ r.kid # Empty /\ Safe(r.kid)
  /\ r.model # Empty /\ Safe(r.model)
  /\ \A n \in DOMAIN r.extra : Safe(r.extra[n][1])
  /\ Nfc[r.ts] = r.ts

CanSign(r) ==
  /\ r.kid # Empty /\ Safe(r.kid)
  /\ r.model # Empty /\ Safe(r.model)
  /\ \A n \in DOMAIN r.extra : Safe(r.extra[n][1]) /\ Safe(r.extra[n][2])
  /\ Nfc[r.ts] = r.ts

-----------------------------------------------------------------------------
(* attestation.py: Pin.from_dict, one operator per rule.                   *)

\* The total of code points (dict path) or of bytes (JSON path, escaped by
\* to_json); the fixed fields are left out of both.
Total(d, length) ==
  LET ofStr(s) == IF s = Wrong THEN 0 ELSE length[s] IN
  ofStr(d.kid) + ofStr(d.model) + ofStr(d.ts)
    + SumFunction([k \in Entries(d.extra) |-> length[k] + ofStr(d.extra[k])])

\* Mutant: the NFC and control-character rules are left to the verifier.
StringOkAnyForm(s, cap, v) ==
  s \notin {Wrong, Empty} /\ Bytes[s] <= cap /\ s \notin Surrogates

StringOk(s, cap, v) ==
  /\ s \notin {Wrong, Empty}
  /\ Bytes[s] <= cap
  /\ s \notin Surrogates
  /\ v = 2 => s \notin Unsafe /\ Nfc[s] = s

ExtraStringOk(s, cap, v) ==
  /\ s # Wrong
  /\ Bytes[s] <= cap
  /\ s \notin Surrogates
  /\ v = 2 => s \notin Unsafe /\ Nfc[s] = s

ExtraOk(d) ==
  LET e == Extra(d) IN
  /\ e # Wrong
  /\ Cardinality(DOMAIN e) <= MaxEntries
  /\ \A k \in DOMAIN e : ExtraStringOk(k, MaxKey, d.v) /\ ExtraStringOk(e[k], MaxValue, d.v)

\* Mutant: of a v1 ts only the type is looked at.
TsOkStrictOnly(d) ==
  /\ d.ts \notin {Wrong, Empty}
  /\ d.v = 2 => d.ts \in Instant /\ Safe(d.ts) /\ Nfc[d.ts] = d.ts

TsOk(d) ==
  /\ d.ts \notin {Wrong, Empty} /\ Safe(d.ts)
  /\ IF d.v = 2 THEN d.ts \in Instant /\ Nfc[d.ts] = d.ts ELSE Bytes[d.ts] <= MaxModel

HashesOk(d) ==
  /\ {d.source_hash, d.vec_hash} \subseteq HashMatches
  /\ d.model_hash \in HashMatches \cup {None, Null}

FromDict(w, versions) ==
  LET d == w.dict IN
  /\ ~w.unknown
  /\ Total(d, Points) <= MaxPin
  /\ d.v \in versions
  /\ StringOk(d.model, MaxModel, d.v)
  /\ StringOk(d.kid, MaxKid, d.v)
  /\ d.dim \in 1..MaxDim
  /\ HashesOk(d) /\ TsOk(d) /\ ExtraOk(d)
  /\ w.sig.form = "canonical"

\* The text is measured before it is decoded.
FromJson(w, versions) == Total(w.dict, Escaped) <= MaxPin /\ FromDict(w, versions)

-----------------------------------------------------------------------------
VARIABLES
  stage,     \* "new", "refused", "signed", "stored", "parsed", "rejected", "judged"
  request,   \* what the caller asked the signer for
  signed,    \* the header that was signed, or None
  wire,      \* what is stored: [unknown, dict, sig], or None
  path,      \* how it is stored: "dict" (payload, JSONB) or "json" (text)
  legacy,    \* the reader is a LegacyV1Verifier
  verdict,   \* what verify returned, or None
  edits

vars == <<stage, request, signed, wire, path, legacy, verdict, edits>>

Init ==
  /\ stage = "new" /\ request \in Request
  /\ signed = None /\ wire = None /\ path = None /\ legacy = FALSE
  /\ verdict = None /\ edits = 0

\* Signer(key, kid), then Signer.pin: a ValueError on a hostile string.  The ts of
\* this signer is a datetime that it formats itself.
Sign ==
  /\ stage = "new" /\ request.ts \in Stamp
  /\ stage' = IF CanSign(request) THEN "signed" ELSE "refused"
  /\ signed' = IF CanSign(request) THEN SignedHeader(request) ELSE None
  /\ UNCHANGED <<request, wire, path, legacy, verdict, edits>>

\* The v1 signer put the strings into the pin as they came.
SignV1 ==
  LET h == [SignedHeader(request) EXCEPT !.v = 1, !.kid = request.kid,
              !.model = request.model, !.extra = RawExtra(request.extra)] IN
  /\ stage = "new" /\ Empty \notin {h.kid, h.model} /\ ~Raises(h)
  /\ stage' = "signed" /\ signed' = h
  /\ UNCHANGED <<request, wire, path, legacy, verdict, edits>>

\* Pin.to_dict or Pin.to_json, as the adapter stores it.
Store(p) ==
  /\ stage = "signed"
  /\ stage' = "stored" /\ path' = p
  /\ wire' = [unknown |-> FALSE, dict |-> ToDict(signed),
              sig |-> [form |-> "canonical", over |-> Canonicalize(signed)]]
  /\ UNCHANGED <<request, signed, legacy, verdict, edits>>

\* Somebody changes the stored pin: one field of the dict, one entry of extra, a
\* field of his own or the encoding of the signature.  An optional field may be
\* taken away, or written although it is empty.
FieldEdits(d) ==
  {[d EXCEPT !.v = v] : v \in {0, 1, 2}}
  \cup {[d EXCEPT !.kid = s] : s \in Str \cup {Wrong}}
  \cup {[d EXCEPT !.model = s] : s \in Str \cup {Wrong}}
  \cup {[d EXCEPT !.model_hash = g] : g \in Hash \cup {None, Null}}
  \cup {[d EXCEPT !.source_hash = g] : g \in Hash}
  \cup {[d EXCEPT !.dim = n] : n \in {0, 1, MaxDim, MaxDim + 1}}
  \cup {[d EXCEPT !.ts = s] : s \in Str \cup {Wrong}}

\* null is Wrong here.
ExtraEdits(e) ==
  {Wrong, None, NoExtra}
  \cup {[j \in Entries(e) \cup {k} |-> IF j = k THEN s ELSE e[j]] : k \in Str, s \in Str \cup {Wrong}}
  \cup {[j \in Entries(e) \ {k} |-> e[j]] : k \in Entries(e)}

Changed(w) ==
  {[w EXCEPT !.unknown = TRUE]}
  \cup {[w EXCEPT !.dict = d] : d \in FieldEdits(w.dict)}
  \cup {[w EXCEPT !.dict.extra = e] : e \in ExtraEdits(w.dict.extra)}
  \cup {[w EXCEPT !.sig.form = f] : f \in Encoding}

Edit ==
  /\ stage = "stored" /\ edits < MaxEdits
  /\ wire' \in Changed(wire) \ {wire}
  /\ edits' = edits + 1
  /\ UNCHANGED <<stage, request, signed, path, legacy, verdict>>

\* Pin.from_dict or Pin.from_json, or LegacyV1Verifier.parse_pin.
Parse(old) ==
  LET versions == IF old THEN {1, 2} ELSE {2}
      accepted == IF path = "json" THEN FromJson(wire, versions) ELSE FromDict(wire, versions) IN
  /\ stage = "stored"
  /\ legacy' = old
  /\ stage' = IF accepted THEN "parsed" ELSE "rejected"
  /\ UNCHANGED <<request, signed, wire, path, verdict, edits>>

\* The strings of verify: the registry holds the request's kid, and the caller
\* expects the request's model and record id, each as the caller has them.
Judge(h, sig, r) ==
  LET id == RawExtra(r.extra) IN
  IF h.kid # r.kid THEN "UNKNOWN_KEY"
  ELSE IF sig.over # Canonicalize(h) THEN "SIGNATURE_INVALID"
  ELSE IF h.model # r.model THEN "MODEL_MISMATCH"
  ELSE IF /\ RecordId \in DOMAIN id
          /\ RecordId \notin DOMAIN h.extra \/ h.extra[RecordId] # id[RecordId]
       THEN "RECORD_MISMATCH" ELSE "OK"

Verify ==
  /\ stage = "parsed"
  /\ stage' = "judged"
  /\ verdict' = Judge(HeaderOf(wire.dict), wire.sig, request)
  /\ UNCHANGED <<request, signed, wire, path, legacy, edits>>

Next ==
  \/ Sign \/ SignV1
  \/ \E p \in {"dict", "json"} : Store(p)
  \/ Edit
  \/ \E old \in BOOLEAN : Parse(old)
  \/ Verify

Spec == Init /\ [][Next]_vars

-----------------------------------------------------------------------------
IsDict(d) ==
  /\ d.v \in 0..2 /\ {d.kid, d.model, d.ts} \subseteq Str \cup {Wrong}
  /\ d.model_hash \in Hash \cup {None, Null} /\ {d.source_hash, d.vec_hash} \subseteq Hash
  /\ d.dim \in Nat
  /\ d.extra \notin {Wrong, None} =>
       DOMAIN d.extra \subseteq Str /\ \A k \in DOMAIN d.extra : d.extra[k] \in Str \cup {Wrong}
IsHeader(h) == IsDict(h) /\ h.model_hash # Null /\ h.extra \notin {Wrong, None}

\* What was signed is a header whose strings UTF-8 can hold.
TypeOK ==
  /\ stage \in {"new", "refused", "signed", "stored", "parsed", "rejected", "judged"}
  /\ request \in Request /\ path \in {None, "dict", "json"}
  /\ signed # None => IsHeader(signed) /\ ~Raises(signed)
  /\ wire # None => IsDict(wire.dict) /\ wire.sig.form \in Encoding
  /\ legacy \in BOOLEAN /\ edits \in 0..MaxEdits
  /\ verdict \in {None, "OK", "UNKNOWN_KEY", "SIGNATURE_INVALID", "MODEL_MISMATCH",
                  "RECORD_MISMATCH"}

\* attestation.py, from_dict: the parser lets through no string (kid of v2, model, ts
\* or extra) that a verifier cannot turn into signed bytes: "canonicalization cannot
\* raise", v1 or v2.
ParsedCanonicalizes == stage \in {"parsed", "judged"} => ~Raises(HeaderOf(wire.dict))

\* The dicts that from_dict takes for one header: a model_hash it has not may be
\* null, and an extra without entries may be written.
Spellings(h) ==
  {[h EXCEPT !.model_hash = g, !.extra = e]
     : g \in {h.model_hash} \cup (IF h.model_hash = None THEN {Null} ELSE {}),
       e \in {h.extra} \cup (IF h.extra = NoExtra THEN {None} ELSE {})}

\* A pin that verifies is, in every field and spelling, the one the signer made, but
\* for the two optional fields when they are empty: a decomposed string, another
\* base64 spelling, a field of one's own or a changed value is not accepted.
OnlyEmptyFieldsVary ==
  verdict = "OK" =>
    /\ ~wire.unknown /\ wire.dict \in Spellings(signed)
    /\ wire.sig = [form |-> "canonical", over |-> Canonicalize(signed)]

\* A caller within the caps of docs/spec.md 4.3, whose kid, model and record id
\* are in normal form, gets a pin that parses and verifies on either path.
WithinCaps(r) ==
  LET h == SignedHeader(r) IN
  /\ Bytes[h.kid] <= MaxKid /\ Bytes[h.model] <= MaxModel
  /\ Cardinality(DOMAIN h.extra) <= MaxEntries
  /\ \A k \in DOMAIN h.extra : Bytes[k] <= MaxKey /\ Bytes[h.extra[k]] <= MaxValue
  /\ Total(ToDict(h), Escaped) <= MaxPin
  /\ r.dim <= MaxDim /\ r.ts \in Instant /\ r.model_hash \in StrictHash \cup {None}

Composed(r) ==
  /\ Nfc[r.kid] = r.kid /\ Nfc[r.model] = r.model
  /\ \A n \in DOMAIN r.extra :
       Nfc[r.extra[n][1]] = RecordId => r.extra[n] = <<RecordId, Nfc[r.extra[n][2]]>>

HonestPinVerifies ==
  edits = 0 /\ WithinCaps(request) /\ Composed(request) =>
    /\ stage = "rejected" => signed.v = 1
    /\ stage = "judged" => verdict = "OK"
=============================================================================
