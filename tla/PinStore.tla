------------------------------- MODULE PinStore -------------------------------
(***************************************************************************)
(* The life of a pin in a vector store: producers pin at ingestion or walk *)
(* the store and attach pins, applications rewrite rows meanwhile, anyone  *)
(* with write access to the database edits rows and pin fields, and a      *)
(* reader fetches a record through get_verified.                          *)
(*                                                                         *)
(* The pinning pass is README.md's loop: iter_records hands out a snapshot,*)
(* signer.pin signs it, attach_pin writes the pin onto whatever the row is *)
(* by then.  `signed` is a history variable: every statement an honest     *)
(* signer ever made and what it was looking at when it made it.            *)
(***************************************************************************)
EXTENDS PinProtocol

CONSTANTS
  Id,          \* record ids
  Worker,      \* pinning passes running at once
  Input,       \* embeddings as the embedding model hands them over
  NativeWidth, \* the element type the backend persists
  Honest,      \* the honest producer's kid
  HonestKey,   \* and its key pair
  Edited,      \* headers a writer of the database may put into a pin field
  Policy,      \* the reader's policy
  MaxSigned,   \* bound: statements the honest signer makes
  MaxEdits     \* bound: rewrites of a row or a pin field by others

Reg == [k \in Kid |-> IF k = Honest
                      THEN [key |-> HonestKey, from |-> None, until |-> None]
                      ELSE None]

StoreAssumption ==
  /\ Id \subseteq Name
  /\ Input \subseteq {a \in Array : IsArray(a)}
  /\ NativeWidth \in Dtypes
  /\ Honest \in Kid /\ HonestKey \in Key
  /\ Edited \subseteq Header
  /\ Policy \in [source_key : {TRUE}, enforce : {TRUE}, unpinned : BOOLEAN,
                 model : Opt(Model), model_hash : Opt(Model),
                 ids : [Reserved -> Opt(Name)]]
  /\ MaxSigned \in Nat /\ MaxEdits \in Nat
  /\ Model # {}

ASSUME StoreAssumption

VARIABLES
  rows,     \* the collection: rows[i] is a row, or None
  worker,   \* each pinning pass: the snapshot it holds and the pin it made
  signed,   \* history: statements made by the honest signer
  edits     \* rewrites by others so far

vars == <<rows, worker, signed, edits>>

Row == [vec : Array, text : Text, field : Field]
Snapshot == [id : Id, vec : Array, text : Text]
Statement == [header : Header, id : Id, vec : Array, text : Text]

Persisted(a) == [a EXCEPT !.width = NativeWidth, !.val = Round[NativeWidth][a.val]]

IdsOf(i, bind) == [k \in Reserved |-> IF k = "record_id" /\ bind THEN i ELSE None]

TheModel == CHOOSE m \in Model : TRUE
PinHeader(i, a, t, d, bind) ==
  SignedHeader(Honest, TheModel, None, a, t, d, IdsOf(i, bind), 0)

-----------------------------------------------------------------------------
Init ==
  /\ rows = [i \in Id |-> None]
  /\ worker = [w \in Worker |-> [phase |-> "idle", snap |-> None, pin |-> None]]
  /\ signed = {}
  /\ edits = 0

Sign(i, a, t, d, bind) ==
  /\ Cardinality(signed) < MaxSigned
  /\ signed' = signed \cup {[header |-> PinHeader(i, a, t, d, bind),
                             id |-> i, vec |-> a, text |-> t]}

\* Ingestion: sign the embedding in memory, insert row and pin together. The
\* backend keeps the contents at its own precision.
Ingest(i, a, t, d, bind) ==
  /\ rows[i] = None
  /\ CanSign(a, t, d)
  /\ Sign(i, a, t, d, bind)
  /\ rows' = [rows EXCEPT ![i] =
       [vec |-> Persisted(a), text |-> t,
        field |-> JsonField(SignPin(HonestKey, PinHeader(i, a, t, d, bind)))]]
  /\ UNCHANGED <<worker, edits>>

\* iter_records yields a row: the worker holds a copy.
Fetch(w, i) ==
  /\ worker[w].phase = "idle"
  /\ rows[i] # None
  /\ worker' = [worker EXCEPT ![w] =
       [phase |-> "fetched", pin |-> None,
        snap |-> [id |-> i, vec |-> rows[i].vec, text |-> rows[i].text]]]
  /\ UNCHANGED <<rows, signed, edits>>

\* signer.pin on the copy; a refusal (ValueError) ends this record's turn.
SignSnapshot(w, bind) ==
  LET s == worker[w].snap IN
  /\ worker[w].phase = "fetched"
  /\ IF CanSign(s.vec, s.text, None)
     THEN /\ Sign(s.id, s.vec, s.text, None, bind)
          /\ worker' = [worker EXCEPT ![w].phase = "signed",
               ![w].pin = SignPin(HonestKey, PinHeader(s.id, s.vec, s.text, None, bind))]
     ELSE /\ worker' = [worker EXCEPT ![w] = [phase |-> "idle", snap |-> None, pin |-> None]]
          /\ UNCHANGED signed
  /\ UNCHANGED <<rows, edits>>

\* attach_pin: sets the pin field of the row that has the id now; an id that
\* is gone is an error or no effect, depending on the backend.
Attach(w) ==
  LET i == worker[w].snap.id IN
  /\ worker[w].phase = "signed"
  /\ rows' = IF rows[i] = None THEN rows
             ELSE [rows EXCEPT ![i].field = JsonField(worker[w].pin)]
  /\ worker' = [worker EXCEPT ![w] = [phase |-> "idle", snap |-> None, pin |-> None]]
  /\ UNCHANGED <<signed, edits>>

-----------------------------------------------------------------------------
(* Everyone else who can write the database.                               *)

Edit == edits < MaxEdits /\ edits' = edits + 1 /\ UNCHANGED <<worker, signed>>

\* An embedding or a text is replaced in place; the pin field stays.
Rewrite(i, a, t) ==
  /\ Edit
  /\ rows[i] # None
  /\ rows' = [rows EXCEPT ![i].vec = Persisted(a), ![i].text = t]

Remove(i) ==
  /\ Edit
  /\ rows[i] # None
  /\ rows' = [rows EXCEPT ![i] = None]

\* The pin field is stripped or spoiled.
Spoil(i, f) ==
  /\ Edit
  /\ rows[i] # None
  /\ f \in {NoField, BadField}
  /\ rows' = [rows EXCEPT ![i].field = f]

\* A pin made for some record at some time is put on this row, with any header
\* around its signature: a copy, a restored backup, an edited field.
Transplant(i, s, h) ==
  /\ Edit
  /\ rows[i] # None
  /\ s \in signed
  /\ h \in Edited \cup {s.header}
  /\ rows' = [rows EXCEPT ![i].field =
       JsonField([header |-> h,
                  sig |-> [key |-> HonestKey, msg |-> Canonical(s.header)]])]

\* Someone signs a header of their own with their own key.
SelfSign(i, k, h) ==
  /\ Edit
  /\ rows[i] # None
  /\ k \in Key \ {HonestKey}
  /\ h \in Edited
  /\ rows' = [rows EXCEPT ![i].field = JsonField(SignPin(k, h))]

-----------------------------------------------------------------------------
Next ==
  \/ \E i \in Id, a \in Input, t \in Text, d \in Opt(Dtypes), b \in BOOLEAN :
       Ingest(i, a, t, d, b)
  \/ \E w \in Worker, i \in Id : Fetch(w, i)
  \/ \E w \in Worker, b \in BOOLEAN : SignSnapshot(w, b)
  \/ \E w \in Worker : Attach(w)
  \/ \E i \in Id, a \in Input, t \in Text : Rewrite(i, a, t)
  \/ \E i \in Id : Remove(i)
  \/ \E i \in Id, f \in {NoField, BadField} : Spoil(i, f)
  \/ \E i \in Id, s \in signed : \E h \in Edited \cup {s.header} : Transplant(i, s, h)
  \/ \E i \in Id, k \in Key, h \in Edited : SelfSign(i, k, h)

Spec == Init /\ [][Next]_vars

-----------------------------------------------------------------------------
WorkerState == [phase : {"idle", "fetched", "signed"}, snap : Opt(Snapshot), pin : Opt(Pin)]

\* Every variable holds what the code's types allow.
TypeOK ==
  /\ rows \in [Id -> Opt(Row)]
  /\ worker \in [Worker -> WorkerState]
  /\ signed \subseteq Statement
  /\ edits \in 0..MaxEdits

\* get_verified: the verdict on the row as one fetch returns it.
GetVerified(i) == VerifyRecord(Reg, i, rows[i].vec, rows[i].text, rows[i].field, Policy)

\* What the statement s vouches for: this text, this exact vector contents and,
\* when the pin names a record, this record.
Vouches(s, i, a, t) ==
  /\ Nfc[s.text] = Nfc[t]
  /\ a.dim = s.vec.dim
  /\ a.val = Round[s.header.vec_dtype][s.vec.val]
  /\ s.header.extra["record_id"] = None \/ s.id = i

\* A row that verifies is one an honest signer saw: same text, and the same
\* vector down to the last bit the store holds, for this record if the pin is
\* bound to one -- whatever happened to rows, pins and snapshots in between
\* (verifier.py steps 2-8, verify_record). Only allow_unpinned lets a row
\* through without a pin, and only one whose field is really absent.
VerifiedWasSigned ==
  \A i \in Id : rows[i] # None /\ GetVerified(i) = "OK" =>
    \/ Policy.unpinned /\ rows[i].field.state = "absent"
    \/ \E s \in signed : Vouches(s, i, rows[i].vec, rows[i].text)

\* The reader's policy asks for nothing the honest signer does not put in a pin.
PolicyMet ==
  /\ Policy.model \in {None, TheModel} /\ Policy.model_hash = None
  /\ \A k \in Reserved \ {"record_id"} : Policy.ids[k] = None

\* No false alarm: a row that carries the pin of a statement which vouches for
\* what the row holds verifies, if the pinned dtype carries the row's precision.
HonestRowVerifies ==
  PolicyMet => \A i \in Id, s \in signed :
    /\ rows[i] # None
    /\ rows[i].field = JsonField(SignPin(HonestKey, s.header))
    /\ Vouches(s, i, rows[i].vec, rows[i].text)
    /\ ~IsWiderThan(rows[i].vec, s.header.vec_dtype)
    => GetVerified(i) = "OK"

\* Ingestion under the dtype the store persists raises no false alarm, however
\* many low-order bits the embedding had: what is inserted verifies at once
\* (Signer.pin's vec_dtype: "Pin under the dtype your store persists").
IngestVerifies ==
  [][PolicyMet => \A i \in Id :
       /\ rows[i] = None /\ rows'[i] # None
       /\ rows'[i].field.pin.header.vec_dtype = NativeWidth
       => GetVerified(i)' = "OK"]_vars
=============================================================================
