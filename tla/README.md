# VectorPin in TLA+

VectorPin signs embeddings: a *pin* is an Ed25519 signature over the hash of a
vector, the hash of the text it was made from, the model's name and a few
identifiers. Pins live in the metadata of a vector database and are checked
when records are read or audited. This directory models the Python reference
implementation (`src/src/vectorpin`), checks the models with TLC and proves the
properties that matter most with TLAPS.

## The system

| Component | State it keeps | Operations | Interacts with |
|---|---|---|---|
| `hash.py` | none | `native_dtype`, `is_wider_than`, `hash_vector`, `hash_text` | called by signer and verifier |
| `attestation.py` | none (immutable `Pin`) | canonical bytes of v2 and v1, `to_json`, `from_dict`, `from_json` | signer, verifier, adapters |
| `signer.py` | a private key and its kid | `pin`, `_sign_with_domain` | ingestion, the pinning loop, manifests |
| `verifier.py` | the registry: kid to key and window | `verify`, `add_key`, `public_key_for` | reads, audits, manifests |
| `adapters/base.py` | none | `vector_from_store`, `parse_pin_field`, `verify_record`, `get_verified`, `iter_verified` | concrete adapters, audits |
| `adapters/*.py` | a database connection | `iter_records`, `get`, `attach_pin` | the database, shared with everybody |
| `manifest.py` | none | `merkle_root`, `build_manifest`, `verify_manifest`, signed summaries | audits, a file |
| `cli.py` | files: keys, manifests | `keygen`, `pin`, `verify-pin`, `audit-*`, `verify-summary` | all of the above |
| Rust and TypeScript ports | as above | sign, verify, parse | the same pins |
| `detectors/` | a fitted model | statistical scoring | nothing else |

The library itself is sequential. What is hard about it is what it is placed
in: a database that others write between any two calls, clocks and keys that
change hands, files that outlive a killed process.

* **Races on the store.** The pinning loop reads a row, signs it and attaches the
  pin later, to whatever the row has become. A walk reads a collection page by
  page while clients write it. One backend's `attach_pin` is three calls.
* **Edits after signing.** The protocol's point is that any edit of a row or of a
  pin is noticed. Edits compose: a pin of an older version, on another row, with
  an edited header, in another spelling, at another precision.
* **Precision.** The caller's array, the type a column persists, the type a client
  delivers and the type an adapter declares are four widths. A cast in the wrong
  place either hides an edit or raises a false alarm.
* **Failure.** An adapter raises in the middle of a walk; an audit is killed while
  it writes a manifest, a keygen between its two files; two processes write the
  same file.
* **Time.** A pin's `ts` has whole seconds and is written by the key holder; a
  window and a trusted time have fractions and are written by others.

What makes each component correct: what verifies was signed (verifier, reads);
what was signed and left alone verifies (signer, wire, adapters); a walk gives the
whole collection, once (adapters); a green audit looked at everything (audit
loop); a manifest that matches is of this record set (manifests); rotation
strands nothing and revocation stops everything (registry); two key files are
one pair (keygen). PROJECT.json lists each hazard at its line.

## Modules

`PinProtocol` holds the operators of the protocol and no state; `PinStore`,
`KeyRotation` and `StoredRecord` put them in three environments. `Audit` assumes of
its walks what `WalkContract` states and implements `AuditPromise`; `AdapterWalk`
implements `WalkContract`. `SignerWire`, `Merkle`, `AttachPin` and `Keygen` each
look at one part in more detail than the others need. `MC*` modules give constants
their values for TLC, `*Proofs` modules hold theorems.

**PinProtocol.** `Verify` is `Verifier._verify_inner`, one operator per step, in the
code's order: `KeyStage` (version, signature length, registry), `WindowStage`,
`SignatureStage`, `SourceStage`, `VectorStage`, `ModelStage`, `ReplayStage`.
`SignPin`, `SignedHeader` and `CanSign` are `Signer.pin`; `VerifyRecord` and
`ParsePinField` are `adapters/base.py`. Data is abstract: SHA-256 and Ed25519 are
injective and unforgeable, the contents of an embedding are one value, a float width
is the set `Grid[w]` of contents it can hold and a cast to `d` the function
`Round[d]`; text has a normal form `Nfc`. `PrecisionAssumption` and `TextAssumption`
say what is used of them (a cast lands on its grid and leaves the grid alone, NFC is
idempotent).

**PinStore.** `rows` is the collection; a `worker` runs the pinning loop of the
repository's README.md as three steps (`Fetch`, `SignSnapshot`, `Attach`) with the
world in between. `Ingest` signs the embedding in memory and inserts it at the
store's precision. `Rewrite`, `Remove`, `Spoil`, `Transplant` and `SelfSign` are
everyone else with write access. `signed` is a history variable of what the honest
signer was looking at. `GetVerified` is the read. All workers share one honest key;
a pin is bound to its record or not, as the caller of `Signer.pin` chose.

**SignerWire.** The strings of a pin from the caller to the verdict: `Sign`
(`Signer.pin` with `_normalize_str`, refusing hostile strings), `Store` (as a dict
or as JSON text), `Edit` (one field, one entry of `extra`, an optional field taken away
or written although it is empty, an unknown field, another spelling of the
signature), `Parse` (`from_dict` and `from_json`, rule by rule, by the strict or the
v1-accepting reader) and `Verify`. What is stored is the JSON object (`ToDict`), what
is judged the header the parser makes of it (`HeaderOf`): the two differ where a field
is optional. JSON text, with its white space, order of keys and escapes, is left to
the library. A string, `ts` included, is an opaque value with its NFC form and three
lengths; the caps are constants. `SignV1` stands for pins of the old signer, which no
longer exists in the code but whose pins the reader accepts.

**StoredRecord.** One row in one of the five backends: `Ingest` pins an array and
stores it at the column's type, `Rewrite` is anyone else, `Convert` is the adapter's
row converter (`FromLance`, `FromPg`, `FromChroma`, `FromPinecone`, `FromQdrant`:
what the client may deliver and what type the adapter asks for), `vector_from_store`
and the pin field in each shape a database can hold it. `Verdict` is PinProtocol's
`VerifyRecord` on the outcome.

**AdapterWalk.** `iter_records` read by read: `ReadSnapshot` and `NextChunk`
(LanceDB, pgvector), `ScrollPage` (Qdrant), `ListPage` and `FetchIds` (Pinecone),
`OffsetPage` (Chroma), then `Yield` row by row, with `Insert`, `Replace` and
`Delete` by others between any two. A row is the write that made it, the one that
inserted its id (Chroma lists in that order) and whether it has a vector (a
converter raises without one). An empty page of Pinecone's stands for the end of the
client library's generator, which is what ends that loop (pinecone.py:130). A list the server gives is a set of ids put in order
by rank (`InOrder`): by id for four of the backends, by insertion for Chroma. `taken`, `left` and `origin` are history variables.

**WalkContract** is the abstract walk: take rows as they are when they are read, an
id once; end only with nothing left that was there throughout. It is what `Audit`'s
`FetchPage` and PinStore's `Fetch` assume. `Contract` in AdapterWalk maps it.

**AttachPin.** One process per `attach_pin` call: `OneCall` for the four backends that
change the pin in one request, `ReadPrior` and `WriteMerged` for Chroma, against `Edit`,
`Delete` and `Insert` by others. A missing id is a KeyError (pgvector, Chroma) or a
silent success (the others). `wrote` is what operators last put into the other
fields; `stayed`, `alone` and `raced` say who interfered.

**Audit.** Each auditor is `_audit_loop` cut where the world can intervene: `Start`
(options and the manifest are read), `FetchPage` and `Examine` (a page is read from
the store, its records are looked at later), `Stop` and `Raise` (the walk's two
ends), `CheckManifest`, `OpenManifest` and `WriteManifest` (`write_text` empties the
file before it fills it), `Report`. `Write` changes the store, `Kill` ends a process
anywhere. A record is its pin field, the `vec_hash` in it and whether
`verify_record` passes it: what that verdict is worth is PinStore's subject. `left`
is a history variable: ids present since the walk began and not read yet. `quiet`:
nobody wrote since.

**AuditPromise** is the abstract audit: judge records, suspect, pass or fail; it may
pass only with no doubt and nothing left to judge. `Promise` in Audit maps it.

**Merkle.** `merkle_root` twice, by the side that builds a manifest and the side that
audits: `Start` sorts the walk's entries and refuses repeated ids, `Climb` is one turn
of the loop. A digest is the term that was hashed.

**KeyRotation.** The procedure of docs/spec.md section 7 on `Verifier.add_key`:
`Introduce`, `Switch`, `Retire`, `Revoke`; `Sign` stamps a pin with the clock cut to
the second and `Store` ingests it later; `Leak` copies a private key and `Forge`
signs anything with it. Every event takes a tick, so no two share an instant. Clocks
agree.

**Keygen.** The two files of one key id: `CreatePrivate` (`O_EXCL`), `WritePrivate`
(which may be short), `OpenPublic` and `WritePublic` (`write_bytes` empties, then
fills), `Finish`, and `Kill` between any two; `PinCmd` and `VerifyPinCmd` read what
is there; `Clear` and `Move` are the operator. Its specification is `KeygenSpec`: the
proofs of both key modules extend both, so their names differ.

## Runs

| Run | Question | Bounds |
|---|---|---|
| `pin_store` | does only what was signed verify, and all of it, on an f32 store with two racing passes? | 2 ids, 2 passes, 2 statements, 1 edit; 3 inputs with and without excess bits, two Unicode forms of a text |
| `signer_wire` | does an honest pin parse and verify, and nothing but it? | 10 strings that differ in form, length, safety and as a `ts`; 1 edit; small caps |
| `stored_record` | does any client, width or pin field hide bits or refuse an honest row? | 5 backends with every column and declared type, 6 contents, 2 rewrites |
| `stored_record_nan` | violated: does `get_verified` never raise on a stored vector? | LanceDB, f32 column |
| `adapter_walk` | do the five walks keep the contract, and end? | 4 ids (3 at first), pages of 2, 3 writes, 1 walk; no deletions under Chroma |
| `adapter_walk_chroma_deletes` | violated: does Chroma's walk miss nothing under deletions? | as above, 4 rows at first, 1 write |
| `attach_pin` | do pins arrive, do other fields survive? | 2 clients, 1 id, 2 pins, 2 fields, 3 calls, 4 writes |
| `audit` | do summaries, exit codes and manifests tell the truth while the store changes, the walk aborts or dies? Is the loop an AuditPromise, and does it end? | 1 auditor, 2 ids, 2 runs, 2 writes, 3 command lines |
| `audit_pair` | the manifest's promise for two auditors on one path, ids yielded twice | 1 id, walks of 2, 3 runs, 1 write, 4 command lines |
| `merkle` | do equal roots mean equal collections? | every walk of up to 3 of 4 entries, and longer ones up to 7 |
| `rotation` | does rotation strand honest pins, does revocation stop forged ones, do windows only narrow? | 3 kids, 2 ticks to a second, 8 ticks, 1 pin, 1 stolen key |
| `keygen` | are two key files one pair, whatever raced or died? | 3 keygens, key files of 2 units |

*Why the bounds are enough.* In PinStore a false acceptance needs a statement, a
second one to confuse it with and one edit; a race needs two passes or a pass and
a writer. In SignerWire fields are screened one by one, so each rule is met by one
string that breaks it and one edit. A walk's error needs a page that is full, one
that is not, a row on their boundary and a write on each side of it. In AttachPin a
lost update needs one call that has read, and one writer or a second call. In
Audit a hidden change needs one record that goes and one that comes, a manifest
run and a checking run; repeated changes add nothing a second one does not. With
`audit_pair`'s one id a repeated id already shows in the count; that repeats must be
refused at all is what `merkle` shows. A Merkle tree's odd levels are met first with 3, 5, 6 and 7 leaves; `MCMerkle` adds the
very walks whose tree would equal a shorter one's if repeated ids were let
through. In KeyRotation pins do not interact, so one pin per behaviour is enough,
and eight events are what introducing, using, replacing, retiring, stealing,
forging with and revoking one key between two others takes. In Keygen a third
process is there to meet what two have left. What the bounds could still miss of
the safety properties is mostly covered by the proofs below. Deadlock checking is
off where the bounds, or ends of processes, end behaviours.

*Fairness.* `Audit!FairSpec` assumes weak fairness of each auditor's own steps: the
operating system keeps a process running and database calls return or raise.
Nothing is assumed of starts, writers or kills. `AdapterWalk!FairSpec` assumes the same
of a walk whose consumer keeps asking. Both terminate because their end is only
ever delayed by ids ahead of the walk's place, and `Id` is finite: however often
these ids are written, a walk has a bounded number of steps (`WalksAreBounded`,
`AuditsAreBounded` below). A database whose writers keep inserting new ids ahead of
a walk by pages has no such set, the walk need not end, and the code has nothing
that would make it.

*Violations.* Each is a documented claim the code does not keep, quoted in
PROJECT.json. `adapter_walk_chroma_deletes`: Chroma pages by a count of rows, so a
row deleted on a page already read shifts the others, and one that nobody touched
is not yielded; an audit then exits green without having looked at it.
`stored_record_nan`: a NaN that a client delivers at 64 bits fails the round trip of
`vector_from_store`, and `get_verified` raises, although it promises not to on record
content.

## Properties

* `VerifiedWasSigned`: a row that verifies holds the text and, to the last bit the
  store keeps, the vector of one statement of the honest signer, for this record
  if the pin names one. It covers stale attachment, transplanted, edited and
  self-signed pins, precision widening and the v1 form.
* `PinStore!HonestRowVerifies`, `IngestVerifies`: no false alarm from Unicode forms,
  casts or the record binding; the second is an action property of ingestion.
* `ParsedCanonicalizes`, `OnlyEmptyFieldsVary`, `HonestPinVerifies`: no string that the
  parser lets through, the free `ts` of v1 included, makes canonicalization raise in
  the verifier; a pin that verifies has the signer's values in the signer's spelling,
  but for `model_hash` and `extra` when they are empty; a caller within the caps whose
  strings are in normal form gets a pin that verifies.
* `NoHiddenBits`, `StoredRecord!HonestRowVerifies`: a record that verifies is stored
  with exactly the contents that were signed; the width of the transport raises no
  alarm. The second asks that the adapter is told the column's type.
* `ContractKept` (the refinement), `YieldsWhatItRead`, `SnapshotIsOneInstant`,
  `WalkEnds`: a walk reads every row that stays, once, and its pages lose and repeat
  nothing.
* `MetadataKept`, `AttachedIsStored`: attaching a pin changes nothing else, and arrives.
* `SummaryAddsUp`: the five counters account for every record yielded and agree with
  the exit code on all paths through the loop.
* `ManifestMatchesStore`, `NoFalseAlarm`: a green check of a manifest means this very
  record set; and a sound, undisturbed collection is never red.
* `ManifestCoversCollection`: a run with nothing to report fills the file with a
  manifest of the whole collection; an action property of the step that fills it.
* `PromiseKept`: the refinement. `Terminates`: liveness.
* `RootNamesTheCollection`, `OrderIsImmaterial`: equal roots, equal collections, and
  back.
* `HistoryVerifies`, `StolenKeyStopped`, `IngestedInWindowVerifies`,
  `ExpiredStaysExpired`: what rotation and revocation keep and stop, by `ts` and by
  trusted time.
* `PairMatches`, `DonePairMatches`, `OwnPinNotRefused`, `NoKeyReplaced`: the key files;
  all but the second as long as no private file has been moved away.

Each has a mutant: a definition changed the way a plausible bug would change the
code, beside the original and marked so, under which TLC finds it violated.

What the code does at the edges of these properties, and a reader of the documents
might not expect; the models do the same:

* A manifest is written and signed after an aborted walk (cli.py:323); the exit code is
  the only sign that it is partial. A repeated id makes `--write-manifest` end in a
  traceback and no summary (cli.py:325).
* The audit commands register one bare key (cli.py:397), so they cannot honour a
  window (docs/spec.md:203). `public_key_for` ignores windows (verifier.py:214).
* A `valid_from` with a fraction rejects honest pins of that second (verifier.py:374);
  `rotation` has it in whole seconds.
* Raw key bytes passed to `add_key` again drop the window registered before
  (verifier.py:205): the premise of `ExpiredStaysExpired`.
* Chroma's `attach_pin` loses a change of metadata made inside its read and write
  (chroma.py:165); `MetadataKept` excepts those records and no others.
* The signer promises pins a strict verifier parses (signer.py:41) but not their
  caps, and of two extra keys with one normal form keeps the one that sorts last
  (signer.py:234). `kid`, model and record id are compared as the caller spells them
  (verifier.py:459). `_HASH_RE` ends in `$`, which also takes a final newline
  (attestation.py:83).
* A pin without a `model_hash` also parses and verifies with `"model_hash": null`
  (attestation.py:430), and one with no `extra` with `"extra": {}` (attestation.py:453):
  `to_dict` writes neither, so one v2 pin has up to four accepted JSON objects. Section
  4.1 of docs/spec.md types `model_hash` as a string, and refuses null for `extra` only,
  which the code does. `Spellings` lists them.
* pgvector's `halfvec` is declared f32 (pgvector.py:251): wider, and so harmless.
* A private key is not written atomically (cli.py:71), and once it is in a vault the
  next keygen of that id replaces the public file (cli.py:107).

## Proofs

TLAPS proves, for every value of the constants that meets the named assumptions:

* **PinStoreProofs**: `TypeCorrect`, `VerifiedWasSignedAlways`,
  `HonestRowVerifiesAlways`, `IngestAlwaysVerifies`. The invariant `IInv` adds to
  the types that every honest signature found in a row or a worker covers a
  statement in `signed` (`KnownRows`, `KnownPins`), that statements say what was
  signed (`Truthful`) and that stored contents lie on their width's grid (`OnGrid`).
  Acceptance then follows the verifier step by step: the signature gives the
  statement (`CanonicalInjective`), the vector step gives equal contents because a
  width that is not wider than the dtype has its grid inside the dtype's
  (`NoLooseBits`). For the action property: only `Ingest` puts a row where there was
  none, and it is one that `HonestRowVerifies` speaks of.
* **SignerWireProofs**: `TypeCorrect`, `ParsedAlwaysCanonicalizes`,
  `OnlyEmptyFieldsEverVary`, `HonestPinAlwaysVerifies`. The invariant follows the pin along
  its stages: what was signed has bytes and, as v2, is normal (`Signed`), what is
  stored is that pin or an edit of it (`Wired`), what was parsed passed the rules
  (`Accepted`), the verdict is of what was parsed (`Judged`). A v2 header that passed
  is its own canonical form (`ParsedFacts`), so equal bytes are equal headers; a v1
  header is told by its kid, which verification looks up. A dict is one of the
  spellings of its header (`SpellingFacts`), and the header of what was written is what
  was signed (`DictFacts`). For the honest pin, `HInv`
  adds where it came from: its header is the request's (`Made`), what is stored is
  that pin until somebody edits it (`Untouched`), and a pin that was refused was
  refused by one of the readers (`Refused`); a request within the caps then passes
  every rule (`HonestParses`). The rule on the size of `extra` needs that its length
  in code points, which one reader counts, is at most its escaped length, which the
  caller was held to (`PointsWithinEscaped`): a comparison of two sums over its
  entries, by induction over finite sets (`EverySubset`, `SumLaw`, `SumMonotone`).
* **StoredRecordProofs**: `TypeCorrect`, `NoHiddenBitsEver`,
  `HonestRowAlwaysVerifies`. The statement is what was signed (`Truthful`), stored
  contents lie on the column's grid (`OnGrid`), a row nobody touched holds the
  statement's rounding (`Untouched`) and the record is of the row as it is
  (`Current`).
* **AttachPinProofs**: `TypeCorrect`, `MetadataAlwaysKept`,
  `AttachedIsAlwaysStored`. What a Chroma call has read is what operators last wrote
  unless the record raced (`Fresh`); a deleted record left nothing behind (`Gone`);
  `There`, `Refused` and `Landed` follow a record from the call to the return.
* **AuditProofs**: `TypeCorrect`, `SummaryAlwaysAddsUp`, `ManifestAlwaysMatches`,
  `ManifestAlwaysCovers`, `NeverFalselyRed`, `AuditImplementsPromise`. Per auditor:
  `AllCounted` (tally against entries), `AllClosed` (a green exit had an empty
  `left` and an accepting verdict), `AllWalked` (while quiet, what was read is what
  is there), and for a red one that somebody is to blame: a record, the abort or the
  manifest. Steps of others are framed once (`OthersStill`); each step of `Next`
  maps to a step of the promise or a stutter. `AuditsAreBounded`, when the adapter
  yields no id twice: `Effort`, ids not read yet and phases to come, falls with every
  step of an audit and rises with nobody else's.
* **AdapterWalkProofs**: `TypeCorrect`, `SnapshotIsAlwaysOneInstant`,
  `AlwaysYieldsWhatItRead`, `NoneIsMissed`, `WalkImplementsContract`,
  `WalksAreBounded`. What was read is what was yielded, what waits in the page and
  what waits behind it (`NothingLost`), and what is left lies ahead (`Ahead`): from the
  cursor on for Qdrant and Pinecone (`PassedIds`), from the offset on in Chroma's
  list (`PassedRows`), where an insertion only ever adds at the end. A deletion
  breaks that, as `adapter_walk_chroma_deletes` shows, so what is said of Chroma is
  said of a collection no row is deleted from (`Steady`). Lists are put in order by
  rank, which is onto because it is one to one (`InOrderFacts`). `Effort` is the
  variant of a walk: ids from the cursor on, each of which is read and yielded once,
  bounded because the n-th id of an ascending page is n - 1 further (`AscendingReach`).
* **MerkleProofs**: `TypeCorrect`, `RootNamesOneCollection`, `OrderNeverMatters`,
  for collections of any size. The climb of either side is compared level by level:
  levels of the two trees whose first nodes are equal are at the same height, for a
  leaf is no inner node (`FirstLeaf`, `FirstUp`), and levels that are equal have
  equal levels under them (`InStep`, by `UpInjective`). An odd level repeats its
  last node, so that needs the nodes of a level to differ (`UpDistinct`), which is
  what refusing repeated ids ensures. Back from collections to roots: ascending ids
  leave one order (`SameOrder`, an entry's place is its rank), trees of one order
  agree level by level, and a level with another above it has more than one node
  (`Lockstep`, inductive beside `IInv`).
* **KeyProofs**, about the keys of one operator, rotated and on disk. Of KeyRotation:
  `TypeCorrect`, `StolenKeyAlwaysStopped`, `IngestedInWindowAlwaysVerifies`,
  `ExpiredAlwaysStaysExpired` and, when operators write `valid_from` in whole seconds,
  `HistoryAlwaysVerifies`. The invariant dates every pin: a draft or an honest record
  was signed after its key's `valid_from` and before its cutover, ingested later, and a
  forged one later than the leak, which no revocation postdates. For the action
  property, every rotation but a retirement by raw bytes leaves each window inside
  what it was. Of Keygen: `FilesTypeCorrect`, `PairAlwaysMatches`,
  `DonePairAlwaysMatches`, `OwnPinNeverRefused`, `NoKeyEverReplaced`, for any number of
  processes. One process is past `O_EXCL` at a time and owns the private file
  (`Owned`); what is signed or shown goes back to that file's key (`PairedFiles`,
  `KeptFiles`, `DonePair`).

Every invariant and action property of a passing run is stated by one of these
theorems, and both refinements are proved. Beyond the constants' assumptions, the
theorems have the hypotheses named here: `Steady`, whole seconds, and, for
`AuditsAreBounded`, finitely many ids and none yielded twice.

*Only model-checked.* Liveness, `Terminates` and `WalkEnds`: the prover has neither
fairness nor ENABLED. What it does prove of them is the variant, `AuditsAreBounded` and
`WalksAreBounded`: a natural number that falls with each of a process's own steps and
rises with nobody's. That such a step is possible until the end is left to TLC.

## Plan

Done: all modules above. What would come next:

1. **PortParity**: the decisions of the Rust and TypeScript ports on one pin, against
   `PinProtocol!Verify`; they are meant to be the same, and the shared test vectors
   compare them on examples.
2. **TsVerify**: the TypeScript `verify` reads the pin and the options again after its
   `await`s; what a caller that changes them meanwhile can make of that.
3. **Signed summaries**: `sign_audit_summary` and `verify-summary`.

## Not modelled

The Rust and TypeScript ports (plan), signed summaries (a signature over a
dict, with the domain separation Audit's manifest has), the detectors (numeric
code on scikit-learn), connections, TLS checks, quoting of predicates and argument
parsing, the generator of test vectors and the benchmarks. `hash_files` appears as
an opaque model hash; JSON syntax, base64 and Ed25519 themselves are libraries'. A
SHA-256 collision and a forged Ed25519 signature are outside the model by
assumption, and so is a writer of the manifest file other than audits:
docs/security.md asks for a place the database's administrator cannot write.
