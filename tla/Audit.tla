-------------------------------- MODULE Audit --------------------------------
(***************************************************************************)
(* The audit commands (cli.py, _audit_loop) against a collection that other *)
(* clients change while it is walked, and the signed manifest that lets one *)
(* audit see what an earlier one saw (manifest.py).                        *)
(*                                                                         *)
(* A record is reduced to what the loop tells apart: its pin field, the    *)
(* vec_hash the pin states and the verdict of verify_record on it.  The    *)
(* SHA-256 of the Merkle tree is injective: a root is the set of leaves.   *)
(***************************************************************************)
EXTENDS Integers, Sequences, FiniteSets

CONSTANTS
  Auditor,    \* audit processes (one file system, one manifest path)
  Id,         \* record ids
  Hash,       \* vec_hash values of pins
  Key,        \* keys that sign manifests
  Trusted,    \* keys the audits' manifest verifier knows
  Collection, \* collection names
  Label,      \* the audited collection's own name (label_value)
  Options,    \* the command lines that are used
  PageSize,   \* records an adapter reads at once (batch_size)
  MayRepeat,  \* the id column is not unique: an id may be yielded again
  MaxWalk,    \* bound: records one walk yields when ids repeat
  MaxRuns,    \* bound: audits started
  MaxWrites,  \* bound: changes of the collection by others
  Torn,       \* a manifest file that does not parse
  None

NoHash == ""
Row == [field : {"absent", "unusable"}, hash : {NoHash}, verifies : {FALSE}]
       \cup [field : {"pin"}, hash : Hash, verifies : BOOLEAN]
Option == [tolerant : BOOLEAN, manifest : BOOLEAN, write : BOOLEAN,
           expected : Collection \cup {None}, key : Key]

Verdicts == {"OK", "UNKNOWN_KEY", "COLLECTION_MISMATCH", "COUNT_MISMATCH",
             "PARSE_ERROR", "ROOT_MISMATCH"}

AuditAssumption ==
  /\ NoHash \notin Hash
  /\ Options \subseteq Option /\ Options # {}
  /\ Label \in Collection
  /\ Trusted \subseteq Key
  /\ None \notin Row /\ None \notin Collection /\ None \notin {0, 1, 137}
  /\ None \notin Verdicts
  /\ PageSize \in Nat \ {0} /\ MayRepeat \in BOOLEAN
  /\ MaxWalk \in Nat /\ MaxRuns \in Nat /\ MaxWrites \in Nat

ASSUME AuditAssumption

VARIABLES
  store,   \* the collection: store[i] is a Row, or None
  file,    \* the file at the manifest path: None, Torn or a manifest
  pc,      \* pc[a] : where the audit is
  opts,    \* opts[a] : its command line
  loaded,  \* loaded[a] : the manifest it read at start, or None
  batch,   \* batch[a] : records read from the store and not yet looked at
  entries, \* entries[a] : records the loop has seen, in order
  tally,   \* tally[a] : the counters, which the summary prints
  aborted, \* aborted[a] : the walk ended in an exception
  verdict, \* verdict[a] : verify_manifest's result, or None
  exit,    \* exit[a] : the process's exit code
  printed, \* printed[a] : the summary is on stdout
  left,    \* history: ids present since the walk began and not yet read
  quiet,   \* history: nobody changed the collection since the audit began
  runs, writes

audit == <<pc, opts, loaded, batch, entries, tally, aborted, verdict, exit, printed>>
vars == <<store, file, audit, left, quiet, runs, writes>>

-----------------------------------------------------------------------------
(* manifest.py. A manifest's leaf is (record id, vec_hash), the hash empty  *)
(* for a record without a usable pin.                                      *)

Record == [id : Id, row : Row]
Leaf(r) == <<r.id, r.row.hash>>
Leaves(es) == {Leaf(es[n]) : n \in DOMAIN es}
Repeats(es) == \E m, n \in DOMAIN es : m < n /\ es[m].id = es[n].id

Manifest == [key : Key, collection : Collection, count : Nat,
             root : SUBSET (Id \X (Hash \cup {NoHash}))]

\* build_manifest(signer, collection_id or label_value, entries)
BuildManifest(o, es) ==
  [key |-> o.key, collection |-> IF o.expected = None THEN Label ELSE o.expected,
   count |-> Len(es), root |-> Leaves(es)]

\* Mutant: the root is not compared.
VerifyManifestCount(m, es, expected) ==
  IF m.key \notin Trusted THEN "UNKNOWN_KEY"
  ELSE IF expected # None /\ m.collection # expected THEN "COLLECTION_MISMATCH"
  ELSE IF Len(es) # m.count THEN "COUNT_MISMATCH"
  ELSE IF Repeats(es) THEN "PARSE_ERROR" ELSE "OK"

\* Mutant: the manifest's collection is not compared.
VerifyManifestAnyName(m, es, expected) ==
  IF m.key \notin Trusted THEN "UNKNOWN_KEY"
  ELSE IF Len(es) # m.count THEN "COUNT_MISMATCH"
  ELSE IF Repeats(es) THEN "PARSE_ERROR"
  ELSE IF Leaves(es) # m.root THEN "ROOT_MISMATCH" ELSE "OK"

VerifyManifest(m, es, expected) ==
  IF m.key \notin Trusted THEN "UNKNOWN_KEY"
  ELSE IF expected # None /\ m.collection # expected THEN "COLLECTION_MISMATCH"
  ELSE IF Len(es) # m.count THEN "COUNT_MISMATCH"
  ELSE IF Repeats(es) THEN "PARSE_ERROR"
  ELSE IF Leaves(es) # m.root THEN "ROOT_MISMATCH" ELSE "OK"

-----------------------------------------------------------------------------
Present(s) == {i \in Id : s[i] # None}
Seen(a) == {entries[a][n].id : n \in DOMAIN entries[a]}
NoTally == [total |-> 0, pinned |-> 0, ok |-> 0, bad |-> 0, unpinned |-> 0]

Init ==
  /\ store \in [Id -> Row \cup {None}]
  /\ file = None
  /\ pc = [a \in Auditor |-> "idle"]
  /\ opts = [a \in Auditor |-> CHOOSE o \in Options : TRUE]
  /\ loaded = [a \in Auditor |-> None]
  /\ batch = [a \in Auditor |-> {}]
  /\ entries = [a \in Auditor |-> <<>>]
  /\ tally = [a \in Auditor |-> NoTally]
  /\ aborted = [a \in Auditor |-> FALSE]
  /\ verdict = [a \in Auditor |-> None]
  /\ exit = [a \in Auditor |-> None]
  /\ printed = [a \in Auditor |-> FALSE]
  /\ left = [a \in Auditor |-> {}]
  /\ quiet = [a \in Auditor |-> FALSE]
  /\ runs = 0 /\ writes = 0

\* A client of the database inserts, replaces or deletes a record.
Write(i, r) ==
  /\ writes < MaxWrites
  /\ store[i] # r
  /\ store' = [store EXCEPT ![i] = r]
  /\ left' = [a \in Auditor |-> left[a] \cap Present(store')]
  /\ quiet' = [a \in Auditor |-> FALSE]
  /\ writes' = writes + 1
  /\ UNCHANGED <<file, audit, runs>>

\* The command reads its options and the manifest; a manifest that is missing
\* or does not parse is a traceback before the walk.
Start(a, o) ==
  LET refused == o.manifest /\ file \in {None, Torn} IN
  /\ pc[a] \in {"idle", "done"}
  /\ runs < MaxRuns
  /\ runs' = runs + 1
  /\ pc' = [pc EXCEPT ![a] = IF refused THEN "done" ELSE "walk"]
  /\ opts' = [opts EXCEPT ![a] = o]
  /\ loaded' = [loaded EXCEPT ![a] = IF o.manifest /\ ~refused THEN file ELSE None]
  /\ batch' = [batch EXCEPT ![a] = {}]
  /\ entries' = [entries EXCEPT ![a] = <<>>]
  /\ tally' = [tally EXCEPT ![a] = NoTally]
  /\ aborted' = [aborted EXCEPT ![a] = FALSE]
  /\ verdict' = [verdict EXCEPT ![a] = None]
  /\ exit' = [exit EXCEPT ![a] = IF refused THEN 1 ELSE None]
  /\ printed' = [printed EXCEPT ![a] = FALSE]
  /\ left' = [left EXCEPT ![a] = Present(store)]
  /\ quiet' = [quiet EXCEPT ![a] = TRUE]
  /\ UNCHANGED <<store, file, writes>>

\* iter_records reads the next page: any records it has not yielded before.
FetchPage(a, S) ==
  /\ pc[a] = "walk" /\ batch[a] = {}
  /\ S # {} /\ S \subseteq Present(store) /\ Cardinality(S) <= PageSize
  /\ IF MayRepeat THEN Len(entries[a]) + Cardinality(S) <= MaxWalk
                  ELSE S \cap Seen(a) = {}
  /\ batch' = [batch EXCEPT ![a] = {[id |-> i, row |-> store[i]] : i \in S}]
  /\ left' = [left EXCEPT ![a] = @ \ S]
  /\ UNCHANGED <<store, file, pc, opts, loaded, entries, tally, aborted, verdict,
                 exit, printed, quiet, runs, writes>>

One(b) == IF b THEN 1 ELSE 0

\* Mutant: an unpinned record is skipped before it is counted.
CountLate(t, row, tolerant) ==
  [total |-> t.total + One(row.field # "absent"),
   pinned |-> t.pinned + One(row.field = "pin"),
   ok |-> t.ok + One(row.verifies),
   bad |-> t.bad + One(IF row.field = "absent" THEN ~tolerant ELSE ~row.verifies),
   unpinned |-> t.unpinned + One(row.field = "absent")]

\* Mutant: --allow-unpinned is forgotten.
CountStrict(t, row, tolerant) ==
  [total |-> t.total + 1,
   pinned |-> t.pinned + One(row.field = "pin"),
   ok |-> t.ok + One(row.verifies),
   bad |-> t.bad + One(~row.verifies),
   unpinned |-> t.unpinned + One(row.field = "absent")]

\* The counters after the loop body has looked at a record. An unpinned one is
\* settled by the options; any other is what verify_record says of it.
Count(t, row, tolerant) ==
  [total |-> t.total + 1,
   pinned |-> t.pinned + One(row.field = "pin"),
   ok |-> t.ok + One(row.verifies),
   bad |-> t.bad + One(IF row.field = "absent" THEN ~tolerant ELSE ~row.verifies),
   unpinned |-> t.unpinned + One(row.field = "absent")]

Failed(t) == [t EXCEPT !.bad = @ + 1]

\* One turn of the loop. The order inside a page is the adapter's.
Examine(a, r) ==
  /\ pc[a] = "walk" /\ r \in batch[a]
  /\ batch' = [batch EXCEPT ![a] = @ \ {r}]
  /\ entries' = [entries EXCEPT ![a] = Append(@, r)]
  /\ tally' = [tally EXCEPT ![a] = Count(@, r.row, opts[a].tolerant)]
  /\ UNCHANGED <<store, file, pc, opts, loaded, aborted, verdict, exit, printed,
                 left, quiet, runs, writes>>

\* StopIteration: what was there all along has been yielded.
Stop(a) ==
  /\ pc[a] = "walk" /\ batch[a] = {} /\ left[a] = {}
  /\ pc' = [pc EXCEPT ![a] = "check"]
  /\ UNCHANGED <<store, file, opts, loaded, batch, entries, tally, aborted, verdict,
                 exit, printed, left, quiet, runs, writes>>

\* Mutant: an aborted walk is not a failure.
RaiseQuietly(a) ==
  /\ pc[a] = "walk"
  /\ pc' = [pc EXCEPT ![a] = "check"]
  /\ batch' = [batch EXCEPT ![a] = {}]
  /\ aborted' = [aborted EXCEPT ![a] = TRUE]
  /\ UNCHANGED <<store, file, opts, loaded, entries, tally, verdict, exit, printed,
                 left, quiet, runs, writes>>

\* Mutant: the walk is resumed after an exception.
RaiseAndResume(a) ==
  /\ pc[a] = "walk"
  /\ batch' = [batch EXCEPT ![a] = {}]
  /\ aborted' = [aborted EXCEPT ![a] = TRUE]
  /\ tally' = [tally EXCEPT ![a].bad = 1]
  /\ UNCHANGED <<store, file, pc, opts, loaded, entries, verdict, exit, printed,
                 left, quiet, runs, writes>>

\* The adapter raises: the walk ends here, and counts as a failure.
Raise(a) ==
  /\ pc[a] = "walk"
  /\ pc' = [pc EXCEPT ![a] = "check"]
  /\ batch' = [batch EXCEPT ![a] = {}]
  /\ aborted' = [aborted EXCEPT ![a] = TRUE]
  /\ tally' = [tally EXCEPT ![a] = Failed(@)]
  /\ UNCHANGED <<store, file, opts, loaded, entries, verdict, exit, printed,
                 left, quiet, runs, writes>>

CheckManifest(a) ==
  LET v == VerifyManifest(loaded[a], entries[a], opts[a].expected) IN
  /\ pc[a] = "check"
  /\ pc' = [pc EXCEPT ![a] = IF opts[a].write THEN "open" ELSE "report"]
  /\ IF opts[a].manifest
     THEN /\ verdict' = [verdict EXCEPT ![a] = v]
          /\ tally' = [tally EXCEPT ![a] = IF v = "OK" THEN @ ELSE Failed(@)]
     ELSE UNCHANGED <<verdict, tally>>
  /\ UNCHANGED <<store, file, opts, loaded, batch, entries, aborted, exit, printed,
                 left, quiet, runs, writes>>

\* build_manifest raises on a repeated id: a traceback, no summary. Otherwise
\* write_text opens the path, which empties it.
OpenManifest(a) ==
  /\ pc[a] = "open"
  /\ IF Repeats(entries[a])
     THEN /\ pc' = [pc EXCEPT ![a] = "done"]
          /\ exit' = [exit EXCEPT ![a] = 1]
          /\ UNCHANGED file
     ELSE /\ pc' = [pc EXCEPT ![a] = "write"]
          /\ file' = Torn
          /\ UNCHANGED exit
  /\ UNCHANGED <<store, opts, loaded, batch, entries, tally, aborted, verdict, printed,
                 left, quiet, runs, writes>>

\* What is written over another audit's fresh manifest may leave its tail.
WriteManifest(a) ==
  LET m == BuildManifest(opts[a], entries[a]) IN
  /\ pc[a] = "write"
  /\ pc' = [pc EXCEPT ![a] = "report"]
  /\ file' \in IF file = Torn THEN {m} ELSE {m, Torn}
  /\ UNCHANGED <<store, opts, loaded, batch, entries, tally, aborted, verdict, exit,
                 printed, left, quiet, runs, writes>>

\* Mutant: the number of failures is the exit code.
ReportCount(a) ==
  /\ pc[a] = "report"
  /\ pc' = [pc EXCEPT ![a] = "done"]
  /\ printed' = [printed EXCEPT ![a] = TRUE]
  /\ exit' = [exit EXCEPT ![a] = tally[a].bad]
  /\ UNCHANGED <<store, file, opts, loaded, batch, entries, tally, aborted, verdict,
                 left, quiet, runs, writes>>

Report(a) ==
  /\ pc[a] = "report"
  /\ pc' = [pc EXCEPT ![a] = "done"]
  /\ printed' = [printed EXCEPT ![a] = TRUE]
  /\ exit' = [exit EXCEPT ![a] = IF tally[a].bad # 0 THEN 1 ELSE 0]
  /\ UNCHANGED <<store, file, opts, loaded, batch, entries, tally, aborted, verdict,
                 left, quiet, runs, writes>>

\* The process is killed.
Kill(a) ==
  /\ pc[a] \notin {"idle", "done"}
  /\ pc' = [pc EXCEPT ![a] = "done"]
  /\ exit' = [exit EXCEPT ![a] = 137]
  /\ UNCHANGED <<store, file, opts, loaded, batch, entries, tally, aborted, verdict,
                 printed, left, quiet, runs, writes>>

Work(a) ==
  \/ \E S \in SUBSET Id : FetchPage(a, S)
  \/ \E r \in batch[a] : Examine(a, r)
  \/ Stop(a)
  \/ Raise(a)
  \/ CheckManifest(a)
  \/ OpenManifest(a)
  \/ WriteManifest(a)
  \/ Report(a)

Next ==
  \/ \E i \in Id, r \in Row \cup {None} : Write(i, r)
  \/ \E a \in Auditor, o \in Options : Start(a, o)
  \/ \E a \in Auditor : Work(a)
  \/ \E a \in Auditor : Kill(a)

Spec == Init /\ [][Next]_vars

\* The operating system runs the process; nothing makes an audit start.
FairSpec == Spec /\ \A a \in Auditor : WF_vars(Work(a))

-----------------------------------------------------------------------------
Tally == [total : Nat, pinned : Nat, ok : Nat, bad : Nat, unpinned : Nat]
Phases == {"idle", "walk", "check", "open", "write", "report", "done"}

\* Every variable holds what the code's types allow; the exit code is one of
\* the two the commands document, or a signal's.
TypeOK ==
  /\ store \in [Id -> Row \cup {None}]
  /\ file \in Manifest \cup {None, Torn}
  /\ pc \in [Auditor -> Phases]
  /\ opts \in [Auditor -> Options]
  /\ loaded \in [Auditor -> Manifest \cup {None}]
  /\ batch \in [Auditor -> SUBSET Record]
  /\ entries \in [Auditor -> Seq(Record)]
  /\ tally \in [Auditor -> Tally]
  /\ aborted \in [Auditor -> BOOLEAN]
  /\ verdict \in [Auditor -> Verdicts \cup {None}]
  /\ exit \in [Auditor -> {None, 0, 1, 137}]
  /\ printed \in [Auditor -> BOOLEAN]
  /\ left \in [Auditor -> SUBSET Id]
  /\ quiet \in [Auditor -> BOOLEAN]
  /\ runs \in 0..MaxRuns /\ writes \in 0..MaxWrites

\* A printed summary accounts for every record the walk yielded, from its own
\* fields: a record is verified, failed or (when tolerated) unpinned, and a
\* failure that is no record's is the abort's or the manifest's. An exit code
\* of 0 is the same statement as verification_failed = 0.
SummaryAddsUp ==
  \A a \in Auditor : printed[a] =>
    LET t == tally[a]
        extra == One(aborted[a]) + One(verdict[a] \notin {None, "OK"}) IN
    /\ t.total = Len(entries[a])
    /\ t.ok + t.bad + (IF opts[a].tolerant THEN t.unpinned ELSE 0) = t.total + extra
    /\ t.ok <= t.pinned /\ t.pinned + t.unpinned <= t.total
    /\ exit[a] = 0 <=> t.bad = 0

StoreLeaves == {<<i, store[i].hash>> : i \in Present(store)}

\* A green audit against a manifest, of a collection nobody touched meanwhile,
\* means the collection is the one the manifest was made of: no record deleted,
\* inserted or re-pinned and no pin stripped, at any time and by any number of
\* changes since (docs/security.md: "caught by a signed per-collection manifest");
\* the manifest is a trusted signer's and, when a name is expected, of that name.
ManifestMatchesStore ==
  \A a \in Auditor :
    exit[a] = 0 /\ opts[a].manifest =>
      /\ loaded[a].key \in Trusted
      /\ opts[a].expected \in {None, loaded[a].collection}
      /\ quiet[a] => loaded[a].root = StoreLeaves

Good == {r \in Row : r.verifies}
Bare == {r \in Row : r.field = "absent"}

\* No false alarm: with sound records, distinct ids, an undisturbed and complete
\* walk and a manifest made of this very collection, the audit is green.
NoFalseAlarm ==
  \A a \in Auditor :
    /\ printed[a] /\ quiet[a] /\ ~aborted[a] /\ ~Repeats(entries[a])
    /\ \A i \in Present(store) :
         store[i] \in Good \cup (IF opts[a].tolerant THEN Bare ELSE {})
    /\ opts[a].manifest =>
         /\ loaded[a].key \in Trusted
         /\ opts[a].expected \in {None, loaded[a].collection}
         /\ loaded[a].root = StoreLeaves
         /\ loaded[a].count = Cardinality(StoreLeaves)
    => exit[a] = 0

Phase(a) == CASE pc[a] = "idle" -> "idle"
              [] pc[a] = "done" -> IF exit[a] = 0 THEN "green" ELSE "red"
              [] OTHER -> "running"

Passes(r, tolerant) == r \in Good \/ (tolerant /\ r \in Bare)
Doubt(a) == \/ tally[a].bad > 0
            \/ \E r \in batch[a] : ~Passes(r.row, opts[a].tolerant)

\* The audit keeps AuditPromise: a green exit comes only after every record that
\* was there throughout was read during the walk, and found acceptable.
Promise == INSTANCE AuditPromise WITH
  phase <- [a \in Auditor |-> Phase(a)],
  tolerant <- [a \in Auditor |-> opts[a].tolerant],
  must <- left,
  doubt <- [a \in Auditor |-> Doubt(a)]

PromiseKept == Promise!Spec

\* Every audit that starts ends, whatever the collection does meanwhile.
Terminates == \A a \in Auditor : pc[a] = "walk" ~> pc[a] = "done"

\* A manifest of less than the collection is never the work of a run that has nothing
\* to report: what --write-manifest fills the file with, after a clean walk of an
\* undisturbed collection, holds every record of it (manifest.py, build_manifest:
\* "with every record in the collection").
ManifestCoversCollection ==
  [][\A a \in Auditor :
       /\ pc[a] = "write" /\ pc'[a] = "report" /\ file' # Torn
       /\ quiet[a] /\ tally[a].bad = 0
       => file'.root = StoreLeaves]_vars
=============================================================================
