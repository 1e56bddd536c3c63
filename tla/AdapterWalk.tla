----------------------------- MODULE AdapterWalk -----------------------------
(***************************************************************************)
(* iter_records of the five adapters, read by read, while other clients    *)
(* insert, replace and delete rows.  LanceDB and pgvector read one snapshot *)
(* and cut it into chunks; Qdrant scrolls by id; Pinecone lists a page of  *)
(* ids and then fetches them; Chroma pages by offset.  The consumer works  *)
(* between any two yields.                                                 *)
(*                                                                         *)
(* A row is what the walk can tell apart: the write that made it, the      *)
(* write that inserted its id (Chroma lists in that order) and whether it  *)
(* has a vector.                                                           *)
(***************************************************************************)
EXTENDS Integers, Sequences, FiniteSets, SequencesExt

CONSTANTS
  Id,         \* record ids, in the order the server sorts them: 1..n
  Backend,    \* the adapters that walk
  BatchSize,  \* batch_size
  Rows0,      \* how many ids the collection holds at first
  MaxWrites,  \* bound: changes by other clients
  MaxWalks,   \* bound: walks started
  Deleting,   \* the adapters whose collections rows are deleted from meanwhile
  None

Backends == {"lancedb", "pgvector", "qdrant", "pinecone", "chroma"}

Row == [ver : 0..MaxWrites, born : 0..MaxWrites, vector : BOOLEAN]
Read == [id : Id, row : Row]

WalkAssumption ==
  /\ IsFiniteSet(Id) /\ Id = 1..Cardinality(Id)
  /\ Backend \subseteq Backends
  /\ BatchSize \in Nat \ {0}
  /\ Rows0 \in 0..Cardinality(Id)
  /\ MaxWrites \in Nat /\ MaxWalks \in Nat
  /\ Deleting \subseteq Backends
  /\ None \notin Int /\ None \notin Row

ASSUME WalkAssumption

VARIABLES
  store,    \* store[i] : the row under i, or None
  backend,  \* the adapter that walks
  pc,       \* where its generator is
  cursor,   \* offset: a count (Chroma), an id (Qdrant, Pinecone), or None
  rest,     \* rows read and not yet handed to a chunk (snapshot adapters)
  ids,      \* ids listed and not yet fetched (Pinecone)
  page,     \* rows of the current page, not yet yielded
  yielded,  \* what the consumer got, in order
  left,     \* history: ids present since the walk began and not yet read
  taken,    \* history: rows read by this walk
  origin,   \* history: the collection when a snapshot was read
  writes, walks

walk == <<backend, pc, cursor, rest, ids, page, yielded>>
vars == <<store, walk, left, taken, origin, writes, walks>>

Present(s) == {i \in Id : s[i] # None}
Nothing == [i \in Id |-> None]

-----------------------------------------------------------------------------
(* The server's answers.                                                   *)

\* The ids of S, each at the place its rank names: before[i] goes before i.
Rank(S, before, i) == Cardinality(S \cap before[i])
InOrder(S, before) == [n \in 1..Cardinality(S) |-> CHOOSE i \in S : Rank(S, before, i) = n - 1]

ById == [i \in Id |-> 1..(i - 1)]
From(offset) == InOrder({i \in Present(store) : i >= offset}, ById)
\* Chroma lists rows in the order their ids were inserted.
ByBirth ==
  [i \in Present(store) |->
     {j \in Present(store) : \/ store[j].born < store[i].born
                             \/ store[j].born = store[i].born /\ j < i}]
Listing == InOrder(Present(store), ByBirth)
Rows(order) == [n \in DOMAIN order |-> [id |-> order[n], row |-> store[order[n]]]]
First(seq, n) == SubSeq(seq, 1, IF Len(seq) < n THEN Len(seq) ELSE n)

-----------------------------------------------------------------------------
Init ==
  /\ store \in [Id -> {None} \cup [ver : {0}, born : {0}, vector : BOOLEAN]]
  /\ Present(store) = 1..Rows0
  /\ Cardinality({i \in 1..Rows0 : ~store[i].vector}) <= 1
  /\ backend \in Backend
  /\ pc = "idle"
  /\ cursor = None
  /\ rest = <<>> /\ ids = <<>> /\ page = <<>> /\ yielded = <<>>
  /\ left = {} /\ taken = Nothing /\ origin = Nothing
  /\ writes = 0 /\ walks = 0

\* Another client's write: a new row, a replaced one or a deletion.
Write(i, r) ==
  /\ writes < MaxWrites
  /\ writes' = writes + 1
  /\ store' = [store EXCEPT ![i] = r]
  /\ left' = left \cap Present(store')
  /\ UNCHANGED <<walk, taken, origin, walks>>

Insert(i) ==
  store[i] = None /\ Write(i, [ver |-> writes + 1, born |-> writes + 1, vector |-> TRUE])
Replace(i) ==
  store[i] # None /\ Write(i, [store[i] EXCEPT !.ver = writes + 1])
Delete(i) == backend \in Deleting /\ store[i] # None /\ Write(i, None)

Snapshots(b) == b \in {"lancedb", "pgvector"}

\* iter_records is called; a generator reads nothing before its first row is
\* asked for.
Begin(b) ==
  /\ pc \in {"idle", "ended", "raised"} /\ walks < MaxWalks
  /\ walks' = walks + 1
  /\ backend' = b
  /\ cursor' = IF b = "chroma" THEN 0 ELSE IF b = "pinecone" THEN 1 ELSE None
  /\ pc' = IF Snapshots(b) THEN "open" ELSE "page"
  /\ taken' = Nothing /\ left' = Present(store)
  /\ rest' = <<>> /\ ids' = <<>> /\ page' = <<>> /\ yielded' = <<>>
  /\ UNCHANGED <<store, origin, writes>>

\* lancedb.py: to_arrow; pgvector.py: execute. Everything is read at once.
ReadSnapshot ==
  /\ pc = "open"
  /\ pc' = "chunk"
  /\ rest' = Rows(From(1))
  /\ taken' = store /\ origin' = store
  /\ left' = {}
  /\ UNCHANGED <<store, backend, cursor, ids, page, yielded, writes, walks>>

Got(rows) ==
  LET S == {rows[n].id : n \in DOMAIN rows} IN
  /\ page' = rows
  /\ taken' = [i \in Id |-> IF i \in S THEN store[i] ELSE taken[i]]
  /\ left' = left \ S

\* Mutant: the last, partial chunk is not handed on.
NextChunkFull ==
  /\ pc = "chunk" /\ page = <<>>
  /\ page' = IF Len(rest) < BatchSize THEN <<>> ELSE First(rest, BatchSize)
  /\ rest' = SubSeq(rest, Len(page') + 1, Len(rest))
  /\ pc' = IF Len(rest) < BatchSize THEN "ended" ELSE pc
  /\ UNCHANGED <<store, backend, cursor, ids, yielded, left, taken, origin, writes, walks>>

\* lancedb.py: to_batches; pgvector.py: fetchmany.
NextChunk ==
  /\ pc = "chunk" /\ page = <<>>
  /\ page' = First(rest, BatchSize)
  /\ rest' = SubSeq(rest, Len(page') + 1, Len(rest))
  /\ pc' = IF rest = <<>> THEN "ended" ELSE pc
  /\ UNCHANGED <<store, backend, cursor, ids, yielded, left, taken, origin, writes, walks>>

\* Mutant: the next page begins with the last row of this one.
ScrollPageAgain ==
  LET order == From(IF cursor = None THEN 1 ELSE cursor)
      more == Len(order) > BatchSize IN
  /\ backend = "qdrant" /\ pc = "page" /\ page = <<>>
  /\ Got(Rows(First(order, BatchSize)))
  /\ cursor' = IF more THEN order[BatchSize] ELSE None
  /\ pc' = IF order = <<>> THEN "ended" ELSE IF more THEN "page" ELSE "last"
  /\ UNCHANGED <<store, backend, rest, ids, yielded, origin, writes, walks>>

\* qdrant.py: scroll returns a page from `offset` on and the id that follows it.
ScrollPage ==
  LET order == From(IF cursor = None THEN 1 ELSE cursor)
      more == Len(order) > BatchSize IN
  /\ backend = "qdrant" /\ pc = "page" /\ page = <<>>
  /\ Got(Rows(First(order, BatchSize)))
  /\ cursor' = IF more THEN order[BatchSize + 1] ELSE None
  /\ pc' = IF order = <<>> THEN "ended" ELSE IF more THEN "page" ELSE "last"
  /\ UNCHANGED <<store, backend, rest, ids, yielded, origin, writes, walks>>

\* Mutant: an empty page of ids is not the end.
ListPageForever ==
  LET order == From(cursor) IN
  /\ backend = "pinecone" /\ pc = "page" /\ page = <<>>
  /\ ids' = First(order, BatchSize)
  /\ pc' = IF order = <<>> THEN "page" ELSE "fetch"
  /\ cursor' = IF order = <<>> THEN cursor ELSE Last(ids') + 1
  /\ UNCHANGED <<store, backend, rest, page, yielded, left, taken, origin, writes, walks>>

\* pinecone.py: the next page of `list`, ids only.
ListPage ==
  LET order == From(cursor) IN
  /\ backend = "pinecone" /\ pc = "page" /\ page = <<>>
  /\ ids' = First(order, BatchSize)
  /\ pc' = IF order = <<>> THEN "ended" ELSE "fetch"
  /\ cursor' = IF order = <<>> THEN cursor ELSE Last(ids') + 1
  /\ UNCHANGED <<store, backend, rest, page, yielded, left, taken, origin, writes, walks>>

\* Mutant: an id that is gone is not skipped.
FetchIdsBlind ==
  /\ pc = "fetch"
  /\ pc' = "page" /\ ids' = <<>>
  /\ Got(Rows(ids))
  /\ UNCHANGED <<store, backend, cursor, rest, yielded, origin, writes, walks>>

\* pinecone.py: the listed ids that still exist, in the list's order, as they are by now.
FetchIds ==
  /\ pc = "fetch"
  /\ pc' = "page" /\ ids' = <<>>
  /\ Got(Rows(InOrder({i \in ToSet(ids) : store[i] # None}, ById)))
  /\ UNCHANGED <<store, backend, cursor, rest, yielded, origin, writes, walks>>

\* Mutant: the offset counts pages.
OffsetPageByPage ==
  LET rows == First(Rows(SubSeq(Listing, cursor + 1, Len(Listing))), BatchSize) IN
  /\ backend = "chroma" /\ pc = "page" /\ page = <<>>
  /\ Got(rows)
  /\ cursor' = cursor + 1
  /\ pc' = IF rows = <<>> THEN "ended" ELSE IF Len(rows) < BatchSize THEN "last" ELSE "page"
  /\ UNCHANGED <<store, backend, rest, ids, yielded, origin, writes, walks>>

\* chroma.py: limit and offset count rows; a short page is the last one.
OffsetPage ==
  LET rows == First(Rows(SubSeq(Listing, cursor + 1, Len(Listing))), BatchSize) IN
  /\ backend = "chroma" /\ pc = "page" /\ page = <<>>
  /\ Got(rows)
  /\ cursor' = cursor + Len(rows)
  /\ pc' = IF rows = <<>> THEN "ended" ELSE IF Len(rows) < BatchSize THEN "last" ELSE "page"
  /\ UNCHANGED <<store, backend, rest, ids, yielded, origin, writes, walks>>

\* A row without a vector raises ValueError, and the generator is finished.
Yield ==
  /\ page # <<>>
  /\ page' = IF Head(page).row.vector THEN Tail(page) ELSE <<>>
  /\ IF Head(page).row.vector
     THEN yielded' = Append(yielded, Head(page)) /\ UNCHANGED pc
     ELSE pc' = "raised" /\ UNCHANGED yielded
  /\ UNCHANGED <<store, backend, cursor, rest, ids, left, taken, origin, writes, walks>>

Finish ==
  /\ pc = "last" /\ page = <<>>
  /\ pc' = "ended"
  /\ UNCHANGED <<store, backend, cursor, rest, ids, page, yielded, left, taken, origin,
                 writes, walks>>

Work == ReadSnapshot \/ NextChunk \/ ScrollPage \/ ListPage \/ FetchIds \/ OffsetPage \/ Yield \/ Finish

Next ==
  \/ \E i \in Id : Insert(i) \/ Replace(i) \/ Delete(i)
  \/ \E b \in Backend : Begin(b)
  \/ Work

Spec == Init /\ [][Next]_vars

\* The consumer keeps asking; nobody has to start a walk or to write.
FairSpec == Spec /\ WF_vars(Work)

-----------------------------------------------------------------------------
TypeOK ==
  /\ store \in [Id -> Row \cup {None}]
  /\ backend \in Backend
  /\ pc \in {"idle", "open", "chunk", "page", "fetch", "last", "ended", "raised"}
  /\ cursor \in Nat \cup {None}
  /\ rest \in Seq(Read) /\ page \in Seq(Read) /\ yielded \in Seq(Read)
  /\ ids \in Seq(Id)
  /\ left \subseteq Id
  /\ taken \in [Id -> Row \cup {None}] /\ origin \in [Id -> Row \cup {None}]
  /\ writes \in 0..MaxWrites /\ walks \in 0..MaxWalks

Walking == pc \in {"open", "chunk", "page", "fetch", "last"}

\* A walk that ends has handed the consumer exactly the rows it read, each under
\* its own id and once: no page, chunk or skipped id loses or repeats a row.
YieldsWhatItRead ==
  pc = "ended" => /\ ToSet(yielded) = {[id |-> i, row |-> taken[i]] : i \in Present(taken)}
                  /\ IsInjective([n \in DOMAIN yielded |-> yielded[n].id])

\* A LanceDB or pgvector walk is of one instant: what it yields is the collection
\* as it was when it was read, whatever happens before the last chunk.
SnapshotIsOneInstant ==
  pc = "ended" /\ backend \in {"lancedb", "pgvector"} =>
    ToSet(yielded) = {[id |-> i, row |-> origin[i]] : i \in Present(origin)}

\* base.py, iter_records: every row that was in the collection throughout the
\* walk has been read when it ends (chroma.py:120, "returns the whole collection").
NoneMissed == pc = "ended" => left = {}

\* The walks the audit loop and the pinning passes are modelled with.
Contract == INSTANCE WalkContract WITH
  phase <- IF Walking THEN "walking" ELSE pc

ContractKept == Contract!Spec

\* A walk that starts ends.
WalkEnds == Walking ~> pc \in {"ended", "raised"}
=============================================================================
