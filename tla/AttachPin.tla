------------------------------ MODULE AttachPin ------------------------------
(***************************************************************************)
(* attach_pin of the five adapters against clients that edit a record's    *)
(* metadata, delete it and insert it again.  LanceDB, pgvector, Qdrant and *)
(* Pinecone change the pin in one call; Chroma reads the metadata, merges  *)
(* and writes it back whole.  A call on an id that is not there is a       *)
(* KeyError (pgvector, Chroma) or changes nothing (the others).            *)
(***************************************************************************)
EXTENDS Integers

CONSTANTS
  Pass,       \* processes that attach pins, one backend each
  Id,         \* record ids
  Pin,        \* serialized pins
  Field,      \* the operator's own metadata keys
  Value,      \* their values
  Backend,    \* the adapters in use
  MaxCalls,   \* bound: attach_pin calls
  MaxWrites,  \* bound: changes by other clients
  None

Backends == {"lancedb", "pgvector", "qdrant", "pinecone", "chroma"}

AttachAssumption ==
  /\ Backend \subseteq Backends /\ Backend # {}
  /\ MaxCalls \in Nat /\ MaxWrites \in Nat
  /\ None \notin Pin /\ None \notin Value

ASSUME AttachAssumption

Meta == [Field -> Value \cup {None}]
Row == [pin : Pin \cup {None}, meta : Meta]

NoneAssumption == None \notin Row /\ None \notin Meta /\ None \notin Id /\ None \notin {"ok", "KeyError"}

ASSUME NoneAssumption

VARIABLES
  store,    \* store[i] : the row under i, or None
  backend,  \* the adapter in use
  target,   \* target[p] : the id of p's call, None outside a call
  carried,  \* carried[p] : the pin of p's call
  prior,    \* prior[p] : the metadata Chroma's call has read, or None
  result,   \* result[p] : "ok", "KeyError" or None while a call runs
  wrote,    \* history: wrote[i] : what operators last gave i's fields
  stayed,   \* history: stayed[p] : p's record has been there since its call began
  alone,    \* history: alone[p] : nobody has pinned p's record since p did
  raced,    \* history: i changed while a call was merging its metadata
  calls, writes

history == <<wrote, stayed, alone, raced>>
vars == <<store, backend, target, carried, prior, result, history, calls, writes>>

NoMeta == [f \in Field |-> None]

Init ==
  /\ store \in [Id -> {None} \cup [pin : {None}, meta : Meta]]
  /\ backend \in Backend
  /\ target = [p \in Pass |-> None]
  /\ carried = [p \in Pass |-> None]
  /\ prior = [p \in Pass |-> None]
  /\ result = [p \in Pass |-> None]
  /\ wrote = [i \in Id |-> IF store[i] = None THEN NoMeta ELSE store[i].meta]
  /\ stayed = [p \in Pass |-> FALSE]
  /\ alone = [p \in Pass |-> FALSE]
  /\ raced = [i \in Id |-> FALSE]
  /\ calls = 0 /\ writes = 0

Busy(p) == target[p] # None /\ result[p] = None
\* p has read i's metadata and not written it back yet.
Merging(p, i) == Busy(p) /\ target[p] = i /\ prior[p] # None

-----------------------------------------------------------------------------
(* Other clients.                                                          *)

Changed(i) == raced' = [raced EXCEPT ![i] = @ \/ \E p \in Pass : Merging(p, i)]

Edit(i, f, v) ==
  /\ writes < MaxWrites /\ store[i] # None
  /\ writes' = writes + 1
  /\ store' = [store EXCEPT ![i].meta[f] = v]
  /\ wrote' = [wrote EXCEPT ![i][f] = v] /\ Changed(i)
  /\ UNCHANGED <<backend, target, carried, prior, result, stayed, alone, calls>>

Delete(i) ==
  /\ writes < MaxWrites /\ store[i] # None
  /\ writes' = writes + 1
  /\ store' = [store EXCEPT ![i] = None]
  /\ wrote' = [wrote EXCEPT ![i] = NoMeta] /\ Changed(i)
  /\ stayed' = [p \in Pass |-> stayed[p] /\ target[p] # i]
  /\ UNCHANGED <<backend, target, carried, prior, result, alone, calls>>

Insert(i) ==
  /\ writes < MaxWrites /\ store[i] = None
  /\ writes' = writes + 1
  /\ store' = [store EXCEPT ![i] = [pin |-> None, meta |-> NoMeta]]
  /\ UNCHANGED <<backend, target, carried, prior, result, history, calls>>

-----------------------------------------------------------------------------
(* attach_pin.                                                             *)

Call(p, i, pin) ==
  /\ ~Busy(p) /\ calls < MaxCalls
  /\ calls' = calls + 1
  /\ target' = [target EXCEPT ![p] = i]
  /\ carried' = [carried EXCEPT ![p] = pin]
  /\ prior' = [prior EXCEPT ![p] = None]
  /\ result' = [result EXCEPT ![p] = None]
  /\ stayed' = [stayed EXCEPT ![p] = store[i] # None]
  /\ alone' = [alone EXCEPT ![p] = FALSE]
  /\ UNCHANGED <<store, backend, wrote, raced, writes>>

\* p's write reached the record (or found none), and p's call returns r.
Return(p, r) ==
  /\ result' = [result EXCEPT ![p] = r]
  /\ alone' = [q \in Pass |-> IF q = p THEN TRUE ELSE alone[q] /\ target[q] # target[p]]
  /\ UNCHANGED <<backend, target, carried, wrote, stayed, raced, calls, writes>>

\* Mutant: the payload is replaced, not merged.
OneCallOverwrite(p) ==
  LET i == target[p] IN
  /\ Busy(p) /\ backend # "chroma"
  /\ store' = IF store[i] = None THEN store
              ELSE [store EXCEPT ![i] = [pin |-> carried[p], meta |-> NoMeta]]
  /\ UNCHANGED prior
  /\ Return(p, IF store[i] = None /\ backend = "pgvector" THEN "KeyError" ELSE "ok")

\* Mutant: an id that is not there gets a row that has a pin only.
OneCallUpsert(p) ==
  LET i == target[p] IN
  /\ Busy(p) /\ backend # "chroma"
  /\ store' = IF store[i] = None THEN [store EXCEPT ![i] = [pin |-> carried[p]]]
              ELSE [store EXCEPT ![i].pin = carried[p]]
  /\ UNCHANGED prior
  /\ Return(p, "ok")

\* lancedb.py: table.update; pgvector.py: UPDATE, then rowcount; qdrant.py:
\* set_payload; pinecone.py: update(set_metadata). Other fields are not named.
OneCall(p) ==
  LET i == target[p] IN
  /\ Busy(p) /\ backend # "chroma"
  /\ store' = IF store[i] = None THEN store
              ELSE [store EXCEPT ![i].pin = carried[p]]
  /\ UNCHANGED prior
  /\ Return(p, IF store[i] = None /\ backend = "pgvector" THEN "KeyError" ELSE "ok")

\* chroma.py: get(ids, include=["metadatas"]).
ReadPrior(p) ==
  LET i == target[p] IN
  /\ Busy(p) /\ backend = "chroma" /\ prior[p] = None
  /\ IF store[i] = None
     THEN UNCHANGED <<store, prior>> /\ Return(p, "KeyError")
     ELSE /\ prior' = [prior EXCEPT ![p] = store[i].meta]
          /\ UNCHANGED <<store, backend, target, carried, result, history, calls, writes>>

\* Mutant: the pin that was read is merged over the new one.
WriteMergedPriorWins(p) ==
  LET i == target[p]
      old == store[i].pin IN
  /\ Busy(p) /\ backend = "chroma" /\ prior[p] # None
  /\ store' = IF store[i] = None THEN store
              ELSE [store EXCEPT ![i] = [pin |-> IF old = None THEN carried[p] ELSE old,
                                         meta |-> prior[p]]]
  /\ UNCHANGED prior
  /\ Return(p, "ok")

\* chroma.py: update(ids, metadatas=[merged]) replaces the metadata.
WriteMerged(p) ==
  LET i == target[p] IN
  /\ Busy(p) /\ backend = "chroma" /\ prior[p] # None
  /\ store' = IF store[i] = None THEN store
              ELSE [store EXCEPT ![i] = [pin |-> carried[p], meta |-> prior[p]]]
  /\ UNCHANGED prior
  /\ Return(p, "ok")

Next ==
  \/ \E i \in Id, f \in Field, v \in Value \cup {None} : Edit(i, f, v)
  \/ \E i \in Id : Delete(i) \/ Insert(i)
  \/ \E p \in Pass, i \in Id, pin \in Pin : Call(p, i, pin)
  \/ \E p \in Pass : OneCall(p) \/ ReadPrior(p) \/ WriteMerged(p)

Spec == Init /\ [][Next]_vars

-----------------------------------------------------------------------------
TypeOK ==
  /\ store \in [Id -> Row \cup {None}]
  /\ backend \in Backend
  /\ target \in [Pass -> Id \cup {None}]
  /\ carried \in [Pass -> Pin \cup {None}]
  /\ prior \in [Pass -> Meta \cup {None}]
  /\ result \in [Pass -> {"ok", "KeyError", None}]
  /\ wrote \in [Id -> Meta]
  /\ raced \in [Id -> BOOLEAN]
  /\ stayed \in [Pass -> BOOLEAN] /\ alone \in [Pass -> BOOLEAN]
  /\ calls \in 0..MaxCalls /\ writes \in 0..MaxWrites

\* Whoever pins whatever, every other field of a record holds what the operators last
\* put there, and nothing of a record that was deleted comes back. Chroma's callers
\* have that for records nobody changes between a call's read and its write.
MetadataKept ==
  \A i \in Id : store[i] # None /\ ~raced[i] => store[i].meta = wrote[i]

\* base.py, attach_pin: a call that returned has stored its pin, unless the record
\* was deleted or somebody pinned it after; a call on a record that was there from
\* beginning to end does not fail.
AttachedIsStored ==
  \A p \in Pass :
    target[p] # None /\ stayed[p] =>
      /\ result[p] # "KeyError"
      /\ result[p] = "ok" /\ alone[p] => store[target[p]].pin = carried[p]
=============================================================================
