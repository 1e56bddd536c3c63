--------------------------- MODULE AttachPinProofs ---------------------------
(***************************************************************************)
(* Theorems about AttachPin, for any number of pinning passes, records,    *)
(* fields and changes by other clients, on any of the five backends.       *)
(***************************************************************************)
EXTENDS AttachPin, TLAPS

\* What Chroma's call has read is what operators last wrote, unless the record has
\* changed while some call was merging it.
Fresh ==
  \A p \in Pass : Busy(p) /\ prior[p] # None /\ ~raced[target[p]]
                    => prior[p] = wrote[target[p]]

\* A record that is not there has no metadata anybody wrote.
Gone == \A i \in Id : store[i] = None => wrote[i] = NoMeta

\* The record a call is about is there as long as nobody deleted it.
There == \A p \in Pass : target[p] # None /\ stayed[p] => store[target[p]] # None

\* A failed call was about a record that was not there throughout.
Refused == \A p \in Pass : target[p] # None /\ stayed[p] => result[p] # "KeyError"

\* The last pin a call that is alone with its record has written is still there.
Landed ==
  \A p \in Pass : target[p] # None /\ stayed[p] /\ result[p] = "ok" /\ alone[p]
                    => store[target[p]].pin = carried[p]

IInv == TypeOK /\ MetadataKept /\ Fresh /\ Gone /\ There /\ Refused /\ Landed

LEMMA Distinct ==
  None \notin Row /\ None \notin Meta /\ None \notin Id /\ None \notin {"ok", "KeyError"}
BY NoneAssumption DEF NoneAssumption

LEMMA NoMetaIsMeta == NoMeta \in Meta
BY DEF NoMeta, Meta

LEMMA InitInvariant == Init => IInv
<1> SUFFICES ASSUME Init PROVE IInv OBVIOUS
<1>1. \A i \in Id : store[i] # None => store[i] \in [pin : {None}, meta : Meta]
  BY DEF Init
<1>2. wrote \in [Id -> Meta] BY <1>1, NoMetaIsMeta DEF Init
<1>3. store \in [Id -> Row \cup {None}] BY DEF Init, Row
<1>4. TypeOK
  BY <1>2, <1>3, AttachAssumption DEF Init, TypeOK, AttachAssumption
<1>5. MetadataKept /\ Gone
  BY DEF Init, MetadataKept, Gone
<1>6. Fresh /\ There /\ Refused /\ Landed
  BY DEF Init, Fresh, Busy, There, Refused, Landed
<1> QED BY <1>4, <1>5, <1>6 DEF IInv

-----------------------------------------------------------------------------
(* Other clients: the record under i changes, no call moves.               *)

LEMMA EditKeeps ==
  ASSUME IInv, NEW i \in Id, NEW f \in Field, NEW v \in Value \cup {None}, Edit(i, f, v)
  PROVE  IInv'
<1> DEFINE m == [store[i].meta EXCEPT ![f] = v]
           row == [store[i] EXCEPT !.meta = m]
<1>1. store[i] \in Row /\ store[i] # None BY DEF Edit, IInv, TypeOK
<1>2. m \in Meta BY <1>1 DEF Row, Meta
<1>3. row \in Row /\ row.pin = store[i].pin /\ row.meta = m BY <1>1, <1>2 DEF Row
<1>4. store' = [store EXCEPT ![i] = row] BY <1>1 DEF Edit, Row
<1>5. wrote' = [wrote EXCEPT ![i] = [wrote[i] EXCEPT ![f] = v]] BY DEF Edit
<1>6. ~raced[i] => wrote'[i] = m BY <1>1, <1>5 DEF IInv, MetadataKept, TypeOK
<1>7. [wrote[i] EXCEPT ![f] = v] \in Meta BY DEF IInv, TypeOK, Meta
<1>8. raced' = [raced EXCEPT ![i] = raced[i] \/ \E p \in Pass : Merging(p, i)]
  BY DEF Edit, Changed
<1>9. UNCHANGED <<backend, target, carried, prior, result, stayed, alone, calls>>
      /\ writes' \in 0..MaxWrites
  BY AttachAssumption DEF Edit, IInv, TypeOK, AttachAssumption
<1> HIDE DEF m, row
<1>10. row # None BY <1>3, Distinct
<1>11. TypeOK' BY <1>3, <1>4, <1>5, <1>7, <1>8, <1>9 DEF IInv, TypeOK
<1>12. MetadataKept'
  BY <1>3, <1>4, <1>5, <1>6, <1>8 DEF IInv, TypeOK, MetadataKept
<1>13. Fresh'
  <2> SUFFICES ASSUME NEW p \in Pass, Busy(p), prior[p] # None, ~raced'[target[p]]
               PROVE  prior[p] = wrote'[target[p]]
    BY <1>9 DEF Fresh, Busy
  <2>1. target[p] \in Id BY DEF Busy, IInv, TypeOK
  <2>2. target[p] # i BY <1>8, <2>1 DEF Merging, IInv, TypeOK
  <2> QED BY <1>5, <1>8, <2>1, <2>2 DEF IInv, TypeOK, Fresh
<1>14. Gone' BY <1>4, <1>5, <1>10 DEF IInv, TypeOK, Gone
<1>15. There' /\ Refused'
  BY <1>4, <1>9, <1>10 DEF IInv, TypeOK, There, Refused
<1>16. Landed' BY <1>3, <1>4, <1>9 DEF IInv, TypeOK, Landed
<1> QED BY <1>11, <1>12, <1>13, <1>14, <1>15, <1>16 DEF IInv

LEMMA DeleteKeeps == ASSUME IInv, NEW i \in Id, Delete(i) PROVE IInv'
<1>1. store' = [store EXCEPT ![i] = None] /\ wrote' = [wrote EXCEPT ![i] = NoMeta]
  BY DEF Delete
<1>2. raced' = [raced EXCEPT ![i] = raced[i] \/ \E p \in Pass : Merging(p, i)]
  BY DEF Delete, Changed
<1>3. stayed' = [p \in Pass |-> stayed[p] /\ target[p] # i] BY DEF Delete
<1>4. UNCHANGED <<backend, target, carried, prior, result, alone, calls>>
      /\ writes' \in 0..MaxWrites
  BY AttachAssumption DEF Delete, IInv, TypeOK, AttachAssumption
<1>5. TypeOK' BY <1>1, <1>2, <1>3, <1>4, NoMetaIsMeta DEF IInv, TypeOK
<1>6. MetadataKept' /\ Gone'
  BY <1>1, <1>2 DEF IInv, TypeOK, MetadataKept, Gone
<1>7. Fresh'
  <2> SUFFICES ASSUME NEW p \in Pass, Busy(p), prior[p] # None, ~raced'[target[p]]
               PROVE  prior[p] = wrote'[target[p]]
    BY <1>4 DEF Fresh, Busy
  <2>1. target[p] \in Id BY DEF Busy, IInv, TypeOK
  <2>2. target[p] # i BY <1>2, <2>1 DEF Merging, IInv, TypeOK
  <2> QED BY <1>1, <1>2, <2>1, <2>2 DEF IInv, TypeOK, Fresh
<1>8. There' /\ Refused' /\ Landed'
  BY <1>1, <1>3, <1>4 DEF IInv, TypeOK, There, Refused, Landed
<1> QED BY <1>5, <1>6, <1>7, <1>8 DEF IInv

LEMMA InsertKeeps == ASSUME IInv, NEW i \in Id, Insert(i) PROVE IInv'
<1> DEFINE row == [pin |-> None, meta |-> NoMeta]
<1>1. row \in Row /\ row.meta = NoMeta BY NoMetaIsMeta DEF Row
<1>2. store' = [store EXCEPT ![i] = row] /\ store[i] = None BY DEF Insert
<1>3. UNCHANGED <<backend, target, carried, prior, result, history, calls>>
      /\ writes' \in 0..MaxWrites
  BY AttachAssumption DEF Insert, IInv, TypeOK, AttachAssumption
<1> HIDE DEF row
<1>4. row # None BY <1>1, Distinct
<1>5. TypeOK' BY <1>1, <1>2, <1>3 DEF IInv, TypeOK, history
<1>6. MetadataKept' /\ Gone'
  BY <1>1, <1>2, <1>3, <1>4 DEF IInv, TypeOK, MetadataKept, Gone, history
<1>7. Fresh' BY <1>3 DEF IInv, Fresh, Busy, history
<1>8. There' /\ Refused' /\ Landed'
  BY <1>2, <1>3, <1>4 DEF IInv, TypeOK, There, Refused, Landed, history
<1> QED BY <1>5, <1>6, <1>7, <1>8 DEF IInv

-----------------------------------------------------------------------------
(* attach_pin.                                                             *)

LEMMA CallKeeps ==
  ASSUME IInv, NEW p \in Pass, NEW i \in Id, NEW pin \in Pin, Call(p, i, pin)
  PROVE  IInv'
<1>1. /\ target' = [target EXCEPT ![p] = i] /\ carried' = [carried EXCEPT ![p] = pin]
      /\ prior' = [prior EXCEPT ![p] = None] /\ result' = [result EXCEPT ![p] = None]
      /\ stayed' = [stayed EXCEPT ![p] = store[i] # None]
      /\ alone' = [alone EXCEPT ![p] = FALSE]
  BY DEF Call
<1>2. UNCHANGED <<store, backend, wrote, raced, writes>> /\ calls' \in 0..MaxCalls
  BY AttachAssumption DEF Call, IInv, TypeOK, AttachAssumption
<1>3. TypeOK' BY <1>1, <1>2 DEF IInv, TypeOK
<1>4. MetadataKept' /\ Gone' BY <1>2 DEF IInv, MetadataKept, Gone
<1>5. \A q \in Pass : q # p => /\ target'[q] = target[q] /\ carried'[q] = carried[q]
                               /\ prior'[q] = prior[q] /\ result'[q] = result[q]
                               /\ stayed'[q] = stayed[q] /\ alone'[q] = alone[q]
  BY <1>1 DEF IInv, TypeOK
<1>6. /\ target'[p] = i /\ prior'[p] = None /\ result'[p] = None
      /\ stayed'[p] = (store[i] # None)
  BY <1>1 DEF IInv, TypeOK
<1>7. Fresh' BY <1>2, <1>5, <1>6 DEF IInv, Fresh, Busy
<1>8. result'[p] \notin {"ok", "KeyError"} BY <1>6, Distinct
<1>9. There' BY <1>2, <1>5, <1>6 DEF IInv, There
<1>10. Refused' BY <1>2, <1>5, <1>8 DEF IInv, Refused
<1>11. Landed' BY <1>2, <1>5, <1>8 DEF IInv, Landed
<1> QED BY <1>3, <1>4, <1>7, <1>9, <1>10, <1>11 DEF IInv

\* What a return changes.
LEMMA ReturnFrame ==
  ASSUME IInv, NEW p \in Pass, NEW r \in {"ok", "KeyError"}, Return(p, r)
  PROVE  /\ result' \in [Pass -> {"ok", "KeyError", None}] /\ result'[p] = r
         /\ \A q \in Pass : q # p => result'[q] = result[q]
         /\ alone' \in [Pass -> BOOLEAN]
         /\ \A q \in Pass : q # p /\ alone'[q] => alone[q] /\ target[q] # target[p]
         /\ UNCHANGED <<backend, target, carried, wrote, stayed, raced, calls, writes>>
BY DEF Return, IInv, TypeOK

\* A write of p's pin that leaves the other fields as they were, or as operators last
\* wrote them, and then returns.
LEMMA WriteKeeps ==
  ASSUME IInv, NEW p \in Pass, NEW r \in {"ok", "KeyError"}, NEW m, Busy(p),
         UNCHANGED prior, Return(p, r),
         store[target[p]] # None =>
           /\ m \in Meta /\ r = "ok"
           /\ ~raced[target[p]] => m = wrote[target[p]]
           /\ store' = [store EXCEPT ![target[p]] = [pin |-> carried[p], meta |-> m]],
         store[target[p]] = None => UNCHANGED store
  PROVE  IInv'
<1> DEFINE i == target[p]
           row == [pin |-> carried[p], meta |-> m]
<1>1. i \in Id /\ result[p] = None BY DEF Busy, IInv, TypeOK
<1>2. /\ result' \in [Pass -> {"ok", "KeyError", None}] /\ result'[p] = r
      /\ \A q \in Pass : q # p => result'[q] = result[q]
      /\ alone' \in [Pass -> BOOLEAN]
      /\ \A q \in Pass : q # p /\ alone'[q] => alone[q] /\ target[q] # i
      /\ UNCHANGED <<backend, target, carried, wrote, stayed, raced, calls, writes>>
  BY ReturnFrame
<1>3. Fresh'
  <2>1. ~Busy(p)' BY <1>2, Distinct DEF Busy
  <2> QED BY <1>2, <2>1 DEF IInv, Fresh, Busy
<1>4. CASE store[i] = None
  <2>1. UNCHANGED store BY <1>4
  <2>2. TypeOK' /\ MetadataKept' /\ Gone'
    BY <1>2, <2>1 DEF IInv, TypeOK, MetadataKept, Gone
  <2>3. ~stayed[p] BY <1>1, <1>4, Distinct DEF IInv, There
  <2>4. There' /\ Refused' /\ Landed'
    BY <1>2, <2>1, <2>3 DEF IInv, There, Refused, Landed, TypeOK
  <2> QED BY <1>3, <2>2, <2>4 DEF IInv
<1>5. CASE store[i] # None
  <2>1. /\ m \in Meta /\ r = "ok" /\ (~raced[i] => m = wrote[i])
        /\ store' = [store EXCEPT ![i] = row]
    BY <1>5
  <2>2. row \in Row /\ row.pin = carried[p] /\ row.meta = m
    BY <2>1 DEF IInv, TypeOK, Row
  <2> HIDE DEF row, i
  <2>3. row # None BY <2>2, Distinct
  <2>4. TypeOK' BY <1>1, <1>2, <2>1, <2>2 DEF IInv, TypeOK
  <2>5. MetadataKept' /\ Gone'
    BY <1>1, <1>2, <2>1, <2>2, <2>3 DEF IInv, TypeOK, MetadataKept, Gone
  <2>6. There' /\ Refused' BY <1>1, <1>2, <2>1, <2>3 DEF IInv, TypeOK, There, Refused
  <2>7. Landed'
    <3> SUFFICES ASSUME NEW q \in Pass, target[q] # None, stayed[q], result'[q] = "ok",
                        alone'[q]
                 PROVE  store'[target[q]].pin = carried[q]
      BY <1>2 DEF Landed
    <3>1. CASE q = p BY <1>1, <2>1, <2>2, <3>1 DEF IInv, TypeOK, i
    <3>2. CASE q # p
      <4>1. target[q] \in Id /\ target[q] # i /\ alone[q] /\ result[q] = "ok"
        BY <1>2, <3>2 DEF IInv, TypeOK
      <4>2. store'[target[q]] = store[target[q]] BY <1>1, <2>1, <4>1 DEF IInv, TypeOK
      <4> QED BY <4>1, <4>2 DEF IInv, Landed
    <3> QED BY <3>1, <3>2
  <2> QED BY <1>3, <2>4, <2>5, <2>6, <2>7 DEF IInv
<1> QED BY <1>4, <1>5

LEMMA OneCallKeeps == ASSUME IInv, NEW p \in Pass, OneCall(p) PROVE IInv'
<1> DEFINE i == target[p]
           m == store[i].meta
           r == IF store[i] = None /\ backend = "pgvector" THEN "KeyError" ELSE "ok"
<1>1. Busy(p) /\ UNCHANGED prior /\ Return(p, r) /\ r \in {"ok", "KeyError"} BY DEF OneCall
<1>2. i \in Id BY <1>1 DEF Busy, IInv, TypeOK
<1>3. store[i] = None => UNCHANGED store BY DEF OneCall
<1>4. ASSUME store[i] # None
      PROVE  /\ m \in Meta /\ r = "ok" /\ (~raced[i] => m = wrote[i])
             /\ store' = [store EXCEPT ![i] = [pin |-> carried[p], meta |-> m]]
  <2>1. store[i] \in Row BY <1>2, <1>4 DEF IInv, TypeOK
  <2>2. [store[i] EXCEPT !.pin = carried[p]] = [pin |-> carried[p], meta |-> m]
    BY <2>1 DEF Row
  <2>3. store' = [store EXCEPT ![i] = [store[i] EXCEPT !.pin = carried[p]]]
    BY <1>4 DEF OneCall
  <2>4. m \in Meta BY <2>1 DEF Row
  <2> QED BY <1>2, <1>4, <2>2, <2>3, <2>4 DEF IInv, MetadataKept
<1> HIDE DEF m, r
<1> QED BY <1>1, <1>3, <1>4, WriteKeeps

LEMMA WriteMergedKeeps == ASSUME IInv, NEW p \in Pass, WriteMerged(p) PROVE IInv'
<1>1. Busy(p) /\ UNCHANGED prior /\ Return(p, "ok") /\ prior[p] # None BY DEF WriteMerged
<1>2. prior[p] \in Meta BY <1>1 DEF IInv, TypeOK
<1>3. ~raced[target[p]] => prior[p] = wrote[target[p]] BY <1>1 DEF IInv, Fresh
<1>4. store[target[p]] # None =>
        store' = [store EXCEPT ![target[p]] = [pin |-> carried[p], meta |-> prior[p]]]
  BY DEF WriteMerged
<1>5. store[target[p]] = None => UNCHANGED store BY DEF WriteMerged
<1> QED BY <1>1, <1>2, <1>3, <1>4, <1>5, WriteKeeps

LEMMA ReadPriorKeeps == ASSUME IInv, NEW p \in Pass, ReadPrior(p) PROVE IInv'
<1> DEFINE i == target[p]
<1>1. i \in Id /\ Busy(p) BY DEF ReadPrior, Busy, IInv, TypeOK
<1>2. CASE store[i] = None
  <2>1. UNCHANGED <<store, prior>> /\ Return(p, "KeyError") BY <1>2 DEF ReadPrior
  <2> QED BY <1>1, <1>2, <2>1, WriteKeeps
<1>3. CASE store[i] # None
  <2>1. /\ prior' = [prior EXCEPT ![p] = store[i].meta]
        /\ UNCHANGED <<store, backend, target, carried, result, history, calls, writes>>
    BY <1>3 DEF ReadPrior
  <2>2. store[i].meta \in Meta BY <1>1, <1>3 DEF IInv, TypeOK, Row
  <2>3. TypeOK' BY <2>1, <2>2 DEF IInv, TypeOK, history
  <2>4. Fresh'
    BY <1>1, <1>3, <2>1 DEF IInv, TypeOK, MetadataKept, Fresh, Busy, history
  <2>5. MetadataKept' /\ Gone' /\ There' /\ Refused' /\ Landed'
    BY <2>1 DEF IInv, MetadataKept, Gone, There, Refused, Landed, history
  <2> QED BY <2>3, <2>4, <2>5 DEF IInv
<1> QED BY <1>2, <1>3

LEMMA StepInvariant == IInv /\ [Next]_vars => IInv'
<1> SUFFICES ASSUME IInv, [Next]_vars PROVE IInv' OBVIOUS
<1>1. ASSUME NEW i \in Id, NEW f \in Field, NEW v \in Value \cup {None}, Edit(i, f, v)
      PROVE  IInv'
  BY <1>1, EditKeeps
<1>2. ASSUME NEW i \in Id, Delete(i) \/ Insert(i) PROVE IInv'
  BY <1>2, DeleteKeeps, InsertKeeps
<1>3. ASSUME NEW p \in Pass, NEW i \in Id, NEW pin \in Pin, Call(p, i, pin) PROVE IInv'
  BY <1>3, CallKeeps
<1>4. ASSUME NEW p \in Pass, OneCall(p) \/ ReadPrior(p) \/ WriteMerged(p) PROVE IInv'
  BY <1>4, OneCallKeeps, ReadPriorKeeps, WriteMergedKeeps
<1>5. CASE UNCHANGED vars
  BY <1>5 DEF vars, history, IInv, TypeOK, MetadataKept, Fresh, Gone, There, Refused,
              Landed, Busy
<1> QED BY <1>1, <1>2, <1>3, <1>4, <1>5 DEF Next

\* The inductive invariant holds always.
THEOREM Invariant == Spec => []IInv
BY InitInvariant, StepInvariant, PTL DEF Spec

\* Rows, calls and histories keep their types.
THEOREM TypeCorrect == Spec => []TypeOK
<1>1. IInv => TypeOK BY DEF IInv
<1> QED BY <1>1, Invariant, PTL

\* However many passes pin however many records, every other field holds what the
\* operators last put there, save where it changed during Chroma's read and write.
THEOREM MetadataAlwaysKept == Spec => []MetadataKept
<1>1. IInv => MetadataKept BY DEF IInv
<1> QED BY <1>1, Invariant, PTL

\* A call that returned has stored its pin, unless the record was deleted or somebody
\* pinned it after; a call on a record that stays does not fail (BaseAdapter.attach_pin).
THEOREM AttachedIsAlwaysStored == Spec => []AttachedIsStored
<1>1. IInv => AttachedIsStored BY DEF IInv, Refused, Landed, AttachedIsStored
<1> QED BY <1>1, Invariant, PTL
=============================================================================
