----------------------------- MODULE AuditProofs -----------------------------
(***************************************************************************)
(* Theorems about Audit, for any collection, options, page size and number *)
(* of audits: types, the arithmetic of the summary, what a green exit      *)
(* against a manifest means, that Audit implements AuditPromise, and how   *)
(* many steps an audit has at most.                                        *)
(***************************************************************************)
EXTENDS Audit, FiniteSetTheorems, TLAPS

\* A row has a hash a manifest can hold.
LEMMA RowFacts ==
  ASSUME NEW r \in Row
  PROVE  /\ r.field \in {"absent", "unusable", "pin"}
         /\ r.hash \in Hash \cup {NoHash}
         /\ r.verifies \in BOOLEAN
         /\ r.verifies => r.field = "pin"
BY DEF Row

\* The counters stay natural numbers.
LEMMA CountType ==
  ASSUME NEW t \in Tally, NEW r \in Row, NEW b \in BOOLEAN
  PROVE  Count(t, r, b) \in Tally
<1>1. /\ One(r.field = "pin") \in Nat /\ One(r.verifies) \in Nat
      /\ One(r.field = "absent") \in Nat
      /\ One(IF r.field = "absent" THEN ~b ELSE ~r.verifies) \in Nat
  BY DEF One
<1> QED BY <1>1 DEF Count, Tally

LEMMA FailedFacts ==
  ASSUME NEW t \in Tally
  PROVE  /\ Failed(t) \in Tally
         /\ Failed(t).bad = t.bad + 1 /\ Failed(t).total = t.total
         /\ Failed(t).ok = t.ok /\ Failed(t).pinned = t.pinned
         /\ Failed(t).unpinned = t.unpinned
BY DEF Failed, Tally

\* A manifest built from what a walk recorded is one.
LEMMA BuildManifestType ==
  ASSUME NEW o \in Options, NEW es \in Seq(Record)
  PROVE  BuildManifest(o, es) \in Manifest
<1>1. o.key \in Key /\ o.expected \in Collection \cup {None}
  BY AuditAssumption DEF AuditAssumption, Option
<1>2. Label \in Collection
  BY AuditAssumption DEF AuditAssumption
<1>3. Leaves(es) \subseteq Id \X (Hash \cup {NoHash})
  <2>1. ASSUME NEW n \in DOMAIN es
        PROVE  Leaf(es[n]) \in Id \X (Hash \cup {NoHash})
    <3>1. es[n] \in Record
      OBVIOUS
    <3> QED BY <3>1, RowFacts DEF Leaf, Record
  <2> QED BY <2>1 DEF Leaves
<1>4. Len(es) \in Nat
  OBVIOUS
<1> QED BY <1>1, <1>2, <1>3, <1>4 DEF BuildManifest, Manifest

LEMMA VerdictType ==
  ASSUME NEW m, NEW es, NEW c
  PROVE  VerifyManifest(m, es, c) \in Verdicts
BY DEF VerifyManifest, Verdicts

-----------------------------------------------------------------------------
(* Types.                                                                  *)

LEMMA InitType == Init => TypeOK
<1> SUFFICES ASSUME Init PROVE TypeOK
  OBVIOUS
<1>1. Options # {} /\ MaxRuns \in Nat /\ MaxWrites \in Nat
  BY AuditAssumption DEF AuditAssumption
<1>2. NoTally \in Tally
  BY DEF NoTally, Tally
<1>3. opts \in [Auditor -> Options]
  BY <1>1 DEF Init
<1>4. entries \in [Auditor -> Seq(Record)]
  BY DEF Init
<1> QED BY <1>1, <1>2, <1>3, <1>4 DEF Init, TypeOK, Phases

LEMMA StepType == TypeOK /\ [Next]_vars => TypeOK'
<1> SUFFICES ASSUME TypeOK, [Next]_vars PROVE TypeOK'
  OBVIOUS
<1>0. MaxRuns \in Nat /\ MaxWrites \in Nat
  BY AuditAssumption DEF AuditAssumption
<1>1. ASSUME NEW i \in Id, NEW r \in Row \cup {None}, Write(i, r)
      PROVE  TypeOK'
  <2>1. store' \in [Id -> Row \cup {None}]
    BY <1>1 DEF TypeOK, Write
  <2>2. left' \in [Auditor -> SUBSET Id] /\ quiet' \in [Auditor -> BOOLEAN]
    BY <1>1 DEF TypeOK, Write
  <2>3. writes' \in 0..MaxWrites
    BY <1>0, <1>1 DEF TypeOK, Write
  <2> QED BY <1>1, <2>1, <2>2, <2>3 DEF TypeOK, Write, audit
<1>2. ASSUME NEW a \in Auditor, NEW o \in Options, Start(a, o)
      PROVE  TypeOK'
  <2>1. pc' \in [Auditor -> Phases] /\ exit' \in [Auditor -> {None, 0, 1, 137}]
    BY <1>2 DEF TypeOK, Start, Phases
  <2>2. loaded' \in [Auditor -> Manifest \cup {None}]
    BY <1>2 DEF TypeOK, Start
  <2>3. entries' \in [Auditor -> Seq(Record)]
    BY <1>2 DEF TypeOK, Start
  <2>4. tally' \in [Auditor -> Tally]
    BY <1>2 DEF TypeOK, Start, NoTally, Tally
  <2>5. left' \in [Auditor -> SUBSET Id]
    BY <1>2 DEF TypeOK, Start, Present
  <2>6. runs' \in 0..MaxRuns
    BY <1>0, <1>2 DEF TypeOK, Start
  <2>7. /\ opts' \in [Auditor -> Options] /\ batch' \in [Auditor -> SUBSET Record]
        /\ aborted' \in [Auditor -> BOOLEAN] /\ quiet' \in [Auditor -> BOOLEAN]
        /\ verdict' \in [Auditor -> Verdicts \cup {None}]
        /\ printed' \in [Auditor -> BOOLEAN]
    BY <1>2 DEF TypeOK, Start
  <2> QED BY <1>2, <2>1, <2>2, <2>3, <2>4, <2>5, <2>6, <2>7 DEF TypeOK, Start
<1>3. ASSUME NEW a \in Auditor, NEW S \in SUBSET Id, FetchPage(a, S)
      PROVE  TypeOK'
  <2>1. {[id |-> i, row |-> store[i]] : i \in S} \in SUBSET Record
    BY <1>3 DEF TypeOK, FetchPage, Present, Record
  <2>2. batch' \in [Auditor -> SUBSET Record] /\ left' \in [Auditor -> SUBSET Id]
    BY <1>3, <2>1 DEF TypeOK, FetchPage
  <2> QED BY <1>3, <2>2 DEF TypeOK, FetchPage
<1>4. ASSUME NEW a \in Auditor, NEW r \in batch[a], Examine(a, r)
      PROVE  TypeOK'
  <2>1. r \in Record /\ r.row \in Row
    BY <1>4 DEF TypeOK, Record
  <2>2. opts[a].tolerant \in BOOLEAN
    BY AuditAssumption DEF TypeOK, AuditAssumption, Option
  <2>3. Count(tally[a], r.row, opts[a].tolerant) \in Tally
    BY <2>1, <2>2, CountType DEF TypeOK
  <2>4. tally' \in [Auditor -> Tally]
    BY <1>4, <2>3 DEF TypeOK, Examine
  <2>5. entries' \in [Auditor -> Seq(Record)]
    <3>1. Append(entries[a], r) \in Seq(Record)
      BY <2>1 DEF TypeOK
    <3> QED BY <1>4, <3>1 DEF TypeOK, Examine
  <2>6. batch' \in [Auditor -> SUBSET Record]
    BY <1>4 DEF TypeOK, Examine
  <2> QED BY <1>4, <2>4, <2>5, <2>6 DEF TypeOK, Examine
<1>5. ASSUME NEW a \in Auditor, Stop(a)
      PROVE  TypeOK'
  BY <1>5 DEF TypeOK, Stop, Phases
<1>6. ASSUME NEW a \in Auditor, Raise(a)
      PROVE  TypeOK'
  <2>1. Failed(tally[a]) \in Tally
    BY FailedFacts DEF TypeOK
  <2>2. tally' \in [Auditor -> Tally]
    BY <1>6, <2>1 DEF TypeOK, Raise
  <2> QED BY <1>6, <2>2 DEF TypeOK, Raise, Phases
<1>7. ASSUME NEW a \in Auditor, CheckManifest(a)
      PROVE  TypeOK'
  <2> DEFINE v == VerifyManifest(loaded[a], entries[a], opts[a].expected)
  <2>1. tally[a] \in Tally /\ Failed(tally[a]) \in Tally
    BY FailedFacts DEF TypeOK
  <2>2. v \in Verdicts
    BY VerdictType
  <2>a. /\ tally \in [Auditor -> Tally]
        /\ verdict \in [Auditor -> Verdicts \cup {None}]
    BY DEF TypeOK
  <2>b. IF opts[a].manifest
        THEN /\ verdict' = [verdict EXCEPT ![a] = v]
             /\ tally' = [tally EXCEPT ![a] = IF v = "OK" THEN @ ELSE Failed(@)]
        ELSE UNCHANGED <<verdict, tally>>
    BY <1>7 DEF CheckManifest
  <2> HIDE DEF v
  <2>3. tally' \in [Auditor -> Tally] /\ verdict' \in [Auditor -> Verdicts \cup {None}]
    BY <2>a, <2>b, <2>1, <2>2
  <2>4. pc' \in [Auditor -> Phases]
    <3>1. pc \in [Auditor -> Phases]
      BY DEF TypeOK
    <3>2. CASE opts[a].write
      <4>1. pc' = [pc EXCEPT ![a] = "open"]
        BY <1>7, <3>2 DEF CheckManifest
      <4> QED BY <3>1, <4>1 DEF Phases
    <3>3. CASE ~opts[a].write
      <4>1. pc' = [pc EXCEPT ![a] = "report"]
        BY <1>7, <3>3 DEF CheckManifest
      <4> QED BY <3>1, <4>1 DEF Phases
    <3> QED BY <3>2, <3>3
  <2> QED BY <1>7, <2>3, <2>4 DEF TypeOK, CheckManifest
<1>8. ASSUME NEW a \in Auditor, OpenManifest(a)
      PROVE  TypeOK'
  <2>1. CASE Repeats(entries[a])
    <3>1. /\ pc' = [pc EXCEPT ![a] = "done"]
          /\ exit' = [exit EXCEPT ![a] = 1] /\ file' = file
      BY <1>8, <2>1 DEF OpenManifest
    <3> QED BY <1>8, <3>1 DEF TypeOK, OpenManifest, Phases
  <2>2. CASE ~Repeats(entries[a])
    <3>1. pc' = [pc EXCEPT ![a] = "write"] /\ exit' = exit /\ file' = Torn
      BY <1>8, <2>2 DEF OpenManifest
    <3> QED BY <1>8, <3>1 DEF TypeOK, OpenManifest, Phases
  <2> QED BY <2>1, <2>2
<1>9. ASSUME NEW a \in Auditor, WriteManifest(a)
      PROVE  TypeOK'
  <2>1. BuildManifest(opts[a], entries[a]) \in Manifest
    BY BuildManifestType DEF TypeOK
  <2>2. file' \in Manifest \cup {None, Torn}
    BY <1>9, <2>1 DEF WriteManifest
  <2> QED BY <1>9, <2>2 DEF TypeOK, WriteManifest, Phases
<1>10. ASSUME NEW a \in Auditor, Report(a)
       PROVE  TypeOK'
  BY <1>10 DEF TypeOK, Report, Phases
<1>11. ASSUME NEW a \in Auditor, Kill(a)
       PROVE  TypeOK'
  BY <1>11 DEF TypeOK, Kill, Phases
<1>12. CASE UNCHANGED vars
  BY <1>12 DEF TypeOK, vars, audit
<1> QED BY <1>1, <1>2, <1>3, <1>4, <1>5, <1>6, <1>7, <1>8, <1>9, <1>10, <1>11, <1>12
        DEF Next, Work

\* Every value stays within its type in every behaviour (cli.py, _audit_loop:
\* counters, manifest and exit code).
THEOREM TypeCorrect == Spec => []TypeOK
<1>1. Init => TypeOK
  BY InitType
<1>2. TypeOK /\ [Next]_vars => TypeOK'
  BY StepType
<1> QED BY <1>1, <1>2, PTL DEF Spec
-----------------------------------------------------------------------------
(* An action of one audit leaves the others where they are.                *)

Steps(a) == (\E o \in Options : Start(a, o)) \/ Work(a) \/ Kill(a)

Still(b) ==
  /\ pc'[b] = pc[b] /\ opts'[b] = opts[b] /\ loaded'[b] = loaded[b]
  /\ batch'[b] = batch[b] /\ entries'[b] = entries[b] /\ tally'[b] = tally[b]
  /\ aborted'[b] = aborted[b] /\ verdict'[b] = verdict[b] /\ exit'[b] = exit[b]
  /\ printed'[b] = printed[b] /\ left'[b] = left[b] /\ quiet'[b] = quiet[b]

LEMMA OthersStill ==
  ASSUME TypeOK, NEW a \in Auditor, NEW b \in Auditor, a # b, Steps(a)
  PROVE  Still(b) /\ store' = store
<1>1. ASSUME NEW o \in Options, Start(a, o) PROVE Still(b) /\ store' = store
  BY <1>1 DEF TypeOK, Start, Still
<1>2. ASSUME NEW S \in SUBSET Id, FetchPage(a, S) PROVE Still(b) /\ store' = store
  BY <1>2 DEF TypeOK, FetchPage, Still
<1>3. ASSUME NEW r \in batch[a], Examine(a, r) PROVE Still(b) /\ store' = store
  BY <1>3 DEF TypeOK, Examine, Still
<1>4. CASE Stop(a)
  BY <1>4 DEF TypeOK, Stop, Still
<1>5. CASE Raise(a)
  BY <1>5 DEF TypeOK, Raise, Still
<1>6. CASE CheckManifest(a)
  <2>1. tally'[b] = tally[b] /\ verdict'[b] = verdict[b]
    BY <1>6 DEF TypeOK, CheckManifest
  <2> QED BY <1>6, <2>1 DEF TypeOK, CheckManifest, Still
<1>7. CASE OpenManifest(a)
  <2>1. pc'[b] = pc[b] /\ exit'[b] = exit[b]
    <3>1. CASE Repeats(entries[a])
      BY <1>7, <3>1 DEF TypeOK, OpenManifest
    <3>2. CASE ~Repeats(entries[a])
      BY <1>7, <3>2 DEF TypeOK, OpenManifest
    <3> QED BY <3>1, <3>2
  <2> QED BY <1>7, <2>1 DEF TypeOK, OpenManifest, Still
<1>8. CASE WriteManifest(a)
  BY <1>8 DEF TypeOK, WriteManifest, Still
<1>9. CASE Report(a)
  BY <1>9 DEF TypeOK, Report, Still
<1>10. CASE Kill(a)
  BY <1>10 DEF TypeOK, Kill, Still
<1> QED BY <1>1, <1>2, <1>3, <1>4, <1>5, <1>6, <1>7, <1>8, <1>9, <1>10
        DEF Steps, Work

-----------------------------------------------------------------------------
(* The summary's arithmetic.                                               *)

AddsUp(t, es, tolerant, ab, v) ==
  /\ t.total = Len(es)
  /\ t.ok + t.bad + (IF tolerant THEN t.unpinned ELSE 0)
       = t.total + (One(ab) + One(v \notin {None, "OK"}))
  /\ t.ok <= t.pinned /\ t.pinned + t.unpinned <= t.total

Counted(a) ==
  /\ AddsUp(tally[a], entries[a], opts[a].tolerant, aborted[a], verdict[a])
  /\ pc[a] = "walk" => ~aborted[a]
  /\ pc[a] \in {"walk", "check"} => verdict[a] = None
  /\ printed[a] => pc[a] = "done" /\ (exit[a] = 0 <=> tally[a].bad = 0)

LEMMA CountKeepsSum ==
  ASSUME NEW t \in Tally, NEW es \in Seq(Record), NEW r \in Record,
         NEW tolerant \in BOOLEAN, NEW ab, NEW v, AddsUp(t, es, tolerant, ab, v)
  PROVE  AddsUp(Count(t, r.row, tolerant), Append(es, r), tolerant, ab, v)
<1> DEFINE row == r.row
           c == Count(t, row, tolerant)
           extra == One(ab) + One(v \notin {None, "OK"})
<1>1. row \in Row
  BY DEF Record
<1>2. extra \in {0, 1, 2}
  BY DEF One
<1>3. Len(Append(es, r)) = Len(es) + 1 /\ Len(es) \in Nat
  OBVIOUS
<1>4. /\ t.total \in Nat /\ t.pinned \in Nat /\ t.ok \in Nat /\ t.bad \in Nat
      /\ t.unpinned \in Nat
  BY DEF Tally
<1>5. /\ c.total = t.total + 1
      /\ c.pinned = t.pinned + One(row.field = "pin")
      /\ c.ok = t.ok + One(row.verifies)
      /\ c.bad = t.bad + One(IF row.field = "absent" THEN ~tolerant ELSE ~row.verifies)
      /\ c.unpinned = t.unpinned + One(row.field = "absent")
  BY DEF Count
<1> DEFINE u == IF tolerant THEN t.unpinned ELSE 0
           w == IF tolerant THEN c.unpinned ELSE 0
<1>6. /\ t.total = Len(es) /\ t.ok + t.bad + u = t.total + extra
      /\ t.ok <= t.pinned /\ t.pinned + t.unpinned <= t.total
  BY DEF AddsUp
<1>a. u \in Nat
  BY <1>4
<1>c. t.ok + t.bad + u = t.total + extra
  BY <1>6
<1>d. t.ok \in Nat /\ t.bad \in Nat /\ t.total \in Nat
  BY <1>4
<1>e. extra \in Nat
  BY <1>2
<1>b. c.total = Len(Append(es, r))
  BY <1>3, <1>5, <1>6
<1> SUFFICES /\ c.ok + c.bad + w = c.total + extra
             /\ c.ok <= c.pinned
             /\ c.pinned + c.unpinned <= c.total
  BY <1>b DEF AddsUp
<1> HIDE DEF extra, c, u, w
<1>f. PICK ok \in Nat, bad \in Nat, tot \in Nat, x \in Nat, y \in Nat :
        ok = t.ok /\ bad = t.bad /\ tot = t.total /\ x = extra /\ y = u
  BY <1>a, <1>d, <1>e
<1>g. ok + bad + y = tot + x
  BY <1>c, <1>f
<1>7. CASE row.field = "absent"
  <2>1. ~row.verifies /\ row.field # "pin"
    BY <1>1, <1>7, RowFacts
  <2>2. /\ c.total = t.total + 1 /\ c.pinned = t.pinned /\ c.ok = t.ok
        /\ c.unpinned = t.unpinned + 1
        /\ c.bad = t.bad + (IF tolerant THEN 0 ELSE 1)
    BY <1>4, <1>5, <1>7, <2>1 DEF One
  <2>3. w = u + (IF tolerant THEN 1 ELSE 0)
    BY <1>4, <2>2 DEF u, w
  <2>4. c.bad + w = t.bad + u + 1
    BY <1>4, <1>a, <2>2, <2>3
  <2>5. w \in Nat /\ c.bad \in Nat
    BY <1>4, <1>a, <2>2, <2>3
  <2>6. c.ok + c.bad + w = c.total + extra
    <3>1. PICK b1 \in Nat, w1 \in Nat : b1 = c.bad /\ w1 = w
      BY <2>5
    <3>2. b1 + w1 = bad + y + 1
      BY <1>f, <2>4, <3>1
    <3>3. ok + b1 + w1 = (tot + 1) + x
      BY <1>g, <3>2
    <3> QED BY <1>f, <2>2, <3>1, <3>3
  <2> QED BY <1>4, <1>6, <2>2, <2>6
<1>8. CASE row.field # "absent" /\ row.verifies
  <2>1. row.field = "pin"
    BY <1>1, <1>8, RowFacts
  <2>2. /\ c.total = t.total + 1 /\ c.pinned = t.pinned + 1 /\ c.ok = t.ok + 1
        /\ c.unpinned = t.unpinned /\ c.bad = t.bad
    BY <1>4, <1>5, <1>8, <2>1 DEF One
  <2>3. w = u
    BY <2>2 DEF u, w
  <2>4. c.ok + c.bad + w = c.total + extra
    <3>1. (ok + 1) + bad + y = (tot + 1) + x
      BY <1>g
    <3> QED BY <1>f, <2>2, <2>3, <3>1
  <2> QED BY <1>4, <1>6, <2>2, <2>4
<1>9. CASE row.field # "absent" /\ ~row.verifies
  <2>1. One(row.field = "pin") \in {0, 1}
    BY DEF One
  <2>2. /\ c.total = t.total + 1 /\ c.pinned = t.pinned + One(row.field = "pin")
        /\ c.ok = t.ok /\ c.unpinned = t.unpinned /\ c.bad = t.bad + 1
    BY <1>4, <1>5, <1>9 DEF One
  <2>3. w = u
    BY <2>2 DEF u, w
  <2>4. c.ok + c.bad + w = c.total + extra
    <3>1. ok + (bad + 1) + y = (tot + 1) + x
      BY <1>g
    <3> QED BY <1>f, <2>2, <2>3, <3>1
  <2> QED BY <1>4, <1>6, <2>1, <2>2, <2>4
<1> QED BY <1>7, <1>8, <1>9

\* A failure that is no record's is counted on both sides.
LEMMA FailedKeepsSum ==
  ASSUME NEW t \in Tally, NEW es \in Seq(Record), NEW tolerant \in BOOLEAN,
         NEW ab, NEW v, NEW ab2, NEW v2, AddsUp(t, es, tolerant, ab, v),
         One(ab2) + One(v2 \notin {None, "OK"}) = One(ab) + One(v \notin {None, "OK"}) + 1
  PROVE  AddsUp(Failed(t), es, tolerant, ab2, v2)
<1> DEFINE extra == One(ab) + One(v \notin {None, "OK"})
           extra2 == One(ab2) + One(v2 \notin {None, "OK"})
           u == IF tolerant THEN t.unpinned ELSE 0
<1>1. extra \in Nat /\ extra2 = extra + 1
  BY DEF One
<1>2. t.ok \in Nat /\ t.bad \in Nat /\ t.total \in Nat /\ t.unpinned \in Nat
  BY DEF Tally
<1>3. t.ok + t.bad + u = t.total + extra /\ u \in Nat
  BY <1>2 DEF AddsUp
<1> HIDE DEF extra, extra2, u
<1>4. PICK ok \in Nat, bad \in Nat, tot \in Nat, x \in Nat, y \in Nat :
        ok = t.ok /\ bad = t.bad /\ tot = t.total /\ x = extra /\ y = u
  BY <1>1, <1>2, <1>3
<1>a. ok + bad + y = tot + x
  BY <1>3, <1>4
<1>5. ok + (bad + 1) + y = tot + (x + 1)
  BY <1>a
<1>6. t.ok + (t.bad + 1) + u = t.total + extra2
  BY <1>1, <1>4, <1>5
<1>7. /\ Failed(t).ok = t.ok /\ Failed(t).bad = t.bad + 1 /\ Failed(t).total = t.total
      /\ Failed(t).pinned = t.pinned /\ Failed(t).unpinned = t.unpinned
  BY FailedFacts
<1>8. Failed(t).ok + Failed(t).bad + (IF tolerant THEN Failed(t).unpinned ELSE 0)
        = Failed(t).total + extra2
  BY <1>6, <1>7 DEF u
<1>9. /\ Failed(t).total = Len(es) /\ Failed(t).ok <= Failed(t).pinned
      /\ Failed(t).pinned + Failed(t).unpinned <= Failed(t).total
  BY <1>7 DEF AddsUp
<1> QED BY <1>8, <1>9 DEF AddsUp, extra2

AllCounted == \A a \in Auditor : Counted(a)

LEMMA InitCounted == Init => AllCounted
<1> SUFFICES ASSUME Init, NEW a \in Auditor PROVE Counted(a)
  BY DEF AllCounted
<1>1. /\ tally[a] = NoTally /\ entries[a] = <<>> /\ aborted[a] = FALSE
      /\ verdict[a] = None /\ pc[a] = "idle" /\ printed[a] = FALSE
  BY DEF Init
<1>2. AddsUp(NoTally, <<>>, opts[a].tolerant, FALSE, None)
  BY DEF AddsUp, NoTally, One
<1> QED BY <1>1, <1>2 DEF Counted

LEMMA StepCounted == TypeOK /\ AllCounted /\ [Next]_vars => AllCounted'
<1> SUFFICES ASSUME TypeOK, AllCounted, [Next]_vars PROVE AllCounted'
  OBVIOUS
<1>0. \A b \in Auditor : /\ opts[b].tolerant \in BOOLEAN /\ tally[b] \in Tally
                         /\ entries[b] \in Seq(Record)
  BY AuditAssumption DEF TypeOK, AuditAssumption, Option
<1>1. ASSUME NEW a \in Auditor, Steps(a), Counted(a)'
      PROVE  AllCounted'
  <2> SUFFICES ASSUME NEW b \in Auditor, a # b PROVE Counted(b)'
    BY <1>1 DEF AllCounted
  <2>1. Still(b) /\ Counted(b)
    BY <1>1, OthersStill DEF AllCounted
  <2> QED BY <2>1 DEF Still, Counted
<1>2. ASSUME NEW i \in Id, NEW r \in Row \cup {None}, Write(i, r)
      PROVE  AllCounted'
  BY <1>2 DEF Write, audit, AllCounted, Counted
<1>3. ASSUME NEW a \in Auditor, Steps(a) PROVE Counted(a)'
  <2>0. Counted(a)
    BY DEF AllCounted
  <2>1. ASSUME NEW o \in Options, Start(a, o) PROVE Counted(a)'
    <3>1. /\ tally'[a] = NoTally /\ entries'[a] = <<>> /\ aborted'[a] = FALSE
          /\ verdict'[a] = None /\ printed'[a] = FALSE
      BY <2>1 DEF TypeOK, Start
    <3>2. AddsUp(NoTally, <<>>, opts'[a].tolerant, FALSE, None)
      BY DEF AddsUp, NoTally, One
    <3> QED BY <3>1, <3>2 DEF Counted
  <2>2. ASSUME NEW S \in SUBSET Id, FetchPage(a, S) PROVE Counted(a)'
    BY <2>0, <2>2 DEF FetchPage, Counted
  <2>3. ASSUME NEW r \in batch[a], Examine(a, r) PROVE Counted(a)'
    <3>1. r \in Record
      BY DEF TypeOK
    <3>2. /\ tally'[a] = Count(tally[a], r.row, opts[a].tolerant)
          /\ entries'[a] = Append(entries[a], r)
          /\ pc' = pc /\ opts' = opts /\ aborted' = aborted /\ verdict' = verdict
          /\ printed' = printed /\ pc[a] = "walk"
      BY <2>3 DEF TypeOK, Examine
    <3>3. AddsUp(Count(tally[a], r.row, opts[a].tolerant), Append(entries[a], r),
                 opts[a].tolerant, aborted[a], verdict[a])
      BY <1>0, <2>0, <3>1, CountKeepsSum DEF Counted
    <3> QED BY <2>0, <3>2, <3>3 DEF Counted
  <2>4. CASE Stop(a)
    BY <2>0, <2>4 DEF TypeOK, Stop, Counted
  <2>5. CASE Raise(a)
    <3>1. /\ tally'[a] = Failed(tally[a]) /\ aborted'[a] = TRUE /\ pc'[a] = "check"
          /\ entries' = entries /\ opts' = opts /\ verdict' = verdict
          /\ printed' = printed /\ pc[a] = "walk"
      BY <2>5 DEF TypeOK, Raise
    <3>2. ~aborted[a] /\ verdict[a] = None
      BY <2>0, <3>1 DEF Counted
    <3>3. One(TRUE) + One(None \notin {None, "OK"})
            = One(aborted[a]) + One(verdict[a] \notin {None, "OK"}) + 1
      BY <3>2 DEF One
    <3>4. AddsUp(Failed(tally[a]), entries[a], opts[a].tolerant, TRUE, None)
      BY <1>0, <2>0, <3>3, FailedKeepsSum DEF Counted
    <3> QED BY <2>0, <3>1, <3>2, <3>4 DEF Counted
  <2>6. CASE CheckManifest(a)
    <3> DEFINE v == VerifyManifest(loaded[a], entries[a], opts[a].expected)
    <3>1. /\ pc'[a] \in {"open", "report"} /\ pc[a] = "check"
          /\ entries' = entries /\ opts' = opts /\ aborted' = aborted
          /\ printed' = printed
      BY <2>6 DEF TypeOK, CheckManifest
    <3>2. verdict[a] = None /\ ~printed[a]
      BY <2>0, <3>1 DEF Counted
    <3>3. v \in Verdicts
      BY VerdictType
    <3>4. CASE ~opts[a].manifest \/ v = "OK"
      <4>1. tally'[a] = tally[a] /\ verdict'[a] \in {None, "OK"}
        BY <2>6, <3>2, <3>4 DEF TypeOK, CheckManifest
      <4>2. AddsUp(tally[a], entries[a], opts[a].tolerant, aborted[a], verdict'[a])
        BY <2>0, <3>2, <4>1 DEF Counted, AddsUp
      <4> QED BY <3>1, <3>2, <4>1, <4>2 DEF Counted
    <3>5. CASE opts[a].manifest /\ v # "OK"
      <4>1. tally'[a] = Failed(tally[a]) /\ verdict'[a] = v
        BY <2>6, <3>5 DEF TypeOK, CheckManifest
      <4>2. v # None
        BY <3>3, AuditAssumption DEF AuditAssumption
      <4>3. One(aborted[a]) + One(v \notin {None, "OK"})
              = One(aborted[a]) + One(verdict[a] \notin {None, "OK"}) + 1
        BY <3>2, <3>5, <4>2 DEF One
      <4>4. AddsUp(Failed(tally[a]), entries[a], opts[a].tolerant, aborted[a], v)
        BY <1>0, <2>0, <4>3, FailedKeepsSum DEF Counted
      <4> QED BY <3>1, <3>2, <4>1, <4>4 DEF Counted
    <3> QED BY <3>4, <3>5
  <2>7. CASE OpenManifest(a)
    <3>1. pc[a] = "open" /\ pc'[a] \in {"done", "write"}
      BY <2>7 DEF TypeOK, OpenManifest
    <3> QED BY <2>0, <2>7, <3>1 DEF OpenManifest, Counted
  <2>8. CASE WriteManifest(a)
    BY <2>0, <2>8 DEF TypeOK, WriteManifest, Counted
  <2>9. CASE Report(a)
    <3>1. /\ exit'[a] = (IF tally[a].bad # 0 THEN 1 ELSE 0) /\ pc'[a] = "done"
      BY <2>9 DEF TypeOK, Report
    <3> QED BY <2>0, <2>9, <3>1 DEF Report, Counted
  <2>10. CASE Kill(a)
    <3>1. pc'[a] = "done" /\ ~printed[a]
      BY <2>0, <2>10 DEF TypeOK, Kill, Counted
    <3> QED BY <2>0, <2>10, <3>1 DEF Kill, Counted
  <2> QED BY <1>3, <2>1, <2>2, <2>3, <2>4, <2>5, <2>6, <2>7, <2>8, <2>9, <2>10
          DEF Steps, Work
<1>4. CASE UNCHANGED vars
  BY <1>4 DEF vars, audit, AllCounted, Counted
<1> QED BY <1>1, <1>2, <1>3, <1>4 DEF Next, Steps

\* A printed summary accounts for every record of the walk, and its failure
\* count agrees with the exit code (cli.py, _audit_loop).
THEOREM SummaryAlwaysAddsUp == Spec => []SummaryAddsUp
<1>1. Init => TypeOK /\ AllCounted
  BY InitType, InitCounted
<1>2. TypeOK /\ AllCounted /\ [Next]_vars => (TypeOK /\ AllCounted)'
  BY StepType, StepCounted
<1>3. AllCounted => SummaryAddsUp
  BY DEF AllCounted, Counted, AddsUp, SummaryAddsUp
<1> QED BY <1>1, <1>2, <1>3, PTL DEF Spec

-----------------------------------------------------------------------------
(* What has been looked at when an audit ends.                             *)

Green(a) ==
  /\ tally[a].bad = 0 /\ batch[a] = {} /\ left[a] = {} /\ ~aborted[a]
  /\ opts[a].manifest => VerifyManifest(loaded[a], entries[a], opts[a].expected) = "OK"

Closed(a) ==
  /\ aborted[a] => tally[a].bad > 0
  /\ pc[a] \in {"check", "open", "write", "report"}
       => batch[a] = {} /\ (left[a] = {} \/ aborted[a])
  /\ pc[a] \in {"open", "write", "report"} /\ opts[a].manifest /\ tally[a].bad = 0
       => VerifyManifest(loaded[a], entries[a], opts[a].expected) = "OK"
  /\ exit[a] = 0 => pc[a] = "done" /\ Green(a)

AllClosed == \A a \in Auditor : Closed(a)

LEMMA InitClosed == Init => AllClosed
<1> SUFFICES ASSUME Init, NEW a \in Auditor PROVE Closed(a)
  BY DEF AllClosed
<1> QED BY AuditAssumption DEF AuditAssumption, Init, Closed

LEMMA StepClosed == TypeOK /\ AllClosed /\ [Next]_vars => AllClosed'
<1> SUFFICES ASSUME TypeOK, AllClosed, [Next]_vars PROVE AllClosed'
  OBVIOUS
<1>0. \A b \in Auditor : tally[b] \in Tally /\ tally[b].bad \in Nat
  BY DEF TypeOK, Tally
<1>1. ASSUME NEW a \in Auditor, Steps(a), Closed(a)'
      PROVE  AllClosed'
  <2> SUFFICES ASSUME NEW b \in Auditor, a # b PROVE Closed(b)'
    BY <1>1 DEF AllClosed
  <2>1. Still(b) /\ Closed(b)
    BY <1>1, OthersStill DEF AllClosed
  <2> QED BY <2>1 DEF Still, Closed, Green
<1>2. ASSUME NEW i \in Id, NEW r \in Row \cup {None}, Write(i, r)
      PROVE  AllClosed'
  <2> SUFFICES ASSUME NEW b \in Auditor PROVE Closed(b)'
    BY DEF AllClosed
  <2>1. Closed(b)
    BY DEF AllClosed
  <2>2. left[b] = {} => left'[b] = {}
    BY <1>2 DEF Write, TypeOK
  <2> QED BY <1>2, <2>1, <2>2 DEF Write, audit, Closed, Green
<1>3. ASSUME NEW a \in Auditor, Steps(a) PROVE Closed(a)'
  <2>0. Closed(a)
    BY DEF AllClosed
  <2>1. ASSUME NEW o \in Options, Start(a, o) PROVE Closed(a)'
    <3>1. aborted'[a] = FALSE /\ pc'[a] \in {"walk", "done"} /\ exit'[a] \in {None, 1}
      BY <2>1 DEF TypeOK, Start
    <3> QED BY <3>1, AuditAssumption DEF Closed, AuditAssumption
  <2>2. ASSUME NEW S \in SUBSET Id, FetchPage(a, S) PROVE Closed(a)'
    BY <2>0, <2>2 DEF FetchPage, Closed
  <2>3. ASSUME NEW r \in batch[a], Examine(a, r) PROVE Closed(a)'
    <3>1. /\ tally'[a].bad \in {tally[a].bad, tally[a].bad + 1}
      <4>1. tally'[a] = Count(tally[a], r.row, opts[a].tolerant)
        BY <2>3 DEF TypeOK, Examine
      <4>2. tally'[a].bad = tally[a].bad
              + One(IF r.row.field = "absent" THEN ~opts[a].tolerant ELSE ~r.row.verifies)
        BY <4>1 DEF Count
      <4> QED BY <1>0, <4>2 DEF One
    <3>2. /\ pc'[a] = "walk" /\ exit'[a] = exit[a] /\ aborted'[a] = aborted[a]
          /\ pc[a] = "walk"
      BY <2>3 DEF TypeOK, Examine
    <3>3. tally[a].bad > 0 => tally'[a].bad > 0
      BY <1>0, <3>1
    <3> QED BY <2>0, <3>2, <3>3 DEF Closed
  <2>4. CASE Stop(a)
    BY <2>0, <2>4 DEF TypeOK, Stop, Closed
  <2>5. CASE Raise(a)
    <3>1. /\ tally'[a] = Failed(tally[a]) /\ pc'[a] = "check" /\ batch'[a] = {}
          /\ aborted'[a] = TRUE /\ exit'[a] = exit[a] /\ pc[a] = "walk"
      BY <2>5 DEF TypeOK, Raise
    <3>2. tally'[a].bad > 0
      BY <1>0, <3>1, FailedFacts
    <3> QED BY <2>0, <3>1, <3>2 DEF Closed
  <2>6. CASE CheckManifest(a)
    <3> DEFINE v == VerifyManifest(loaded[a], entries[a], opts[a].expected)
    <3>1. /\ pc'[a] \in {"open", "report"} /\ pc[a] = "check" /\ exit' = exit
          /\ batch' = batch /\ left' = left /\ aborted' = aborted /\ opts' = opts
          /\ loaded' = loaded /\ entries' = entries
      BY <2>6 DEF TypeOK, CheckManifest
    <3>2. CASE ~opts[a].manifest \/ v = "OK"
      <4>1. tally'[a] = tally[a]
        BY <2>6, <3>2 DEF TypeOK, CheckManifest
      <4> QED BY <2>0, <3>1, <3>2, <4>1 DEF Closed
    <3>3. CASE opts[a].manifest /\ v # "OK"
      <4>1. tally'[a] = Failed(tally[a])
        BY <2>6, <3>3 DEF TypeOK, CheckManifest
      <4>2. tally'[a].bad > 0
        BY <1>0, <4>1, FailedFacts
      <4>3. tally'[a].bad # 0
        BY <4>2
      <4> QED BY <2>0, <3>1, <4>2, <4>3 DEF Closed
    <3> QED BY <3>2, <3>3
  <2>7. CASE OpenManifest(a)
    <3>1. /\ pc[a] = "open" /\ pc'[a] \in {"done", "write"}
          /\ exit'[a] \in {exit[a], 1}
      BY <2>7 DEF TypeOK, OpenManifest
    <3> QED BY <2>0, <2>7, <3>1 DEF OpenManifest, Closed
  <2>8. CASE WriteManifest(a)
    BY <2>0, <2>8 DEF TypeOK, WriteManifest, Closed
  <2>9. CASE Report(a)
    <3>1. /\ exit'[a] = (IF tally[a].bad # 0 THEN 1 ELSE 0) /\ pc'[a] = "done"
          /\ pc[a] = "report"
      BY <2>9 DEF TypeOK, Report
    <3>2. exit'[a] = 0 => Green(a)
      BY <1>0, <2>0, <3>1 DEF Closed, Green
    <3> QED BY <2>0, <2>9, <3>1, <3>2 DEF Report, Closed, Green
  <2>10. CASE Kill(a)
    <3>1. pc'[a] = "done" /\ exit'[a] = 137
      BY <2>10 DEF TypeOK, Kill
    <3> QED BY <2>0, <2>10, <3>1 DEF Kill, Closed
  <2> QED BY <1>3, <2>1, <2>2, <2>3, <2>4, <2>5, <2>6, <2>7, <2>8, <2>9, <2>10
          DEF Steps, Work
<1>4. CASE UNCHANGED vars
  BY <1>4 DEF vars, audit, AllClosed, Closed, Green
<1> QED BY <1>1, <1>2, <1>3, <1>4 DEF Next, Steps

-----------------------------------------------------------------------------
(* What an undisturbed walk has recorded.                                  *)

Covers(i, l, bs, es) ==
  i \in l \/ (\E r \in bs : r.id = i) \/ (\E n \in DOMAIN es : es[n].id = i)

Walked(a) ==
  quiet[a] =>
    /\ \A r \in batch[a] : store[r.id] = r.row
    /\ \A n \in DOMAIN entries[a] : store[entries[a][n].id] = entries[a][n].row
    /\ ~aborted[a] =>
         \A i \in Present(store) : Covers(i, left[a], batch[a], entries[a])

AllWalked == \A a \in Auditor : Walked(a)

LEMMA InitWalked == Init => AllWalked
BY DEF Init, AllWalked, Walked

LEMMA StepWalked == TypeOK /\ AllWalked /\ [Next]_vars => AllWalked'
<1> SUFFICES ASSUME TypeOK, AllWalked, [Next]_vars PROVE AllWalked'
  OBVIOUS
<1>1. ASSUME NEW a \in Auditor, Steps(a), Walked(a)'
      PROVE  AllWalked'
  <2> SUFFICES ASSUME NEW b \in Auditor, a # b PROVE Walked(b)'
    BY <1>1 DEF AllWalked
  <2>1. Still(b) /\ store' = store /\ Walked(b)
    BY <1>1, OthersStill DEF AllWalked
  <2> QED BY <2>1 DEF Still, Walked, Present, Covers
<1>2. ASSUME NEW i \in Id, NEW r \in Row \cup {None}, Write(i, r)
      PROVE  AllWalked'
  BY <1>2 DEF Write, AllWalked, Walked
<1>3. ASSUME NEW a \in Auditor, Steps(a) PROVE Walked(a)'
  <2>0. Walked(a)
    BY DEF AllWalked
  <2>1. ASSUME NEW o \in Options, Start(a, o) PROVE Walked(a)'
    <3>1. /\ batch'[a] = {} /\ entries'[a] = <<>> /\ left'[a] = Present(store)
          /\ store' = store
      BY <2>1 DEF TypeOK, Start
    <3> QED BY <3>1 DEF Walked, Covers, Present
  <2>2. ASSUME NEW S \in SUBSET Id, FetchPage(a, S) PROVE Walked(a)'
    <3>1. /\ batch[a] = {} /\ left'[a] = left[a] \ S /\ store' = store
          /\ batch'[a] = {[id |-> i, row |-> store[i]] : i \in S}
          /\ entries' = entries /\ aborted' = aborted /\ quiet' = quiet
      BY <2>2 DEF TypeOK, FetchPage
    <3>2. \A r \in batch'[a] : store[r.id] = r.row
      BY <3>1
    <3>3. ASSUME NEW i, Covers(i, left[a], batch[a], entries[a])
          PROVE  Covers(i, left'[a], batch'[a], entries[a])
      <4>1. CASE i \in S
        <5>1. [id |-> i, row |-> store[i]] \in batch'[a]
          BY <3>1, <4>1
        <5> QED BY <5>1 DEF Covers
      <4>2. CASE i \notin S
        BY <3>1, <3>3, <4>2 DEF Covers
      <4> QED BY <4>1, <4>2
    <3> QED BY <2>0, <3>1, <3>2, <3>3 DEF Walked, Present
  <2>3. ASSUME NEW r \in batch[a], Examine(a, r) PROVE Walked(a)'
    <3>1. /\ entries'[a] = Append(entries[a], r) /\ batch'[a] = batch[a] \ {r}
          /\ store' = store /\ left' = left /\ aborted' = aborted /\ quiet' = quiet
      BY <2>3 DEF TypeOK, Examine
    <3>2. entries[a] \in Seq(Record) /\ r \in Record
      BY DEF TypeOK
    <3>3. /\ DOMAIN entries'[a] = DOMAIN entries[a] \cup {Len(entries[a]) + 1}
          /\ entries'[a][Len(entries[a]) + 1] = r
          /\ \A n \in DOMAIN entries[a] : entries'[a][n] = entries[a][n]
      BY <3>1, <3>2
    <3>4. ASSUME quiet[a], NEW n \in DOMAIN entries'[a]
          PROVE  store[entries'[a][n].id] = entries'[a][n].row
      BY <2>0, <3>3, <3>4 DEF Walked
    <3>5. ASSUME NEW i, Covers(i, left[a], batch[a], entries[a])
          PROVE  Covers(i, left[a], batch'[a], entries'[a])
      <4>1. CASE i = r.id
        BY <3>3, <4>1 DEF Covers
      <4>2. CASE \E q \in batch[a] : q.id = i /\ q # r
        BY <3>1, <4>2 DEF Covers
      <4>3. CASE \E n \in DOMAIN entries[a] : entries[a][n].id = i
        BY <3>3, <4>3 DEF Covers
      <4> QED BY <3>5, <4>1, <4>2, <4>3 DEF Covers
    <3> QED BY <2>0, <3>1, <3>4, <3>5 DEF Walked, Present
  <2>4. CASE Stop(a)
    BY <2>0, <2>4 DEF Stop, Walked, Present
  <2>5. CASE Raise(a)
    <3>1. /\ batch'[a] = {} /\ aborted'[a] = TRUE /\ entries' = entries
          /\ store' = store /\ quiet' = quiet
      BY <2>5 DEF TypeOK, Raise
    <3> QED BY <2>0, <3>1 DEF Walked
  <2>6. CASE CheckManifest(a)
    BY <2>0, <2>6 DEF CheckManifest, Walked, Present
  <2>7. CASE OpenManifest(a)
    BY <2>0, <2>7 DEF OpenManifest, Walked, Present
  <2>8. CASE WriteManifest(a)
    BY <2>0, <2>8 DEF WriteManifest, Walked, Present
  <2>9. CASE Report(a)
    BY <2>0, <2>9 DEF Report, Walked, Present
  <2>10. CASE Kill(a)
    BY <2>0, <2>10 DEF Kill, Walked, Present
  <2> QED BY <1>3, <2>1, <2>2, <2>3, <2>4, <2>5, <2>6, <2>7, <2>8, <2>9, <2>10
          DEF Steps, Work
<1>4. CASE UNCHANGED vars
  BY <1>4 DEF vars, audit, AllWalked, Walked, Present
<1> QED BY <1>1, <1>2, <1>3, <1>4 DEF Next, Steps

LEMMA GreenMatches ==
  ASSUME TypeOK, AllClosed, AllWalked, NEW a \in Auditor,
         exit[a] = 0, opts[a].manifest
  PROVE  /\ loaded[a].key \in Trusted
         /\ opts[a].expected \in {None, loaded[a].collection}
         /\ quiet[a] => loaded[a].root = StoreLeaves
<1>1. Green(a)
  BY DEF AllClosed, Closed
<1>2. /\ loaded[a].key \in Trusted
      /\ opts[a].expected \in {None, loaded[a].collection}
      /\ Leaves(entries[a]) = loaded[a].root
  BY <1>1 DEF Green, VerifyManifest
<1>3. ASSUME quiet[a] PROVE Leaves(entries[a]) = StoreLeaves
  <2>1. /\ \A n \in DOMAIN entries[a] : store[entries[a][n].id] = entries[a][n].row
        /\ \A i \in Present(store) : \E n \in DOMAIN entries[a] : entries[a][n].id = i
    BY <1>1, <1>3 DEF AllWalked, Walked, Covers, Green
  <2>2. ASSUME NEW n \in DOMAIN entries[a] PROVE Leaf(entries[a][n]) \in StoreLeaves
    <3>1. entries[a][n] \in Record
      BY DEF TypeOK
    <3>2. entries[a][n].id \in Present(store)
      BY <2>1, <3>1, AuditAssumption DEF Present, Record, AuditAssumption
    <3> QED BY <2>1, <3>2 DEF StoreLeaves, Leaf
  <2>3. ASSUME NEW i \in Present(store) PROVE <<i, store[i].hash>> \in Leaves(entries[a])
    <3>1. PICK n \in DOMAIN entries[a] : entries[a][n].id = i
      BY <2>1
    <3>2. Leaf(entries[a][n]) = <<i, store[i].hash>>
      BY <2>1, <3>1 DEF Leaf
    <3> QED BY <3>2 DEF Leaves
  <2> QED BY <2>2, <2>3 DEF Leaves, StoreLeaves
<1> QED BY <1>2, <1>3

\* A green exit against a manifest means a trusted manifest of the expected name
\* and, if nobody wrote meanwhile, a collection equal to the one it was made of
\* (verify_manifest, _audit_loop).
THEOREM ManifestAlwaysMatches == Spec => []ManifestMatchesStore
<1>1. Init => TypeOK /\ AllClosed /\ AllWalked
  BY InitType, InitClosed, InitWalked
<1>2. TypeOK /\ AllClosed /\ AllWalked /\ [Next]_vars => (TypeOK /\ AllClosed /\ AllWalked)'
  BY StepType, StepClosed, StepWalked
<1>3. TypeOK /\ AllClosed /\ AllWalked => ManifestMatchesStore
  BY GreenMatches DEF ManifestMatchesStore
<1> QED BY <1>1, <1>2, <1>3, PTL DEF Spec

-----------------------------------------------------------------------------
(* Audit implements AuditPromise.                                          *)

PhaseMap == [b \in Auditor |-> Phase(b)]
DoubtMap == [b \in Auditor |-> Doubt(b)]
TolerantMap == [b \in Auditor |-> opts[b].tolerant]

LEMMA Frame ==
  ASSUME TypeOK, NEW a \in Auditor, Steps(a)
  PROVE  /\ PhaseMap' = [PhaseMap EXCEPT ![a] = Phase(a)']
         /\ DoubtMap' = [DoubtMap EXCEPT ![a] = Doubt(a)']
         /\ TolerantMap' = [TolerantMap EXCEPT ![a] = opts'[a].tolerant]
<1>1. ASSUME NEW b \in Auditor, a # b
      PROVE  /\ Phase(b)' = Phase(b) /\ Doubt(b)' = Doubt(b)
             /\ opts'[b].tolerant = opts[b].tolerant
  <2>1. Still(b)
    BY <1>1, OthersStill
  <2> QED BY <2>1 DEF Still, Phase, Doubt
<1> QED BY <1>1 DEF PhaseMap, DoubtMap, TolerantMap

LEMMA InitRefines == Init => Promise!Init
<1> SUFFICES ASSUME Init PROVE Promise!Init
  OBVIOUS
<1>1. \A a \in Auditor : Phase(a) = "idle" /\ Doubt(a) = FALSE
  <2> SUFFICES ASSUME NEW a \in Auditor PROVE Phase(a) = "idle" /\ Doubt(a) = FALSE
    OBVIOUS
  <2>1. pc[a] = "idle" /\ batch[a] = {} /\ tally[a].bad = 0
    BY DEF Init, NoTally
  <2> QED BY <2>1 DEF Phase, Doubt
<1>2. \A a \in Auditor : opts[a].tolerant \in BOOLEAN
  BY InitType, AuditAssumption DEF TypeOK, AuditAssumption, Option
<1> QED BY <1>1, <1>2 DEF Init, Promise!Init

LEMMA StepRefines ==
  TypeOK /\ AllClosed /\ [Next]_vars => [Promise!Next]_(Promise!vars)
<1> SUFFICES ASSUME TypeOK, AllClosed, [Next]_vars
             PROVE  [Promise!Next]_(Promise!vars)
  OBVIOUS
<1>0. \A b \in Auditor : /\ tally[b] \in Tally /\ tally[b].bad \in Nat
                         /\ opts[b].tolerant \in BOOLEAN
  BY AuditAssumption DEF TypeOK, Tally, AuditAssumption, Option
<1>s. ASSUME NEW a \in Auditor, Steps(a), store' = store, left' = left,
             opts' = opts, Phase(a)' = Phase(a), Doubt(a)' = Doubt(a)
      PROVE  UNCHANGED Promise!vars
  <2>1. PhaseMap' = PhaseMap /\ DoubtMap' = DoubtMap /\ TolerantMap' = TolerantMap
    BY <1>s, Frame DEF PhaseMap, DoubtMap, TolerantMap
  <2> QED BY <1>s, <2>1 DEF Promise!vars, PhaseMap, DoubtMap, TolerantMap
<1>f. ASSUME NEW a \in Auditor, Steps(a), store' = store, left' = left,
             opts' = opts, Phase(a)' = "red", Doubt(a)' = Doubt(a)
      PROVE  Promise!Next
  <2>1. /\ PhaseMap' = [PhaseMap EXCEPT ![a] = "red"] /\ DoubtMap' = DoubtMap
        /\ TolerantMap' = TolerantMap
    BY <1>f, Frame DEF PhaseMap, DoubtMap, TolerantMap
  <2>2. Promise!Fail(a)
    BY <1>f, <2>1 DEF Promise!Fail, PhaseMap, DoubtMap, TolerantMap
  <2> QED BY <2>2 DEF Promise!Next
<1>d. ASSUME NEW a \in Auditor, Steps(a), store' = store, left' = left,
             opts' = opts, Phase(a) = "running", Phase(a)' = "running", Doubt(a)'
      PROVE  Promise!Next
  <2>1. Doubt(a)' = TRUE
    BY <1>d DEF Doubt
  <2>2. /\ PhaseMap' = PhaseMap /\ DoubtMap' = [DoubtMap EXCEPT ![a] = TRUE]
        /\ TolerantMap' = TolerantMap
    BY <1>d, <2>1, Frame DEF PhaseMap, TolerantMap
  <2>3. Promise!Suspect(a)
    BY <1>d, <2>2 DEF Promise!Suspect, PhaseMap, DoubtMap, TolerantMap
  <2> QED BY <2>3 DEF Promise!Next
<1>1. ASSUME NEW i \in Id, NEW r \in Row \cup {None}, Write(i, r)
      PROVE  Promise!Next
  <2>1. \A a \in Auditor : /\ Phase(a)' = Phase(a) /\ Doubt(a)' = Doubt(a)
                           /\ opts'[a] = opts[a]
    BY <1>1 DEF Write, audit, Phase, Doubt
  <2>2. PhaseMap' = PhaseMap /\ DoubtMap' = DoubtMap /\ TolerantMap' = TolerantMap
    BY <2>1 DEF PhaseMap, DoubtMap, TolerantMap
  <2>3. store' \in [Id -> Row \cup {None}]
    BY <1>1, StepType DEF TypeOK
  <2>4. Promise!Change(store')
    BY <1>1, <2>2, <2>3
       DEF Write, Promise!Change, Promise!Present, Present, PhaseMap, DoubtMap, TolerantMap
  <2> QED BY <2>3, <2>4 DEF Promise!Next
<1>2. ASSUME NEW a \in Auditor, NEW o \in Options, Start(a, o)
      PROVE  Promise!Next
  <2>1. Steps(a)
    BY <1>2 DEF Steps
  <2>2. /\ pc'[a] \in {"walk", "done"} /\ exit'[a] \in {None, 1} /\ opts'[a] = o
        /\ tally'[a] = NoTally /\ batch'[a] = {} /\ pc[a] \in {"idle", "done"}
        /\ left' = [left EXCEPT ![a] = Present(store)] /\ store' = store
    BY <1>2 DEF TypeOK, Start
  <2>3. Phase(a)' \in {"running", "red"} /\ Phase(a) # "running"
    BY <2>2, AuditAssumption DEF Phase, AuditAssumption
  <2>4. Doubt(a)' = FALSE
    BY <2>2 DEF Doubt, NoTally
  <2>5. o.tolerant \in BOOLEAN
    BY AuditAssumption DEF AuditAssumption, Option
  <2>6. /\ PhaseMap' = [PhaseMap EXCEPT ![a] = Phase(a)']
        /\ DoubtMap' = [DoubtMap EXCEPT ![a] = FALSE]
        /\ TolerantMap' = [TolerantMap EXCEPT ![a] = o.tolerant]
    BY <2>1, <2>2, <2>4, Frame
  <2>7. Promise!Begin(a, o.tolerant)
    BY <2>2, <2>3, <2>6
       DEF Promise!Begin, Promise!Present, Present, PhaseMap, DoubtMap, TolerantMap
  <2> QED BY <2>5, <2>7 DEF Promise!Next
<1>3. ASSUME NEW a \in Auditor, NEW S \in SUBSET Id, FetchPage(a, S)
      PROVE  Promise!Next
  <2>1. Steps(a)
    BY <1>3 DEF Steps, Work
  <2>2. /\ pc[a] = "walk" /\ pc' = pc /\ batch[a] = {} /\ S \subseteq Present(store)
        /\ batch'[a] = {[id |-> i, row |-> store[i]] : i \in S}
        /\ left' = [left EXCEPT ![a] = @ \ S] /\ opts' = opts /\ tally' = tally
        /\ store' = store
    BY <1>3 DEF TypeOK, FetchPage
  <2>3. Phase(a) = "running" /\ Phase(a)' = "running"
    BY <2>2 DEF Phase
  <2>4. Doubt(a)' = (Doubt(a) \/ \E i \in S : ~Passes(store[i], opts[a].tolerant))
    <3>1. Doubt(a) <=> tally[a].bad > 0
      BY <2>2 DEF Doubt
    <3>2. Doubt(a)' <=> \/ tally[a].bad > 0
                       \/ \E r \in batch'[a] : ~Passes(r.row, opts[a].tolerant)
      BY <2>2 DEF Doubt
    <3>3. (\E r \in batch'[a] : ~Passes(r.row, opts[a].tolerant))
            <=> \E i \in S : ~Passes(store[i], opts[a].tolerant)
      <4>1. \A r \in batch'[a] : \E i \in S : r.row = store[i]
        BY <2>2
      <4>2. \A i \in S : \E r \in batch'[a] : r.row = store[i]
        <5>1. \A i \in S : [id |-> i, row |-> store[i]] \in batch'[a]
          BY <2>2
        <5> QED BY <5>1
      <4> QED BY <4>1, <4>2
    <3>4. Doubt(a) \in BOOLEAN /\ Doubt(a)' \in BOOLEAN
      BY DEF Doubt
    <3> QED BY <3>1, <3>2, <3>3, <3>4
  <2>5. /\ PhaseMap' = PhaseMap /\ TolerantMap' = TolerantMap
        /\ DoubtMap' = [DoubtMap EXCEPT ![a] = Doubt(a)']
    BY <2>1, <2>2, <2>3, Frame DEF PhaseMap, TolerantMap
  <2>6. DoubtMap' = [DoubtMap EXCEPT ![a] =
          @ \/ \E i \in S : ~Promise!Acceptable(store[i], TolerantMap[a])]
    BY <2>4, <2>5 DEF DoubtMap, TolerantMap, Promise!Acceptable, Passes
  <2>7. Promise!Judge(a, S)
    BY <2>2, <2>3, <2>5, <2>6
       DEF Promise!Judge, Promise!Present, Present, PhaseMap, DoubtMap, TolerantMap
  <2> QED BY <2>7 DEF Promise!Next
<1>4. ASSUME NEW a \in Auditor, NEW r \in batch[a], Examine(a, r)
      PROVE  UNCHANGED Promise!vars
  <2>1. Steps(a)
    BY <1>4 DEF Steps, Work
  <2>2. /\ pc[a] = "walk" /\ pc' = pc /\ batch'[a] = batch[a] \ {r}
        /\ tally'[a] = Count(tally[a], r.row, opts[a].tolerant)
        /\ left' = left /\ opts' = opts /\ store' = store
    BY <1>4 DEF TypeOK, Examine
  <2>3. r.row \in Row
    BY DEF TypeOK, Record
  <2>4. Passes(r.row, opts[a].tolerant)
          <=> ~(IF r.row.field = "absent" THEN ~opts[a].tolerant ELSE ~r.row.verifies)
    BY <1>0, <2>3, RowFacts DEF Passes, Good, Bare
  <2>5. tally'[a].bad = IF Passes(r.row, opts[a].tolerant)
                        THEN tally[a].bad ELSE tally[a].bad + 1
    <3>1. tally'[a].bad = tally[a].bad
            + One(IF r.row.field = "absent" THEN ~opts[a].tolerant ELSE ~r.row.verifies)
      BY <2>2 DEF Count
    <3> QED BY <1>0, <2>4, <3>1 DEF One
  <2>6. Doubt(a)' = Doubt(a)
    <3>1. CASE Passes(r.row, opts[a].tolerant)
      BY <2>2, <2>5, <3>1 DEF Doubt
    <3>2. CASE ~Passes(r.row, opts[a].tolerant)
      <4>1. tally'[a].bad > 0
        BY <1>0, <2>5, <3>2
      <4> QED BY <1>4, <3>2, <4>1 DEF Doubt
    <3> QED BY <3>1, <3>2
  <2>7. Phase(a)' = Phase(a)
    BY <2>2 DEF Phase
  <2> QED BY <1>s, <2>1, <2>2, <2>6, <2>7
<1>5. ASSUME NEW a \in Auditor, Stop(a)
      PROVE  UNCHANGED Promise!vars
  <2>1. Steps(a)
    BY <1>5 DEF Steps, Work
  <2>2. pc[a] = "walk" /\ pc'[a] = "check"
    BY <1>5 DEF TypeOK, Stop
  <2>3. Phase(a)' = Phase(a)
    BY <2>2 DEF Phase
  <2>4. Doubt(a)' = Doubt(a)
    BY <1>5 DEF Stop, Doubt
  <2> QED BY <1>5, <1>s, <2>1, <2>3, <2>4 DEF Stop
<1>6. ASSUME NEW a \in Auditor, Raise(a)
      PROVE  Promise!Next
  <2>1. Steps(a)
    BY <1>6 DEF Steps, Work
  <2>2. /\ pc[a] = "walk" /\ pc'[a] = "check" /\ tally'[a] = Failed(tally[a])
        /\ store' = store /\ left' = left /\ opts' = opts
    BY <1>6 DEF TypeOK, Raise
  <2>3. Phase(a) = "running" /\ Phase(a)' = "running"
    BY <2>2 DEF Phase
  <2>4. Doubt(a)'
    <3>1. tally'[a].bad > 0
      BY <1>0, <2>2, FailedFacts
    <3> QED BY <3>1 DEF Doubt
  <2> QED BY <1>d, <2>1, <2>2, <2>3, <2>4
<1>7. ASSUME NEW a \in Auditor, CheckManifest(a)
      PROVE  [Promise!Next]_(Promise!vars)
  <2> DEFINE v == VerifyManifest(loaded[a], entries[a], opts[a].expected)
  <2>1. Steps(a)
    BY <1>7 DEF Steps, Work
  <2>2. /\ pc[a] = "check" /\ pc'[a] \in {"open", "report"} /\ batch' = batch
        /\ store' = store /\ left' = left /\ opts' = opts
    BY <1>7 DEF TypeOK, CheckManifest
  <2>3. Phase(a) = "running" /\ Phase(a)' = "running"
    BY <2>2 DEF Phase
  <2>4. CASE ~opts[a].manifest \/ v = "OK"
    <3>1. tally'[a] = tally[a]
      BY <1>7, <2>4 DEF TypeOK, CheckManifest
    <3>2. Doubt(a)' = Doubt(a)
      BY <2>2, <3>1 DEF Doubt
    <3> QED BY <1>s, <2>1, <2>2, <2>3, <3>2
  <2>5. CASE opts[a].manifest /\ v # "OK"
    <3>1. tally'[a] = Failed(tally[a])
      BY <1>7, <2>5 DEF TypeOK, CheckManifest
    <3>2. Doubt(a)'
      <4>1. tally'[a].bad > 0
        BY <1>0, <3>1, FailedFacts
      <4> QED BY <4>1 DEF Doubt
    <3> QED BY <1>d, <2>1, <2>2, <2>3, <3>2
  <2> QED BY <2>4, <2>5
<1>8. ASSUME NEW a \in Auditor, OpenManifest(a)
      PROVE  [Promise!Next]_(Promise!vars)
  <2>1. Steps(a)
    BY <1>8 DEF Steps, Work
  <2>2. Doubt(a)' = Doubt(a) /\ store' = store /\ left' = left /\ opts' = opts
    BY <1>8 DEF OpenManifest, Doubt
  <2>3. CASE Repeats(entries[a])
    <3>1. pc'[a] = "done" /\ exit'[a] = 1
      BY <1>8, <2>3 DEF TypeOK, OpenManifest
    <3>2. Phase(a)' = "red"
      BY <3>1 DEF Phase
    <3> QED BY <1>f, <2>1, <2>2, <3>2
  <2>4. CASE ~Repeats(entries[a])
    <3>1. pc[a] = "open" /\ pc'[a] = "write"
      BY <1>8, <2>4 DEF TypeOK, OpenManifest
    <3>2. Phase(a)' = Phase(a)
      BY <3>1 DEF Phase
    <3> QED BY <1>s, <2>1, <2>2, <3>2
  <2> QED BY <2>3, <2>4
<1>9. ASSUME NEW a \in Auditor, WriteManifest(a)
      PROVE  UNCHANGED Promise!vars
  <2>1. Steps(a)
    BY <1>9 DEF Steps, Work
  <2>2. pc[a] = "write" /\ pc'[a] = "report"
    BY <1>9 DEF TypeOK, WriteManifest
  <2>3. Phase(a)' = Phase(a)
    BY <2>2 DEF Phase
  <2>4. Doubt(a)' = Doubt(a)
    BY <1>9 DEF WriteManifest, Doubt
  <2> QED BY <1>9, <1>s, <2>1, <2>3, <2>4 DEF WriteManifest
<1>10. ASSUME NEW a \in Auditor, Report(a)
       PROVE  Promise!Next
  <2>1. Steps(a)
    BY <1>10 DEF Steps, Work
  <2>2. /\ pc[a] = "report" /\ pc'[a] = "done"
        /\ exit'[a] = (IF tally[a].bad # 0 THEN 1 ELSE 0)
        /\ store' = store /\ left' = left /\ opts' = opts
    BY <1>10 DEF TypeOK, Report
  <2>3. Doubt(a)' = Doubt(a)
    BY <1>10 DEF Report, Doubt
  <2>4. CASE tally[a].bad # 0
    <3>1. Phase(a)' = "red"
      BY <2>2, <2>4 DEF Phase
    <3> QED BY <1>f, <2>1, <2>2, <2>3, <3>1
  <2>5. CASE tally[a].bad = 0
    <3>1. Phase(a) = "running" /\ Phase(a)' = "green"
      BY <2>2, <2>5 DEF Phase
    <3>2. batch[a] = {} /\ left[a] = {}
      BY <1>0, <2>2, <2>5 DEF AllClosed, Closed
    <3>3. ~Doubt(a)
      BY <2>5, <3>2 DEF Doubt
    <3>4. /\ PhaseMap' = [PhaseMap EXCEPT ![a] = "green"] /\ DoubtMap' = DoubtMap
          /\ TolerantMap' = TolerantMap
      BY <2>1, <2>2, <2>3, <3>1, Frame DEF DoubtMap, TolerantMap
    <3>5. Promise!Pass(a)
      BY <2>2, <3>1, <3>2, <3>3, <3>4 DEF Promise!Pass, PhaseMap, DoubtMap, TolerantMap
    <3> QED BY <3>5 DEF Promise!Next
  <2> QED BY <2>4, <2>5
<1>11. ASSUME NEW a \in Auditor, Kill(a)
       PROVE  Promise!Next
  <2>1. Steps(a)
    BY <1>11 DEF Steps
  <2>2. pc'[a] = "done" /\ exit'[a] = 137
    BY <1>11 DEF TypeOK, Kill
  <2>3. Phase(a)' = "red"
    BY <2>2 DEF Phase
  <2>4. Doubt(a)' = Doubt(a)
    BY <1>11 DEF Kill, Doubt
  <2> QED BY <1>11, <1>f, <2>1, <2>3, <2>4 DEF Kill
<1>12. CASE UNCHANGED vars
  BY <1>12 DEF vars, audit, Promise!vars, Phase, Doubt
<1> QED BY <1>1, <1>2, <1>3, <1>4, <1>5, <1>6, <1>7, <1>8, <1>9, <1>10, <1>11, <1>12
        DEF Next, Work

\* The audit loop keeps the promise of AuditPromise: whatever the collection and
\* other audits do, a green exit comes only after every record that was there all
\* along was read and found acceptable (_audit_loop: "0 if every record passed").
THEOREM AuditImplementsPromise == Spec => PromiseKept
<1>1. Init => TypeOK /\ AllClosed
  BY InitType, InitClosed
<1>2. TypeOK /\ AllClosed /\ [Next]_vars => (TypeOK /\ AllClosed)'
  BY StepType, StepClosed
<1>3. Init => Promise!Init
  BY InitRefines
<1>4. TypeOK /\ AllClosed /\ [Next]_vars => [Promise!Next]_(Promise!vars)
  BY StepRefines
<1> QED BY <1>1, <1>2, <1>3, <1>4, PTL DEF Spec, PromiseKept, Promise!Spec

-----------------------------------------------------------------------------
(* No false alarm: every failure the summary counts has a cause.           *)

Blamed(a) ==
  /\ tally[a].bad > 0 =>
       \/ aborted[a]
       \/ verdict[a] \notin {None, "OK"}
       \/ \E n \in DOMAIN entries[a] : ~Passes(entries[a][n].row, opts[a].tolerant)
  /\ verdict[a] # None =>
       /\ opts[a].manifest
       /\ verdict[a] = VerifyManifest(loaded[a], entries[a], opts[a].expected)
       /\ pc[a] \notin {"idle", "walk", "check"}
  /\ printed[a] => pc[a] = "done" /\ batch[a] = {} /\ (left[a] = {} \/ aborted[a])

AllBlamed == \A a \in Auditor : Blamed(a)

LEMMA InitBlamed == Init => AllBlamed
<1> SUFFICES ASSUME Init, NEW a \in Auditor PROVE Blamed(a)
  BY DEF AllBlamed
<1>1. /\ tally[a].bad = 0 /\ verdict[a] = None /\ printed[a] = FALSE
  BY DEF Init, NoTally
<1> QED BY <1>1 DEF Blamed

LEMMA StepBlamed ==
  TypeOK /\ AllCounted /\ AllClosed /\ AllBlamed /\ [Next]_vars => AllBlamed'
<1> SUFFICES ASSUME TypeOK, AllCounted, AllClosed, AllBlamed, [Next]_vars PROVE AllBlamed'
  OBVIOUS
<1>0. \A b \in Auditor : /\ tally[b] \in Tally /\ tally[b].bad \in Nat
                         /\ opts[b].tolerant \in BOOLEAN
  BY AuditAssumption DEF TypeOK, Tally, AuditAssumption, Option
<1>1. ASSUME NEW a \in Auditor, Steps(a), Blamed(a)'
      PROVE  AllBlamed'
  <2> SUFFICES ASSUME NEW b \in Auditor, a # b PROVE Blamed(b)'
    BY <1>1 DEF AllBlamed
  <2>1. Still(b) /\ Blamed(b)
    BY <1>1, OthersStill DEF AllBlamed
  <2> QED BY <2>1 DEF Still, Blamed
<1>2. ASSUME NEW i \in Id, NEW r \in Row \cup {None}, Write(i, r)
      PROVE  AllBlamed'
  <2> SUFFICES ASSUME NEW b \in Auditor PROVE Blamed(b)'
    BY DEF AllBlamed
  <2>1. Blamed(b)
    BY DEF AllBlamed
  <2>2. left[b] = {} => left'[b] = {}
    BY <1>2 DEF Write, TypeOK
  <2> QED BY <1>2, <2>1, <2>2 DEF Write, audit, Blamed
<1>3. ASSUME NEW a \in Auditor, Steps(a) PROVE Blamed(a)'
  <2>0. Blamed(a) /\ Counted(a) /\ Closed(a)
    BY DEF AllBlamed, AllCounted, AllClosed
  <2>1. ASSUME NEW o \in Options, Start(a, o) PROVE Blamed(a)'
    <3>1. tally'[a].bad = 0 /\ verdict'[a] = None /\ printed'[a] = FALSE
      BY <2>1 DEF TypeOK, Start, NoTally
    <3> QED BY <3>1 DEF Blamed
  <2>2. ASSUME NEW S \in SUBSET Id, FetchPage(a, S) PROVE Blamed(a)'
    <3>1. ~printed[a]
      BY <2>0, <2>2 DEF FetchPage, Counted
    <3> QED BY <2>0, <2>2, <3>1 DEF FetchPage, Blamed
  <2>3. ASSUME NEW r \in batch[a], Examine(a, r) PROVE Blamed(a)'
    <3>1. /\ tally'[a] = Count(tally[a], r.row, opts[a].tolerant)
          /\ entries'[a] = Append(entries[a], r)
          /\ pc' = pc /\ opts' = opts /\ aborted' = aborted /\ verdict' = verdict
          /\ printed' = printed /\ pc[a] = "walk"
      BY <2>3 DEF TypeOK, Examine
    <3>2. verdict[a] = None /\ ~printed[a]
      BY <2>0, <3>1 DEF Counted
    <3>3. r.row \in Row /\ entries[a] \in Seq(Record) /\ r \in Record
      <4>1. r \in Record /\ entries[a] \in Seq(Record)
        BY DEF TypeOK
      <4> QED BY <4>1 DEF Record
    <3>4. /\ DOMAIN entries'[a] = DOMAIN entries[a] \cup {Len(entries[a]) + 1}
          /\ entries'[a][Len(entries[a]) + 1] = r
          /\ \A n \in DOMAIN entries[a] : entries'[a][n] = entries[a][n]
      BY <3>1, <3>3
    <3>5. CASE Passes(r.row, opts[a].tolerant)
      <4>1. ~(IF r.row.field = "absent" THEN ~opts[a].tolerant ELSE ~r.row.verifies)
        BY <1>0, <3>3, <3>5, RowFacts DEF Passes, Good, Bare
      <4>2. tally'[a].bad = tally[a].bad
        <5>1. tally'[a].bad = tally[a].bad
                + One(IF r.row.field = "absent" THEN ~opts[a].tolerant ELSE ~r.row.verifies)
          BY <3>1 DEF Count
        <5> QED BY <1>0, <4>1, <5>1 DEF One
      <4> QED BY <2>0, <3>1, <3>2, <3>4, <4>2 DEF Blamed
    <3>6. CASE ~Passes(r.row, opts[a].tolerant)
      <4>1. \E n \in DOMAIN entries'[a] : ~Passes(entries'[a][n].row, opts'[a].tolerant)
        BY <3>1, <3>4, <3>6
      <4> QED BY <3>1, <3>2, <4>1 DEF Blamed
    <3> QED BY <3>5, <3>6
  <2>4. CASE Stop(a)
    <3>1. /\ pc[a] = "walk" /\ pc'[a] = "check" /\ tally' = tally /\ verdict' = verdict
          /\ printed' = printed /\ entries' = entries /\ opts' = opts /\ aborted' = aborted
      BY <2>4 DEF TypeOK, Stop
    <3>2. verdict[a] = None /\ ~printed[a]
      BY <2>0, <3>1 DEF Counted
    <3> QED BY <2>0, <3>1, <3>2 DEF Blamed
  <2>5. CASE Raise(a)
    <3>1. /\ aborted'[a] = TRUE /\ pc[a] = "walk" /\ verdict' = verdict /\ printed' = printed
      BY <2>5 DEF TypeOK, Raise
    <3>2. verdict[a] = None /\ ~printed[a]
      BY <2>0, <3>1 DEF Counted
    <3> QED BY <3>1, <3>2 DEF Blamed
  <2>6. CASE CheckManifest(a)
    <3> DEFINE v == VerifyManifest(loaded[a], entries[a], opts[a].expected)
    <3>1. /\ pc'[a] \in {"open", "report"} /\ pc[a] = "check"
          /\ entries' = entries /\ opts' = opts /\ aborted' = aborted
          /\ loaded' = loaded /\ printed' = printed
      BY <2>6 DEF TypeOK, CheckManifest
    <3>2. verdict[a] = None /\ ~printed[a]
      BY <2>0, <3>1 DEF Counted
    <3>3. CASE opts[a].manifest
      <4>1. verdict'[a] = v /\ (v = "OK" => tally'[a] = tally[a])
        BY <2>6, <3>3 DEF TypeOK, CheckManifest
      <4>2. v \in Verdicts /\ v # None
        BY VerdictType, AuditAssumption DEF AuditAssumption
      <4>3. CASE v = "OK"
        BY <2>0, <3>1, <3>2, <3>3, <4>1, <4>3 DEF Blamed
      <4>4. CASE v # "OK"
        BY <3>1, <3>2, <3>3, <4>1, <4>2, <4>4 DEF Blamed
      <4> QED BY <4>3, <4>4
    <3>4. CASE ~opts[a].manifest
      <4>1. verdict' = verdict /\ tally' = tally
        BY <2>6, <3>4 DEF CheckManifest
      <4> QED BY <2>0, <3>1, <3>2, <4>1 DEF Blamed
    <3> QED BY <3>3, <3>4
  <2>7. CASE OpenManifest(a)
    <3>1. pc[a] = "open" /\ pc'[a] \in {"done", "write"}
      BY <2>7 DEF TypeOK, OpenManifest
    <3>2. ~printed[a]
      BY <2>0, <3>1 DEF Counted
    <3> QED BY <2>0, <2>7, <3>1, <3>2 DEF OpenManifest, Blamed
  <2>8. CASE WriteManifest(a)
    <3>1. pc[a] = "write" /\ pc'[a] = "report"
      BY <2>8 DEF TypeOK, WriteManifest
    <3>2. ~printed[a]
      BY <2>0, <3>1 DEF Counted
    <3> QED BY <2>0, <2>8, <3>1, <3>2 DEF WriteManifest, Blamed
  <2>9. CASE Report(a)
    <3>1. pc[a] = "report" /\ pc'[a] = "done"
      BY <2>9 DEF TypeOK, Report
    <3>2. batch[a] = {} /\ (left[a] = {} \/ aborted[a])
      BY <2>0, <3>1 DEF Closed
    <3> QED BY <2>0, <2>9, <3>1, <3>2 DEF Report, Blamed
  <2>10. CASE Kill(a)
    <3>1. pc[a] # "done" /\ pc'[a] = "done"
      BY <2>10 DEF TypeOK, Kill
    <3>2. ~printed[a]
      BY <2>0, <3>1 DEF Counted
    <3> QED BY <2>0, <2>10, <3>1, <3>2 DEF Kill, Blamed
  <2> QED BY <1>3, <2>1, <2>2, <2>3, <2>4, <2>5, <2>6, <2>7, <2>8, <2>9, <2>10
          DEF Steps, Work
<1>4. CASE UNCHANGED vars
  BY <1>4 DEF vars, audit, AllBlamed, Blamed
<1> QED BY <1>1, <1>2, <1>3, <1>4 DEF Next, Steps

\* A walk without repetition has as many leaves as records.
LEMMA LeavesCount ==
  ASSUME NEW es \in Seq(Record), ~Repeats(es)
  PROVE  Cardinality(Leaves(es)) = Len(es)
<1> DEFINE f == [n \in 1..Len(es) |-> Leaf(es[n])]
<1>1. Len(es) \in Nat /\ DOMAIN es = 1..Len(es)
  OBVIOUS
<1>2. \A m, n \in 1..Len(es) : f[m] = f[n] => m = n
  <2> SUFFICES ASSUME NEW m \in 1..Len(es), NEW n \in 1..Len(es), f[m] = f[n] PROVE m = n
    OBVIOUS
  <2>1. es[m].id = es[n].id
    BY DEF Leaf
  <2>2. ~(m < n) /\ ~(n < m)
    BY <1>1, <2>1 DEF Repeats
  <2> QED BY <1>1, <2>2
<1>3. \A t \in Leaves(es) : \E n \in 1..Len(es) : f[n] = t
  BY <1>1 DEF Leaves
<1>4. f \in [1..Len(es) -> Leaves(es)]
  BY <1>1 DEF Leaves
<1> HIDE DEF f
<1>5. ExistsBijection(1..Len(es), Leaves(es))
  BY <1>2, <1>3, <1>4
     DEF ExistsBijection, Bijection, Injection, Surjection, IsInjective
<1> QED BY <1>1, <1>5, FS_CountingElements

LEMMA SoundIsGreen ==
  ASSUME TypeOK, AllCounted, AllWalked, AllBlamed, NEW a \in Auditor,
         printed[a], quiet[a], ~aborted[a], ~Repeats(entries[a]),
         \A i \in Present(store) :
           store[i] \in Good \cup (IF opts[a].tolerant THEN Bare ELSE {}),
         opts[a].manifest =>
           /\ loaded[a].key \in Trusted
           /\ opts[a].expected \in {None, loaded[a].collection}
           /\ loaded[a].root = StoreLeaves
           /\ loaded[a].count = Cardinality(StoreLeaves)
  PROVE  exit[a] = 0
<1>1. /\ batch[a] = {} /\ left[a] = {}
      /\ \A n \in DOMAIN entries[a] : store[entries[a][n].id] = entries[a][n].row
      /\ \A i \in Present(store) : \E n \in DOMAIN entries[a] : entries[a][n].id = i
  BY DEF AllBlamed, Blamed, AllWalked, Walked, Covers
<1>2. entries[a] \in Seq(Record) /\ opts[a].tolerant \in BOOLEAN /\ tally[a].bad \in Nat
  BY AuditAssumption DEF TypeOK, Tally, AuditAssumption, Option
<1>3. ASSUME NEW n \in DOMAIN entries[a]
      PROVE  /\ entries[a][n].id \in Present(store)
             /\ Leaf(entries[a][n]) \in StoreLeaves
             /\ Passes(entries[a][n].row, opts[a].tolerant)
  <2>1. entries[a][n] \in Record
    BY <1>2
  <2>2. entries[a][n].id \in Present(store)
    BY <1>1, <2>1, AuditAssumption DEF Present, Record, AuditAssumption
  <2>3. Leaf(entries[a][n]) \in StoreLeaves
    BY <1>1, <2>2 DEF StoreLeaves, Leaf
  <2>4. entries[a][n].row \in Good \cup (IF opts[a].tolerant THEN Bare ELSE {})
    BY <1>1, <2>2
  <2> QED BY <1>2, <2>2, <2>3, <2>4 DEF Passes
<1>4. Leaves(entries[a]) = StoreLeaves
  <2>1. ASSUME NEW i \in Present(store) PROVE <<i, store[i].hash>> \in Leaves(entries[a])
    <3>1. PICK n \in DOMAIN entries[a] : entries[a][n].id = i
      BY <1>1
    <3>2. Leaf(entries[a][n]) = <<i, store[i].hash>>
      BY <1>1, <3>1 DEF Leaf
    <3> QED BY <3>2 DEF Leaves
  <2> QED BY <1>3, <2>1 DEF Leaves, StoreLeaves
<1>5. Cardinality(StoreLeaves) = Len(entries[a])
  BY <1>2, <1>4, LeavesCount
<1>6. opts[a].manifest => VerifyManifest(loaded[a], entries[a], opts[a].expected) = "OK"
  BY <1>4, <1>5 DEF VerifyManifest
<1>7. verdict[a] \in {None, "OK"}
  BY <1>6 DEF AllBlamed, Blamed
<1>8. ~(tally[a].bad > 0)
  BY <1>3, <1>7 DEF AllBlamed, Blamed
<1> QED BY <1>2, <1>8 DEF AllCounted, Counted

\* A sound, undisturbed collection that is walked to its end is never red, with or
\* without a manifest of it (_audit_loop, verify_manifest).
THEOREM NeverFalselyRed == Spec => []NoFalseAlarm
<1> DEFINE I == TypeOK /\ AllCounted /\ AllClosed /\ AllWalked /\ AllBlamed
<1>1. Init => I
  BY InitType, InitCounted, InitClosed, InitWalked, InitBlamed
<1>2. I /\ [Next]_vars => I'
  BY StepType, StepCounted, StepClosed, StepWalked, StepBlamed
<1>3. I => NoFalseAlarm
  BY SoundIsGreen DEF NoFalseAlarm
<1> QED BY <1>1, <1>2, <1>3, PTL DEF Spec

-----------------------------------------------------------------------------
(* What a clean run writes.                                                *)

LEMMA CleanEntriesCover ==
  ASSUME TypeOK, AllWalked, NEW a \in Auditor, quiet[a], ~aborted[a],
         batch[a] = {}, left[a] = {}
  PROVE  Leaves(entries[a]) = StoreLeaves
<1>1. /\ \A n \in DOMAIN entries[a] : store[entries[a][n].id] = entries[a][n].row
      /\ \A i \in Present(store) : \E n \in DOMAIN entries[a] : entries[a][n].id = i
  BY DEF AllWalked, Walked, Covers
<1>2. ASSUME NEW n \in DOMAIN entries[a] PROVE Leaf(entries[a][n]) \in StoreLeaves
  <2>1. entries[a][n] \in Record
    BY DEF TypeOK
  <2>2. entries[a][n].id \in Present(store)
    BY <1>1, <2>1, AuditAssumption DEF Present, Record, AuditAssumption
  <2> QED BY <1>1, <2>2 DEF StoreLeaves, Leaf
<1>3. ASSUME NEW i \in Present(store) PROVE <<i, store[i].hash>> \in Leaves(entries[a])
  <2>1. PICK n \in DOMAIN entries[a] : entries[a][n].id = i
    BY <1>1
  <2>2. Leaf(entries[a][n]) = <<i, store[i].hash>>
    BY <1>1, <2>1 DEF Leaf
  <2> QED BY <2>2 DEF Leaves
<1> QED BY <1>2, <1>3 DEF Leaves, StoreLeaves

\* No step but WriteManifest takes an audit from "write" to "report".
LEMMA OnlyWriteReports ==
  ASSUME TypeOK, [Next]_vars, NEW a \in Auditor, pc[a] = "write", pc'[a] = "report"
  PROVE  WriteManifest(a)
<1>1. ~UNCHANGED vars /\ \A i \in Id, r \in Row \cup {None} : ~Write(i, r)
  BY DEF vars, audit, Write
<1>2. PICK b \in Auditor : Steps(b)
  BY <1>1 DEF Next, Steps
<1>3. b = a
  BY <1>2, OthersStill DEF Still
<1>4. \A o \in Options : ~Start(a, o)
  BY DEF Start
<1>5. ~Kill(a)
  BY DEF Kill, TypeOK
<1>6. /\ \A S \in SUBSET Id : ~FetchPage(a, S)
      /\ \A r \in batch[a] : ~Examine(a, r)
      /\ ~Stop(a) /\ ~Raise(a) /\ ~CheckManifest(a) /\ ~OpenManifest(a) /\ ~Report(a)
  BY DEF FetchPage, Examine, Stop, Raise, CheckManifest, OpenManifest, Report
<1> QED BY <1>2, <1>3, <1>4, <1>5, <1>6 DEF Steps, Work

\* What a run with nothing to report writes holds every record of a collection
\* nobody touched, whatever other audits do to the file (build_manifest).
THEOREM ManifestAlwaysCovers == Spec => ManifestCoversCollection
<1> DEFINE I == TypeOK /\ AllClosed /\ AllWalked
           Clean(a) == /\ pc[a] = "write" /\ pc'[a] = "report" /\ file' # Torn
                       /\ quiet[a] /\ tally[a].bad = 0
<1>1. Init => I
  BY InitType, InitClosed, InitWalked
<1>2. I /\ [Next]_vars => I'
  BY StepType, StepClosed, StepWalked
<1>3. I /\ [Next]_vars => [\A a \in Auditor : Clean(a) => file'.root = StoreLeaves]_vars
  <2> SUFFICES ASSUME I, [Next]_vars, NEW a \in Auditor, Clean(a)
               PROVE  file'.root = StoreLeaves
    OBVIOUS
  <2>1. file' = BuildManifest(opts[a], entries[a])
    BY OnlyWriteReports DEF WriteManifest
  <2>2. ~aborted[a] /\ batch[a] = {} /\ left[a] = {}
    BY DEF AllClosed, Closed
  <2>3. Leaves(entries[a]) = StoreLeaves
    BY <2>2, CleanEntriesCover
  <2> QED BY <2>1, <2>3 DEF BuildManifest
<1> QED BY <1>1, <1>2, <1>3, PTL DEF Spec, ManifestCoversCollection

-----------------------------------------------------------------------------
(* How long an audit takes.                                                *)

Remaining == [idle |-> 0, walk |-> 5, check |-> 4, open |-> 3, write |-> 2, report |-> 1,
              done |-> 0]

\* Ids that audit a has not read yet.
Unread(a) == Id \ (Seen(a) \cup {r.id : r \in batch[a]})

\* What is left to do for a: pages and turns of the loop, then the phases after it.
Effort(a) ==
  Remaining[pc[a]]
    + IF pc[a] = "walk" THEN 2 * Cardinality(Unread(a)) + Cardinality(batch[a]) ELSE 0

Pages == \A a \in Auditor : IsFiniteSet(batch[a])

\* A page of S holds at most as many records as S has ids.
LEMMA PageSizes ==
  ASSUME NEW S, IsFiniteSet(S)
  PROVE  LET P == {[id |-> i, row |-> store[i]] : i \in S} IN
         IsFiniteSet(P) /\ Cardinality(P) <= Cardinality(S)
<1> DEFINE P == {[id |-> i, row |-> store[i]] : i \in S}
           f == [i \in S |-> [id |-> i, row |-> store[i]]]
<1>1. f \in Surjection(S, P) BY DEF Surjection
<1> HIDE DEF P, f
<1> QED BY <1>1, FS_Surjection DEF P

LEMMA EffortFacts ==
  ASSUME IsFiniteSet(Id), TypeOK, Pages, NEW a \in Auditor
  PROVE  /\ IsFiniteSet(Unread(a)) /\ Cardinality(Unread(a)) \in Nat
         /\ Cardinality(Unread(a)) <= Cardinality(Id) /\ Cardinality(Id) \in Nat
         /\ Cardinality(batch[a]) \in Nat /\ Remaining[pc[a]] \in 0..5 /\ Effort(a) \in Nat
         /\ Effort(a) >= Remaining[pc[a]]
<1>1. Unread(a) \in SUBSET Id BY DEF Unread
<1>2. /\ IsFiniteSet(Unread(a)) /\ Cardinality(Unread(a)) <= Cardinality(Id)
  BY <1>1, FS_Subset
<1>3. /\ Cardinality(Unread(a)) \in Nat /\ Cardinality(Id) \in Nat
      /\ Cardinality(batch[a]) \in Nat
  BY <1>2, FS_CardinalityType DEF Pages
<1>4. Remaining[pc[a]] \in 0..5 BY DEF TypeOK, Phases, Remaining
<1> QED BY <1>2, <1>3, <1>4 DEF Effort

LEMMA InitPages == Init => Pages
BY FS_EmptySet DEF Init, Pages

LEMMA StepPages == IsFiniteSet(Id) /\ TypeOK /\ Pages /\ [Next]_vars => Pages'
<1> SUFFICES ASSUME IsFiniteSet(Id), TypeOK, Pages, [Next]_vars, NEW b \in Auditor
             PROVE  IsFiniteSet(batch'[b])
  BY DEF Pages
<1>1. IsFiniteSet(batch[b]) /\ IsFiniteSet({}) BY FS_EmptySet DEF Pages
<1>2. CASE batch' = batch BY <1>1, <1>2
<1>3. ASSUME NEW a \in Auditor, batch' = [batch EXCEPT ![a] = {}]
      PROVE  IsFiniteSet(batch'[b])
  <2>1. batch'[b] = batch[b] \/ batch'[b] = {} BY <1>3 DEF TypeOK
  <2> QED BY <1>1, <2>1
<1>4. ASSUME NEW a \in Auditor, NEW S \in SUBSET Id, FetchPage(a, S)
      PROVE  IsFiniteSet(batch'[b])
  <2> DEFINE P == {[id |-> i, row |-> store[i]] : i \in S}
  <2>1. IsFiniteSet(P)
    <3>1. IsFiniteSet(S) BY FS_Subset
    <3> QED BY <3>1, PageSizes
  <2>2. batch' = [batch EXCEPT ![a] = P] BY <1>4 DEF FetchPage
  <2> HIDE DEF P
  <2>3. batch'[b] = batch[b] \/ batch'[b] = P BY <2>2 DEF TypeOK
  <2> QED BY <1>1, <2>1, <2>3
<1>5. ASSUME NEW a \in Auditor, NEW r \in batch[a], Examine(a, r)
      PROVE  IsFiniteSet(batch'[b])
  <2>1. batch'[b] \in SUBSET batch[b] BY <1>5 DEF Examine, TypeOK
  <2> QED BY <1>1, <2>1, FS_Subset
<1>6. ASSUME NEW a \in Auditor, Raise(a) PROVE batch' = [batch EXCEPT ![a] = {}]
  BY <1>6 DEF Raise
<1>7. ASSUME NEW a \in Auditor, NEW o \in Options, Start(a, o)
      PROVE  batch' = [batch EXCEPT ![a] = {}]
  BY <1>7 DEF Start
<1>8. ASSUME NEW a \in Auditor,
             Stop(a) \/ CheckManifest(a) \/ OpenManifest(a) \/ WriteManifest(a) \/ Report(a)
             \/ Kill(a)
      PROVE  batch' = batch
  BY <1>8 DEF Stop, CheckManifest, OpenManifest, WriteManifest, Report, Kill
<1>9. ASSUME NEW i \in Id, NEW r \in Row \cup {None}, Write(i, r) PROVE batch' = batch
  BY <1>9 DEF Write, audit
<1>10. CASE UNCHANGED vars BY <1>2, <1>10 DEF vars, audit
<1> QED BY <1>2, <1>3, <1>4, <1>5, <1>6, <1>7, <1>8, <1>9, <1>10 DEF Next, Work

\* Every step an audit takes leaves it less to do.
LEMMA WorkShrinks ==
  ASSUME IsFiniteSet(Id), ~MayRepeat, TypeOK, TypeOK', Pages, Pages',
         NEW a \in Auditor, Work(a)
  PROVE  Effort(a)' < Effort(a)
<1>1. /\ IsFiniteSet(Unread(a)) /\ Cardinality(Unread(a)) \in Nat
      /\ Cardinality(batch[a]) \in Nat /\ Effort(a) \in Nat /\ Effort(a) >= Remaining[pc[a]]
      /\ Remaining[pc[a]] \in 0..5
  BY EffortFacts
<1>2. ASSUME NEW S \in SUBSET Id, FetchPage(a, S) PROVE Effort(a)' < Effort(a)
  <2> DEFINE P == {[id |-> i, row |-> store[i]] : i \in S}
  <2>1. /\ pc[a] = "walk" /\ pc'[a] = "walk" /\ batch[a] = {} /\ S # {}
        /\ S \cap Seen(a) = {} /\ batch'[a] = P /\ Seen(a)' = Seen(a)
    BY <1>2 DEF FetchPage, TypeOK, Seen
  <2>2. IsFiniteSet(S) /\ Cardinality(S) \in Nat /\ Cardinality(S) # 0
    BY <2>1, FS_Subset, FS_CardinalityType, FS_EmptySet
  <2>3. Cardinality(P) <= Cardinality(S) /\ Cardinality(P) \in Nat
    <3>1. IsFiniteSet(P) /\ Cardinality(P) <= Cardinality(S) BY <2>2, PageSizes
    <3> HIDE DEF P
    <3> QED BY <3>1, FS_CardinalityType
  <2>4. {r.id : r \in P} = S
    <3>1. \A i \in S : [id |-> i, row |-> store[i]].id = i OBVIOUS
    <3>2. \A i \in S : [id |-> i, row |-> store[i]] \in P OBVIOUS
    <3>3. S \subseteq {r.id : r \in P} BY <3>1, <3>2
    <3>4. {r.id : r \in P} \subseteq S OBVIOUS
    <3> QED BY <3>3, <3>4
  <2> HIDE DEF P
  <2>5. {r.id : r \in batch[a]} = {} /\ {r.id : r \in batch'[a]} = S BY <2>1, <2>4
  <2>6. Unread(a) = Id \ Seen(a) /\ Unread(a)' = (Id \ Seen(a)) \ S
    BY <2>1, <2>5 DEF Unread
  <2>7. Unread(a)' = Unread(a) \ S /\ Unread(a) \cap S = S BY <2>1, <2>6
  <2>8. Cardinality(Unread(a)') = Cardinality(Unread(a)) - Cardinality(S)
    BY <1>1, <2>7, FS_Difference
  <2>9. Cardinality(batch[a]) = 0 BY <2>1, FS_EmptySet
  <2>10. /\ Effort(a) = Remaining["walk"]
                        + (2 * Cardinality(Unread(a)) + Cardinality(batch[a]))
         /\ Effort(a)' = Remaining["walk"]
                         + (2 * Cardinality(Unread(a)') + Cardinality(batch'[a]))
    BY <2>1 DEF Effort
  <2> QED BY <1>1, <2>1, <2>2, <2>3, <2>8, <2>9, <2>10
<1>3. ASSUME NEW r \in batch[a], Examine(a, r) PROVE Effort(a)' < Effort(a)
  <2>1. /\ pc[a] = "walk" /\ pc'[a] = "walk" /\ batch'[a] = batch[a] \ {r}
        /\ entries'[a] = Append(entries[a], r)
    BY <1>3 DEF Examine, TypeOK
  <2>2. Unread(a)' \in SUBSET Unread(a)
    <3>1. entries[a] \in Seq(Record) /\ r \in Record BY DEF TypeOK
    <3>2. Seen(a) \subseteq Seen(a)' /\ r.id \in Seen(a)'
      <4> DEFINE es == entries[a]
                 fs == Append(es, r)
      <4>1. /\ DOMAIN es = 1..Len(es) /\ DOMAIN fs = 1..(Len(es) + 1) /\ Len(es) \in Nat
            /\ fs[Len(es) + 1] = r /\ \A n \in 1..Len(es) : fs[n] = es[n]
        BY <3>1
      <4>2. /\ Seen(a) = {es[n].id : n \in DOMAIN es}
            /\ Seen(a)' = {fs[n].id : n \in DOMAIN fs}
        BY <2>1 DEF Seen
      <4> HIDE DEF es, fs
      <4> QED BY <4>1, <4>2
    <3> QED BY <2>1, <3>2 DEF Unread
  <2>3. Cardinality(Unread(a)') <= Cardinality(Unread(a)) /\ Cardinality(Unread(a)') \in Nat
    BY <1>1, <2>2, FS_Subset, FS_CardinalityType
  <2>4. Cardinality(batch'[a]) = Cardinality(batch[a]) - 1
    BY <2>1, FS_RemoveElement DEF Pages
  <2>5. /\ Effort(a) = Remaining["walk"]
                       + (2 * Cardinality(Unread(a)) + Cardinality(batch[a]))
        /\ Effort(a)' = Remaining["walk"]
                        + (2 * Cardinality(Unread(a)') + Cardinality(batch'[a]))
    BY <2>1 DEF Effort
  <2>6. Remaining["walk"] \in 0..5 BY <1>1, <2>1
  <2> QED BY <1>1, <2>3, <2>4, <2>5, <2>6
<1>4. ASSUME Stop(a) \/ Raise(a) \/ CheckManifest(a) \/ OpenManifest(a) \/ WriteManifest(a)
             \/ Report(a)
      PROVE  Effort(a)' < Effort(a)
  <2>1. Remaining[pc'[a]] < Remaining[pc[a]] /\ pc'[a] # "walk"
    BY <1>4 DEF Stop, Raise, CheckManifest, OpenManifest, WriteManifest, Report, TypeOK,
                Remaining
  <2>2. pc'[a] \in Phases BY DEF TypeOK
  <2>3. Remaining[pc'[a]] \in 0..5 BY <2>2 DEF Phases, Remaining
  <2>4. Effort(a)' = Remaining[pc'[a]] BY <2>1, <2>3 DEF Effort
  <2> QED BY <1>1, <2>1, <2>3, <2>4
<1> QED BY <1>2, <1>3, <1>4 DEF Work

\* Each audit that runs has less to do after every step of its own, and what others do -
\* writes, other audits, a kill - never gives it more; when it starts it has at most two
\* steps for each id and five (_audit_loop).
THEOREM AuditsAreBounded ==
  ASSUME IsFiniteSet(Id), ~MayRepeat
  PROVE  Spec => [][\A a \in Auditor :
                      /\ Effort(a) \in Nat
                      /\ pc[a] \notin {"idle", "done"} => Effort(a)' <= Effort(a)
                      /\ Work(a) => Effort(a)' < Effort(a)
                      /\ \A o \in Options :
                           Start(a, o) => Effort(a)' <= 2 * Cardinality(Id) + 5]_vars
<1> DEFINE Shrinks(a) ==
             /\ Effort(a) \in Nat
             /\ pc[a] \notin {"idle", "done"} => Effort(a)' <= Effort(a)
             /\ Work(a) => Effort(a)' < Effort(a)
             /\ \A o \in Options : Start(a, o) => Effort(a)' <= 2 * Cardinality(Id) + 5
           I == TypeOK /\ Pages
<1>1. Init => I BY InitType, InitPages
<1>2. I /\ [Next]_vars => I' BY StepType, StepPages
<1>3. I => \A a \in Auditor : Effort(a) \in Nat BY EffortFacts
<1>4. (I => \A a \in Auditor : Effort(a) \in Nat)' BY <1>3, PTL
<1>5. ASSUME I, I', [Next]_vars, NEW a \in Auditor PROVE Shrinks(a)
  <2>1. /\ Effort(a) \in Nat /\ Effort(a)' \in Nat
        /\ Remaining[pc[a]] \in 0..5 /\ Effort(a) >= Remaining[pc[a]]
    BY <1>5, <1>4, EffortFacts
  <2>2. Work(a) => Effort(a)' < Effort(a) BY <1>5, WorkShrinks
  <2>3. Still(a) => Effort(a)' = Effort(a)
    BY DEF Still, Effort, Unread, Seen
  <2>4. Kill(a) => Effort(a)' = 0
    BY <1>5 DEF Kill, Effort, Remaining, TypeOK
  <2>5. ASSUME pc[a] \notin {"idle", "done"} PROVE Effort(a)' <= Effort(a)
    <3>1. \A o \in Options : ~Start(a, o) BY <2>5 DEF Start
    <3>2. ASSUME NEW b \in Auditor, Steps(b) PROVE Still(a) \/ Work(a) \/ Kill(a)
      BY <1>5, <3>1, <3>2, OthersStill DEF Steps
    <3>3. ASSUME NEW i \in Id, NEW r \in Row \cup {None}, Write(i, r) PROVE Effort(a)' = Effort(a)
      BY <3>3 DEF Write, audit, Effort, Unread, Seen
    <3>4. UNCHANGED vars => Effort(a)' = Effort(a)
      BY DEF vars, audit, Effort, Unread, Seen
    <3> QED BY <1>5, <2>1, <2>2, <2>3, <2>4, <3>2, <3>3, <3>4 DEF Next, Steps
  <2>6. ASSUME NEW o \in Options, Start(a, o) PROVE Effort(a)' <= 2 * Cardinality(Id) + 5
    <3>1. batch'[a] = {} /\ pc'[a] \in {"done", "walk"} BY <1>5, <2>6 DEF Start, TypeOK
    <3>2. Cardinality(batch'[a]) = 0 BY <3>1, FS_EmptySet
    <3>3. Unread(a)' \in SUBSET Id BY DEF Unread
    <3>4. /\ Cardinality(Unread(a)') <= Cardinality(Id) /\ Cardinality(Id) \in Nat
          /\ Cardinality(Unread(a)') \in Nat
      BY <3>3, FS_Subset, FS_CardinalityType
    <3>5. Effort(a)' = Remaining[pc'[a]]
            + IF pc'[a] = "walk" THEN 2 * Cardinality(Unread(a)') + Cardinality(batch'[a])
              ELSE 0
      BY DEF Effort
    <3>6. Remaining["walk"] = 5 /\ Remaining["done"] = 0 BY DEF Remaining
    <3>7. CASE pc'[a] = "walk" BY <3>2, <3>4, <3>5, <3>6, <3>7
    <3>8. CASE pc'[a] = "done" BY <3>4, <3>5, <3>6, <3>8
    <3> QED BY <3>1, <3>7, <3>8
  <2> QED BY <2>1, <2>2, <2>5, <2>6
<1>6. I /\ I' /\ [Next]_vars => [\A a \in Auditor : Shrinks(a)]_vars BY <1>5
<1> QED BY <1>1, <1>2, <1>6, PTL DEF Spec
=============================================================================
