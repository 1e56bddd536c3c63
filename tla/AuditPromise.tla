---------------------------- MODULE AuditPromise ----------------------------
(***************************************************************************)
(* What an audit promises, with no counter, record list or manifest in it: *)
(* a green exit means that every record which was in the collection        *)
(* throughout the walk was judged while the walk ran, and that nothing the *)
(* audit looked at left a doubt.  A red exit promises nothing.             *)
(***************************************************************************)
EXTENDS FiniteSets

CONSTANTS
  Auditor,             \* audit processes
  Id,                  \* record ids
  Row,                 \* what a record can be
  Good,                \* the rows that pass
  Bare,                \* the rows that pass a tolerant audit only
  None                 \* no record under this id

VARIABLES
  store,     \* store[i] : the row under i, or None
  phase,     \* phase[a] : "idle", "running", "green", "red"
  tolerant,  \* tolerant[a] : unpinned records are let through
  must,      \* must[a] : ids present since the walk began, not judged yet
  doubt      \* doubt[a] : the audit saw something it cannot accept

vars == <<store, phase, tolerant, must, doubt>>

Acceptable(r, t) == r \in Good \/ (t /\ r \in Bare)

Present(s) == {i \in Id : s[i] # None}

Init ==
  /\ store \in [Id -> Row \cup {None}]
  /\ phase = [a \in Auditor |-> "idle"]
  /\ tolerant \in [Auditor -> BOOLEAN]
  /\ must = [a \in Auditor |-> {}]
  /\ doubt = [a \in Auditor |-> FALSE]

\* The collection changes; a deleted record need not be judged any more.
Change(s) ==
  /\ s \in [Id -> Row \cup {None}]
  /\ store' = s
  /\ must' = [a \in Auditor |-> must[a] \cap Present(s)]
  /\ UNCHANGED <<phase, tolerant, doubt>>

\* An audit begins, or gives up before it has looked at anything.
Begin(a, t) ==
  /\ phase[a] # "running"
  /\ \E p \in {"running", "red"} : phase' = [phase EXCEPT ![a] = p]
  /\ tolerant' = [tolerant EXCEPT ![a] = t]
  /\ must' = [must EXCEPT ![a] = Present(store)]
  /\ doubt' = [doubt EXCEPT ![a] = FALSE]
  /\ UNCHANGED store

\* Some records are read, and found acceptable or not as they are at that moment.
Judge(a, S) ==
  /\ phase[a] = "running"
  /\ S \subseteq Present(store)
  /\ must' = [must EXCEPT ![a] = @ \ S]
  /\ doubt' = [doubt EXCEPT ![a] = @ \/ \E i \in S : ~Acceptable(store[i], tolerant[a])]
  /\ UNCHANGED <<store, phase, tolerant>>

Suspect(a) ==
  /\ phase[a] = "running"
  /\ doubt' = [doubt EXCEPT ![a] = TRUE]
  /\ UNCHANGED <<store, phase, tolerant, must>>

Pass(a) ==
  /\ phase[a] = "running"
  /\ ~doubt[a] /\ must[a] = {}
  /\ phase' = [phase EXCEPT ![a] = "green"]
  /\ UNCHANGED <<store, tolerant, must, doubt>>

Fail(a) ==
  /\ phase' = [phase EXCEPT ![a] = "red"]
  /\ UNCHANGED <<store, tolerant, must, doubt>>

Next ==
  \/ \E s \in [Id -> Row \cup {None}] : Change(s)
  \/ \E a \in Auditor :
       \/ \E t \in BOOLEAN : Begin(a, t)
       \/ \E S \in SUBSET Id : Judge(a, S)
       \/ Suspect(a) \/ Pass(a) \/ Fail(a)

Spec == Init /\ [][Next]_vars
=============================================================================
