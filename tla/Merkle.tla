------------------------------- MODULE Merkle -------------------------------
(***************************************************************************)
(* merkle_root of manifest.py, level by level, computed once by the side   *)
(* that builds a manifest and once by the side that audits against it, each *)
(* over the records its own walk yielded.                                  *)
(*                                                                         *)
(* SHA-256 is taken to be free of collisions: a digest is the term that    *)
(* was hashed.  The prefix bytes of leaves and inner nodes make the two    *)
(* kinds of terms different.                                               *)
(***************************************************************************)
EXTENDS Integers, Sequences, FiniteSets

CONSTANTS
  Walk,    \* what a walk may yield: sequences of entries
  Id,      \* record ids, by their place in code-point order
  Hash     \* a pin's vec_hash; "" for a record without a usable pin

Entry == [id : Id, hash : Hash]

MerkleAssumption ==
  /\ Id \subseteq Int
  /\ Walk \subseteq Seq(Entry)

ASSUME MerkleAssumption

Side == {"builder", "auditor"}

VARIABLES
  stage,   \* per side: "idle", "climbing" or "raised"
  walk,    \* the entries handed to merkle_root
  items,   \* `items`: the same, sorted
  levels   \* every value `level` has had; the last is the current one

vars == <<stage, walk, items, levels>>

-----------------------------------------------------------------------------
Leaf(e) == [id |-> e.id, hash |-> e.hash]
Node(l, r) == [left |-> l, right |-> r]
EmptyRoot == [nothing |-> TRUE]

\* sorted(entries, key=id): each entry goes to the place its rank names; entries
\* with the same id keep the walk's order.
InOrderUnsorted(w) == w   \* mutant: the walk's order is kept
Before(w, j) ==
  {k \in DOMAIN w : w[k].id < w[j].id \/ (w[k].id = w[j].id /\ k < j)}
InOrder(w) ==
  [i \in DOMAIN w |-> w[CHOOSE j \in DOMAIN w : Cardinality(Before(w, j)) = i - 1]]

RepeatsNever(s) == FALSE   \* mutant: the ids are not compared
Repeats(s) == \E i \in 2..Len(s) : s[i].id = s[i - 1].id

LeavesOf(s) ==
  IF s = <<>> THEN <<EmptyRoot>> ELSE [i \in 1..Len(s) |-> Leaf(s[i])]

\* Mutant: the last node of an odd level is dropped.
UpDropping(l) == [i \in 1..(Len(l) \div 2) |-> Node(l[2 * i - 1], l[2 * i])]

\* One turn of the loop: neighbours are hashed together, the last node of an
\* odd level with itself.
Up(l) ==
  [i \in 1..((Len(l) + 1) \div 2) |->
     Node(l[2 * i - 1], IF 2 * i > Len(l) THEN l[Len(l)] ELSE l[2 * i])]

Level(s) == levels[s][Len(levels[s])]
HasRoot(s) == stage[s] = "climbing" /\ Len(Level(s)) = 1
Root(s) == Level(s)[1]

-----------------------------------------------------------------------------
Init ==
  /\ stage = [s \in Side |-> "idle"]
  /\ walk = [s \in Side |-> <<>>]
  /\ items = [s \in Side |-> <<>>]
  /\ levels = [s \in Side |-> <<>>]

Start(s, w) ==
  /\ stage[s] = "idle"
  /\ walk' = [walk EXCEPT ![s] = w]
  /\ items' = [items EXCEPT ![s] = InOrder(w)]
  /\ IF Repeats(InOrder(w))
     THEN stage' = [stage EXCEPT ![s] = "raised"] /\ UNCHANGED levels
     ELSE /\ stage' = [stage EXCEPT ![s] = "climbing"]
          /\ levels' = [levels EXCEPT ![s] = <<LeavesOf(InOrder(w))>>]

Climb(s) ==
  /\ stage[s] = "climbing" /\ Len(Level(s)) > 1
  /\ levels' = [levels EXCEPT ![s] = Append(@, Up(Level(s)))]
  /\ UNCHANGED <<stage, walk, items>>

Next == \E s \in Side : Climb(s) \/ \E w \in Walk : Start(s, w)

Spec == Init /\ [][Next]_vars

-----------------------------------------------------------------------------
Records(s) == {walk[s][i] : i \in DOMAIN walk[s]}
BothRoots == HasRoot("builder") /\ HasRoot("auditor")

\* merkle_root keeps halving: a level is never longer than the one below needs,
\* and no level is lost.
TypeOK ==
  /\ stage \in [Side -> {"idle", "climbing", "raised"}]
  /\ walk \in [Side -> Seq(Entry)] /\ items \in [Side -> Seq(Entry)]
  /\ DOMAIN levels = Side
  /\ \A s \in Side : /\ Len(levels[s]) \in Nat
                     /\ stage[s] = "climbing" <=> levels[s] # <<>>
                     /\ \A i \in 1..Len(levels[s]) : Len(levels[s][i]) >= 1
                     /\ \A i \in 2..Len(levels[s]) :
                          2 * Len(levels[s][i]) \in {Len(levels[s][i - 1]), Len(levels[s][i - 1]) + 1}

\* A manifest's root names one collection: the audit's root can only equal it if
\* the very same records, with the very same pins, were walked. Hashing the last
\* node of an odd level with itself gives no two collections the same root, with
\* or without the count that verify_manifest also compares, because repeated ids
\* are refused.
RootNamesTheCollection ==
  BothRoots /\ Root("builder") = Root("auditor")
  => /\ Len(walk["builder"]) = Len(walk["auditor"])
     /\ Records("builder") = Records("auditor")

\* The root does not depend on the order in which a backend yields its records.
OrderIsImmaterial ==
  BothRoots /\ Records("builder") = Records("auditor") => Root("builder") = Root("auditor")
=============================================================================
