---------------------------- MODULE MerkleProofs ----------------------------
(***************************************************************************)
(* Theorems about Merkle, for any ids, hashes and walks of any length: the *)
(* root of a manifest names one collection, in whatever order it is walked. *)
(***************************************************************************)
EXTENDS Merkle, Functions, FiniteSetTheorems, SequenceTheorems, TLAPS

IsSeq(l) == \E S : l \in Seq(S)
Distinct(l) == \A i, j \in 1..Len(l) : l[i] = l[j] => i = j
Ascends(s) == \A i, j \in 1..Len(s) : i < j => s[i].id < s[j].id
Entries(s) == {s[i] : i \in 1..Len(s)}

-----------------------------------------------------------------------------
(* Sequences of digests.                                                   *)

LEMMA IsSeqFacts ==
  ASSUME NEW l, IsSeq(l)
  PROVE  Len(l) \in Nat /\ DOMAIN l = 1..Len(l) /\ l = [i \in 1..Len(l) |-> l[i]]
<1>1. PICK S : l \in Seq(S) BY DEF IsSeq
<1> QED BY <1>1, LenProperties

LEMMA FunctionIsSeq ==
  ASSUME NEW n \in Nat, NEW l, DOMAIN l = 1..n, l = [i \in 1..n |-> l[i]]
  PROVE  IsSeq(l) /\ Len(l) = n
<1> DEFINE S == {l[i] : i \in 1..n}
<1>1. l \in [1..n -> S] OBVIOUS
<1>2. l \in Seq(S) BY <1>1
<1> HIDE DEF S
<1>3. Len(l) \in Nat /\ DOMAIN l = 1..Len(l) BY <1>2, LenProperties
<1>4. 1..n = 1..Len(l) BY <1>3
<1>5. n = Len(l) BY <1>3, <1>4
<1> QED BY <1>2, <1>5 DEF IsSeq

LEMMA AppendFacts ==
  ASSUME NEW l, IsSeq(l), NEW x
  PROVE  /\ IsSeq(Append(l, x)) /\ Len(Append(l, x)) = Len(l) + 1
         /\ \A i \in 1..Len(l) : Append(l, x)[i] = l[i]
         /\ Append(l, x)[Len(l) + 1] = x
<1>1. PICK S : l \in Seq(S) BY DEF IsSeq
<1>2. l \in Seq(S \cup {x}) BY <1>1, LenProperties
<1> QED BY <1>2, AppendProperties DEF IsSeq

LEMMA LeavesFacts ==
  ASSUME NEW s, IsSeq(s)
  PROVE  /\ IsSeq(LeavesOf(s)) /\ Len(LeavesOf(s)) >= 1 
         /\ s # <<>> => /\ Len(LeavesOf(s)) = Len(s)
                        /\ \A i \in 1..Len(s) : LeavesOf(s)[i] = Leaf(s[i])
         /\ s = <<>> => LeavesOf(s) = <<EmptyRoot>>
<1>1. Len(s) \in Nat /\ DOMAIN s = 1..Len(s) BY IsSeqFacts
<1>2. CASE s = <<>>
  <2>1. LeavesOf(s) = <<EmptyRoot>> BY <1>2 DEF LeavesOf
  <2>2. <<EmptyRoot>> \in Seq({EmptyRoot}) /\ Len(<<EmptyRoot>>) = 1 OBVIOUS
  <2>3. IsSeq(<<EmptyRoot>>) BY <2>2 DEF IsSeq
  <2> QED BY <1>2, <2>1, <2>2, <2>3
<1>3. CASE s # <<>>
  <2> DEFINE L == [i \in 1..Len(s) |-> Leaf(s[i])]
  <2>1. LeavesOf(s) = L BY <1>3 DEF LeavesOf
  <2>2. IsSeq(L) /\ Len(L) = Len(s) 
    <3>1. DOMAIN L = 1..Len(s) /\ L = [i \in 1..Len(s) |-> L[i]] OBVIOUS
    <3> HIDE DEF L
    <3> QED BY <1>1, <3>1, FunctionIsSeq
  <2>3. Len(s) >= 1 
    <3>1. PICK S : s \in Seq(S) BY DEF IsSeq
    <3> QED BY <3>1, <1>3, EmptySeq
  <2> QED BY <1>3, <2>1, <2>2, <2>3
<1> QED BY <1>2, <1>3

LEMMA UpFacts ==
  ASSUME NEW l, IsSeq(l)
  PROVE  /\ IsSeq(Up(l)) /\ Len(Up(l)) = (Len(l) + 1) \div 2
         /\ \A i \in 1..((Len(l) + 1) \div 2) :
              Up(l)[i] = Node(l[2 * i - 1], IF 2 * i > Len(l) THEN l[Len(l)] ELSE l[2 * i])
<1>1. Len(l) \in Nat BY IsSeqFacts
<1>2. (Len(l) + 1) \div 2 \in Nat BY <1>1
<1>3. DOMAIN Up(l) = 1..((Len(l) + 1) \div 2)
      /\ Up(l) = [i \in 1..((Len(l) + 1) \div 2) |-> Up(l)[i]] BY DEF Up
<1> QED BY <1>2, <1>3, FunctionIsSeq DEF Up

LEMMA NodeInjective ==
  ASSUME NEW a, NEW b, NEW c, NEW d, Node(a, b) = Node(c, d)
  PROVE  a = c /\ b = d
<1>1. Node(a, b).left = Node(c, d).left /\ Node(a, b).right = Node(c, d).right OBVIOUS
<1> QED BY <1>1 DEF Node

LEMMA KindsDiffer ==
  ASSUME NEW a, NEW b, NEW e
  PROVE  Node(a, b) # Leaf(e) /\ Node(a, b) # EmptyRoot /\ Leaf(e) # EmptyRoot
<1>1. /\ DOMAIN Node(a, b) = {"left", "right"} /\ DOMAIN Leaf(e) = {"id", "hash"}
      /\ DOMAIN EmptyRoot = {"nothing"}
  BY DEF Node, Leaf, EmptyRoot
<1>2. {"left", "right"} # {"id", "hash"} /\ {"left", "right"} # {"nothing"}
      /\ {"id", "hash"} # {"nothing"}
  OBVIOUS
<1> QED BY <1>1, <1>2

\* A level whose nodes all differ has parents that all differ.
LEMMA UpDistinct ==
  ASSUME NEW l, IsSeq(l), Distinct(l)
  PROVE  Distinct(Up(l))
<1> DEFINE n == Len(l)
<1>1. n \in Nat BY IsSeqFacts
<1> SUFFICES ASSUME NEW i \in 1..Len(Up(l)), NEW j \in 1..Len(Up(l)), Up(l)[i] = Up(l)[j]
             PROVE  i = j
  BY DEF Distinct
<1>2. i \in 1..((n + 1) \div 2) /\ j \in 1..((n + 1) \div 2) BY UpFacts
<1>3. l[2 * i - 1] = l[2 * j - 1] BY <1>2, UpFacts, NodeInjective
<1>4. \A k \in 1..((n + 1) \div 2) : 2 * k - 1 \in 1..n BY <1>1
<1>5. 2 * i - 1 = 2 * j - 1 BY <1>2, <1>3, <1>4 DEF Distinct
<1> QED BY <1>2, <1>5

\* One turn of the loop loses nothing: levels whose nodes all differ and whose
\* parents are the same are the same level. Hashing the last node with itself
\* hides no length, because an even level does not end in two equal nodes.
LEMMA UpInjective ==
  ASSUME NEW l, NEW m, IsSeq(l), IsSeq(m), Distinct(l), Distinct(m),
         Len(l) >= 1, Len(m) >= 1, Up(l) = Up(m)
  PROVE  l = m
<1>1. /\ Len(l) \in Nat /\ l = [i \in 1..Len(l) |-> l[i]]
      /\ Len(m) \in Nat /\ m = [i \in 1..Len(m) |-> m[i]]
  BY IsSeqFacts
<1> DEFINE h == (Len(l) + 1) \div 2
           L(i) == Node(l[2 * i - 1], IF 2 * i > Len(l) THEN l[Len(l)] ELSE l[2 * i])
           M(i) == Node(m[2 * i - 1], IF 2 * i > Len(m) THEN m[Len(m)] ELSE m[2 * i])
<1>2. h = (Len(m) + 1) \div 2 /\ Len(Up(l)) = h /\ Len(Up(m)) = h BY UpFacts
<1>3. \A i \in 1..h : L(i) = M(i) BY <1>2, UpFacts
<1>4. h \in Nat /\ h >= 1 /\ Len(l) \in {2 * h - 1, 2 * h} /\ Len(m) \in {2 * h - 1, 2 * h}
  <2>1. \A k \in Nat : k >= 1 => /\ (k + 1) \div 2 \in Nat /\ (k + 1) \div 2 >= 1
                                 /\ k \in {2 * ((k + 1) \div 2) - 1, 2 * ((k + 1) \div 2)}
    <3> TAKE k \in Nat
    <3> HAVE k >= 1
    <3>1. k + 1 = 2 * ((k + 1) \div 2) \/ k + 1 = 2 * ((k + 1) \div 2) + 1 BY SMTT(30)
    <3>2. (k + 1) \div 2 \in Int OBVIOUS
    <3> QED BY <3>1, <3>2
  <2>2. (Len(m) + 1) \div 2 = h BY <1>2
  <2> QED BY <1>1, <2>1, <2>2
<1> HIDE DEF h
<1>5. \A i \in 1..h :
        /\ l[2 * i - 1] = m[2 * i - 1]
        /\ (IF 2 * i > Len(l) THEN l[Len(l)] ELSE l[2 * i])
           = (IF 2 * i > Len(m) THEN m[Len(m)] ELSE m[2 * i])
  BY <1>3, NodeInjective
<1>6. h \in 1..h BY <1>4
<1>7. Len(l) = Len(m)
  <2>1. CASE Len(l) = 2 * h - 1 /\ Len(m) = 2 * h
    <3>1. m[2 * h] = m[2 * h - 1]
      <4>1. ~(2 * h > Len(m)) /\ 2 * h > Len(l) BY <1>4, <2>1
      <4>2. l[Len(l)] = m[2 * h] BY <1>5, <1>6, <4>1
      <4>3. l[Len(l)] = m[2 * h - 1] BY <1>5, <1>6, <2>1
      <4> QED BY <4>2, <4>3
    <3>2. 2 * h \in 1..Len(m) /\ 2 * h - 1 \in 1..Len(m) /\ 2 * h # 2 * h - 1 BY <1>4, <2>1
    <3> QED BY <3>1, <3>2 DEF Distinct
  <2>2. CASE Len(m) = 2 * h - 1 /\ Len(l) = 2 * h
    <3>1. l[2 * h] = l[2 * h - 1]
      <4>1. ~(2 * h > Len(l)) /\ 2 * h > Len(m) BY <1>4, <2>2
      <4>2. m[Len(m)] = l[2 * h] BY <1>5, <1>6, <4>1
      <4>3. m[Len(m)] = l[2 * h - 1] BY <1>5, <1>6, <2>2
      <4> QED BY <4>2, <4>3
    <3>2. 2 * h \in 1..Len(l) /\ 2 * h - 1 \in 1..Len(l) /\ 2 * h # 2 * h - 1 BY <1>4, <2>2
    <3> QED BY <3>1, <3>2 DEF Distinct
  <2> QED BY <1>4, <2>1, <2>2
<1>8. ASSUME NEW j \in 1..Len(l) PROVE l[j] = m[j]
  <2>1. PICK i \in 1..h : j = 2 * i - 1 \/ j = 2 * i
    <3>1. (j + 1) \div 2 \in Int /\ (j + 1 = 2 * ((j + 1) \div 2) \/ j + 1 = 2 * ((j + 1) \div 2) + 1)
      BY SMTT(30)
    <3>2. (j + 1) \div 2 \in 1..h BY <1>1, <1>4, <3>1
    <3>3. j = 2 * ((j + 1) \div 2) - 1 \/ j = 2 * ((j + 1) \div 2) BY <3>1
    <3> QED BY <3>2, <3>3
  <2>2. CASE j = 2 * i - 1 BY <1>5, <2>2
  <2>3. CASE j = 2 * i
    <3>1. ~(2 * i > Len(l)) /\ ~(2 * i > Len(m)) BY <1>1, <1>7, <2>3
    <3> QED BY <1>5, <2>3, <3>1
  <2> QED BY <2>1, <2>2, <2>3
<1>9. [i \in 1..Len(l) |-> l[i]] = [i \in 1..Len(l) |-> m[i]] BY <1>8
<1> QED BY <1>1, <1>7, <1>9

LEMMA LeavesInjective ==
  ASSUME NEW s \in Seq(Entry), NEW t \in Seq(Entry), LeavesOf(s) = LeavesOf(t)
  PROVE  s = t
<1>1. IsSeq(s) /\ IsSeq(t) BY DEF IsSeq
<1>2. /\ Len(s) \in Nat /\ s = [i \in 1..Len(s) |-> s[i]]
      /\ Len(t) \in Nat /\ t = [i \in 1..Len(t) |-> t[i]]
  BY <1>1, IsSeqFacts
<1>3. CASE s = <<>> \/ t = <<>>
  <2>1. ASSUME NEW u \in Seq(Entry), u # <<>> PROVE LeavesOf(u) # <<EmptyRoot>>
    <3>1. IsSeq(u) /\ Len(u) \in Nat \ {0} BY <2>1, EmptySeq DEF IsSeq
    <3>2. LeavesOf(u)[1] = Leaf(u[1]) BY <2>1, <3>1, LeavesFacts
    <3>3. <<EmptyRoot>>[1] = EmptyRoot OBVIOUS
    <3> QED BY <3>2, <3>3, KindsDiffer
  <2>2. LeavesOf(<<>>) = <<EmptyRoot>> BY DEF LeavesOf
  <2> QED BY <1>3, <2>1, <2>2
<1>4. CASE s # <<>> /\ t # <<>>
  <2>1. /\ Len(LeavesOf(s)) = Len(s) /\ \A i \in 1..Len(s) : LeavesOf(s)[i] = Leaf(s[i])
        /\ Len(LeavesOf(t)) = Len(t) /\ \A i \in 1..Len(t) : LeavesOf(t)[i] = Leaf(t[i])
    BY <1>1, <1>4, LeavesFacts
  <2>2. Len(s) = Len(t) BY <2>1
  <2>3. ASSUME NEW i \in 1..Len(s) PROVE s[i] = t[i]
    <3>1. Leaf(s[i]) = Leaf(t[i]) BY <2>1, <2>2
    <3>2. s[i].id = t[i].id /\ s[i].hash = t[i].hash BY <3>1 DEF Leaf
    <3>3. s[i] \in Entry /\ t[i] \in Entry BY <2>2, ElementOfSeq
    <3> QED BY <3>2, <3>3 DEF Entry
  <2>4. [i \in 1..Len(s) |-> s[i]] = [i \in 1..Len(s) |-> t[i]] BY <2>3
  <2> QED BY <1>2, <2>2, <2>4
<1> QED BY <1>3, <1>4

-----------------------------------------------------------------------------
(* Sorting.                                                                *)

LEMMA BeforeIsFinite ==
  ASSUME NEW w \in Seq(Entry), NEW j \in DOMAIN w
  PROVE  /\ Before(w, j) \subseteq 1..Len(w) /\ j \notin Before(w, j)
         /\ IsFiniteSet(Before(w, j))
         /\ Cardinality(Before(w, j)) \in 0..(Len(w) - 1)
<1>1. Len(w) \in Nat /\ DOMAIN w = 1..Len(w) BY LenProperties
<1>2. w[j] \in Entry BY <1>1, ElementOfSeq
<1>3. w[j].id \in Int BY <1>2, MerkleAssumption DEF Entry, MerkleAssumption
<1>4. Before(w, j) \subseteq 1..Len(w) BY <1>1 DEF Before
<1>5. j \notin Before(w, j) BY <1>1, <1>3 DEF Before
<1>6. IsFiniteSet(1..Len(w)) /\ Cardinality(1..Len(w)) = Len(w)
  <2>1. /\ IsFiniteSet(1..Len(w))
        /\ Cardinality(1..Len(w)) = IF 1 > Len(w) THEN 0 ELSE Len(w) - 1 + 1
    BY <1>1, FS_Interval
  <2> QED BY <1>1, <2>1
<1>7. /\ IsFiniteSet(Before(w, j)) /\ Cardinality(Before(w, j)) <= Len(w)
      /\ Cardinality(Before(w, j)) # Len(w)
  BY <1>1, <1>4, <1>5, <1>6, FS_Subset
<1>8. Cardinality(Before(w, j)) \in Nat BY <1>7, FS_CardinalityType
<1> QED BY <1>1, <1>4, <1>5, <1>7, <1>8

\* Of two entries, one goes first.
LEMMA RanksDiffer ==
  ASSUME NEW w \in Seq(Entry), NEW j \in DOMAIN w, NEW k \in DOMAIN w, j # k
  PROVE  Cardinality(Before(w, j)) # Cardinality(Before(w, k))
<1>1. Len(w) \in Nat /\ DOMAIN w = 1..Len(w) BY LenProperties
<1>2. \A i \in DOMAIN w : w[i].id \in Int
  <2> TAKE i \in DOMAIN w
  <2>1. w[i] \in Entry BY <1>1, ElementOfSeq
  <2> QED BY <2>1, MerkleAssumption DEF Entry, MerkleAssumption
<1>3. ASSUME NEW a \in DOMAIN w, NEW b \in DOMAIN w, a \in Before(w, b)
      PROVE  Cardinality(Before(w, a)) # Cardinality(Before(w, b))
  <2>1. Before(w, a) \subseteq Before(w, b) BY <1>1, <1>2, <1>3 DEF Before
  <2>2. a \notin Before(w, a) /\ IsFiniteSet(Before(w, b)) BY BeforeIsFinite
  <2> QED BY <2>1, <2>2, <1>3, FS_Subset
<1>4. j \in Before(w, k) \/ k \in Before(w, j) BY <1>1, <1>2 DEF Before
<1> QED BY <1>3, <1>4

\* Sorting neither loses nor invents an entry.
LEMMA InOrderKeepsEntries ==
  ASSUME NEW w \in Seq(Entry)
  PROVE  /\ InOrder(w) \in Seq(Entry) /\ Len(InOrder(w)) = Len(w)
         /\ {InOrder(w)[i] : i \in DOMAIN InOrder(w)} = {w[i] : i \in DOMAIN w}
         /\ \A i, j \in 1..Len(w) : i < j => InOrder(w)[i].id <= InOrder(w)[j].id
<1> DEFINE n == Len(w)
           rank == [j \in 1..n |-> Cardinality(Before(w, j)) + 1]
           place(i) == CHOOSE j \in DOMAIN w : Cardinality(Before(w, j)) = i - 1
<1>1. n \in Nat /\ DOMAIN w = 1..n BY LenProperties
<1>2. rank \in [1..n -> 1..n]
  <2>1. ASSUME NEW j \in 1..n PROVE Cardinality(Before(w, j)) + 1 \in 1..n
    BY <1>1, BeforeIsFinite
  <2> QED BY <2>1
<1>3. \A j, k \in 1..n : rank[j] = rank[k] => j = k
  <2> TAKE j, k \in 1..n
  <2>1. Cardinality(Before(w, j)) \in Int /\ Cardinality(Before(w, k)) \in Int
    BY <1>1, BeforeIsFinite
  <2> QED BY <2>1, <1>1, RanksDiffer
<1>4. rank \in Injection(1..n, 1..n) BY <1>2, <1>3 DEF Injection, IsInjective
<1>5. IsFiniteSet(1..n) BY <1>1, FS_Interval
<1>6. rank \in Surjection(1..n, 1..n) BY <1>4, <1>5, FS_Injection
<1>7. \A i \in 1..n : \E j \in 1..n : rank[j] = i BY <1>6 DEF Surjection
<1>8. ASSUME NEW i \in 1..n
      PROVE  place(i) \in 1..n /\ Cardinality(Before(w, place(i))) = i - 1
  <2>1. PICK j \in 1..n : rank[j] = i BY <1>7
  <2>2. Cardinality(Before(w, j)) \in Int BY <1>1, BeforeIsFinite
  <2>3. Cardinality(Before(w, j)) = i - 1 BY <2>1, <2>2
  <2> QED BY <1>1, <2>3
<1>9. \A j \in 1..n : place(rank[j]) = j
  <2> TAKE j \in 1..n
  <2>1. rank[j] \in 1..n BY <1>2
  <2>2. place(rank[j]) \in 1..n /\ Cardinality(Before(w, place(rank[j]))) = rank[j] - 1
    BY <2>1, <1>8
  <2>3. Cardinality(Before(w, j)) \in Int BY <1>1, BeforeIsFinite
  <2>4. rank[place(rank[j])] = rank[j] BY <2>1, <2>2, <2>3
  <2> QED BY <2>2, <2>4, <1>3
<1>10. InOrder(w) = [i \in 1..n |-> w[place(i)]] BY <1>1 DEF InOrder
<1> HIDE DEF place, rank
<1>11. InOrder(w) \in [1..n -> Entry]
  <2>1. \A i \in 1..n : w[place(i)] \in Entry BY <1>8, ElementOfSeq
  <2> QED BY <2>1, <1>10
<1>12. InOrder(w) \in Seq(Entry) /\ Len(InOrder(w)) = n
  <2>1. DOMAIN InOrder(w) = 1..n /\ InOrder(w) = [i \in 1..n |-> InOrder(w)[i]] BY <1>11
  <2>2. Len(InOrder(w)) = n BY <1>1, <2>1, FunctionIsSeq
  <2>3. InOrder(w) \in Seq(Entry) BY <1>1, <1>11
  <2> QED BY <2>2, <2>3
<1>13. ASSUME NEW i \in 1..n PROVE InOrder(w)[i] \in {w[j] : j \in 1..n} BY <1>8, <1>10
<1>14. ASSUME NEW j \in 1..n PROVE w[j] \in {InOrder(w)[i] : i \in 1..n}
  <2>1. rank[j] \in 1..n /\ InOrder(w)[rank[j]] = w[j] BY <1>2, <1>9, <1>10
  <2> QED BY <2>1
<1>15. DOMAIN InOrder(w) = 1..n BY <1>11
<1>16. ASSUME NEW i \in 1..n, NEW j \in 1..n, i < j
       PROVE  InOrder(w)[i].id <= InOrder(w)[j].id
  <2> DEFINE a == place(i)
             b == place(j)
  <2>1. /\ a \in 1..n /\ Cardinality(Before(w, a)) = i - 1
        /\ b \in 1..n /\ Cardinality(Before(w, b)) = j - 1
        /\ InOrder(w)[i] = w[a] /\ InOrder(w)[j] = w[b]
    BY <1>8, <1>10
  <2> HIDE DEF a, b
  <2>2. \A k \in 1..n : w[k].id \in Int
    <3> TAKE k \in 1..n
    <3>1. w[k] \in Entry BY ElementOfSeq
    <3> QED BY <3>1, MerkleAssumption DEF Entry, MerkleAssumption
  <2>3. ASSUME w[b].id < w[a].id PROVE FALSE
    <3>1. Before(w, b) \subseteq Before(w, a) BY <1>1, <2>1, <2>2, <2>3 DEF Before
    <3>2. IsFiniteSet(Before(w, a)) BY <1>1, <2>1, BeforeIsFinite
    <3>3. Cardinality(Before(w, b)) <= Cardinality(Before(w, a)) BY <3>1, <3>2, FS_Subset
    <3> QED BY <1>16, <2>1, <3>3
  <2> QED BY <2>1, <2>2, <2>3
<1> QED BY <1>1, <1>12, <1>13, <1>14, <1>15, <1>16


LEMMA IdsAreIntegers ==
  ASSUME NEW s \in Seq(Entry)
  PROVE  \A i \in 1..Len(s) : s[i].id \in Int
<1> TAKE i \in 1..Len(s)
<1>1. s[i] \in Entry BY ElementOfSeq
<1> QED BY <1>1, MerkleAssumption DEF Entry, MerkleAssumption

\* Where no id is repeated, the sorted ids ascend.
LEMMA Ascending ==
  ASSUME NEW w \in Seq(Entry), ~Repeats(InOrder(w))
  PROVE  Ascends(InOrder(w))
<1> DEFINE s == InOrder(w)
<1>1. s \in Seq(Entry) /\ \A i, j \in 1..Len(s) : i < j => s[i].id <= s[j].id
  BY InOrderKeepsEntries
<1>2. \A i \in 2..Len(s) : s[i].id # s[i - 1].id BY DEF Repeats
<1> HIDE DEF s
<1>3. Len(s) \in Nat BY <1>1, LenProperties
<1>4. \A i \in 1..Len(s) : s[i].id \in Int BY <1>1, IdsAreIntegers
<1>5. ASSUME NEW i \in 1..Len(s), NEW j \in 1..Len(s), i < j PROVE s[i].id < s[j].id
  <2>1. j - 1 \in 1..Len(s) /\ j \in 2..Len(s) /\ (i = j - 1 \/ i < j - 1) BY <1>3, <1>5
  <2>2. s[i].id <= s[j - 1].id BY <1>1, <1>4, <2>1
  <2>3. s[j - 1].id <= s[j].id /\ s[j].id # s[j - 1].id BY <1>1, <1>2, <2>1
  <2> QED BY <1>4, <2>1, <2>2, <2>3
<1> QED BY <1>5 DEF Ascends, s

\* Where no id is repeated, all leaves differ.
LEMMA LeavesDistinct ==
  ASSUME NEW w \in Seq(Entry), ~Repeats(InOrder(w))
  PROVE  Distinct(LeavesOf(InOrder(w)))
<1> DEFINE s == InOrder(w)
<1>1. s \in Seq(Entry) /\ \A i, j \in 1..Len(s) : i < j => s[i].id <= s[j].id
  BY InOrderKeepsEntries
<1>2. Ascends(s) BY Ascending
<1> HIDE DEF s
<1>3. Len(s) \in Nat /\ IsSeq(s) BY <1>1, LenProperties DEF IsSeq
<1>4. \A i \in 1..Len(s) : s[i].id \in Int BY <1>1, IdsAreIntegers
<1>5. \A i, j \in 1..Len(s) : i < j => s[i].id < s[j].id BY <1>2 DEF Ascends
<1>6. CASE s = <<>>
  <2>1. LeavesOf(s) = <<EmptyRoot>> /\ Len(<<EmptyRoot>>) = 1 BY <1>6 DEF LeavesOf
  <2> QED BY <2>1 DEF Distinct, s
<1>7. CASE s # <<>>
  <2>1. /\ Len(LeavesOf(s)) = Len(s)
        /\ \A i \in 1..Len(s) : LeavesOf(s)[i] = Leaf(s[i])
    BY <1>3, <1>7, LeavesFacts
  <2>2. ASSUME NEW i \in 1..Len(s), NEW j \in 1..Len(s), LeavesOf(s)[i] = LeavesOf(s)[j]
        PROVE  i = j
    <3>3. Leaf(s[i]) = Leaf(s[j]) BY <2>1, <2>2
    <3>1. s[i].id = s[j].id BY <3>3 DEF Leaf
    <3>2. ~(i < j) /\ ~(j < i) BY <1>4, <1>5, <3>1
    <3> QED BY <3>2
  <2> QED BY <2>1, <2>2 DEF Distinct, s
<1> QED BY <1>6, <1>7

\* An entry's place is how many entries have a smaller id.
LEMMA PlaceIsRank ==
  ASSUME NEW s \in Seq(Entry), Ascends(s), NEW i \in 1..Len(s)
  PROVE  Cardinality({e \in Entries(s) : e.id < s[i].id}) = i - 1
<1> DEFINE T == {e \in Entries(s) : e.id < s[i].id}
           f == [k \in 1..(i - 1) |-> s[k]]
<1>1. Len(s) \in Nat /\ \A k \in 1..Len(s) : s[k].id \in Int BY LenProperties, IdsAreIntegers
<1>2. \A k \in 1..(i - 1) : k \in 1..Len(s) /\ k < i BY <1>1
<1>3. f \in [1..(i - 1) -> T] BY <1>2 DEF Entries, Ascends
<1>4. ASSUME NEW j \in 1..(i - 1), NEW k \in 1..(i - 1), f[j] = f[k] PROVE j = k
  <2>1. s[j].id = s[k].id BY <1>4
  <2>2. ~(j < k) /\ ~(k < j) BY <1>1, <1>2, <2>1 DEF Ascends
  <2> QED BY <2>2
<1>5. ASSUME NEW e \in T PROVE \E k \in 1..(i - 1) : f[k] = e
  <2>1. PICK k \in 1..Len(s) : e = s[k] BY DEF Entries
  <2>2. s[k].id < s[i].id BY <2>1
  <2>3. ~(i < k) /\ i # k BY <1>1, <2>2 DEF Ascends
  <2>4. k \in 1..(i - 1) BY <1>1, <2>3
  <2> QED BY <2>1, <2>4
<1> HIDE DEF f, T
<1>6. f \in Bijection(1..(i - 1), T)
  BY <1>3, <1>4, <1>5 DEF Bijection, Injection, Surjection, IsInjective
<1>7. IsFiniteSet(1..(i - 1)) /\ Cardinality(1..(i - 1)) = i - 1
  <2>1. 1 \in Int /\ i - 1 \in Int BY <1>1
  <2>2. /\ IsFiniteSet(1..(i - 1))
        /\ Cardinality(1..(i - 1)) = IF 1 > i - 1 THEN 0 ELSE (i - 1) - 1 + 1
    BY <2>1, FS_Interval
  <2> QED BY <1>1, <2>2
<1>8. Cardinality(T) = i - 1 BY <1>6, <1>7, FS_Bijection DEF ExistsBijection
<1> QED BY <1>8 DEF T

\* Two sequences of the same entries, with ascending ids, are one sequence.
LEMMA SameOrder ==
  ASSUME NEW s \in Seq(Entry), NEW t \in Seq(Entry), Ascends(s), Ascends(t),
         Entries(s) = Entries(t)
  PROVE  s = t
<1>1. ASSUME NEW u \in Seq(Entry), NEW v \in Seq(Entry), Ascends(u), Ascends(v),
             Entries(u) = Entries(v), NEW i \in 1..Len(u)
      PROVE  i \in 1..Len(v) /\ u[i] = v[i]
  <2>1. PICK j \in 1..Len(v) : v[j] = u[i] BY <1>1 DEF Entries
  <2>2. /\ Cardinality({e \in Entries(u) : e.id < u[i].id}) = i - 1
        /\ Cardinality({e \in Entries(v) : e.id < v[j].id}) = j - 1
    BY <1>1, PlaceIsRank
  <2>3. i - 1 = j - 1 BY <1>1, <2>1, <2>2
  <2>4. i = j BY <2>3
  <2> QED BY <2>1, <2>4
<1>2. /\ Len(s) \in Nat /\ s = [i \in 1..Len(s) |-> s[i]]
      /\ Len(t) \in Nat /\ t = [i \in 1..Len(t) |-> t[i]]
  BY IsSeqFacts DEF IsSeq
<1>3. \A i \in 1..Len(s) : i \in 1..Len(t) /\ s[i] = t[i] BY <1>1
<1>4. \A i \in 1..Len(t) : i \in 1..Len(s) BY <1>1
<1>5. Len(s) = Len(t) BY <1>2, <1>3, <1>4
<1>6. [i \in 1..Len(s) |-> s[i]] = [i \in 1..Len(s) |-> t[i]] BY <1>3
<1> QED BY <1>2, <1>5, <1>6

-----------------------------------------------------------------------------
(* The invariant: what each side has climbed is the tree of its own sorted *)
(* walk, no level has two equal nodes, two trees with equal first nodes    *)
(* are at the same height there, and a level on which they agree is a      *)
(* level under which they agree everywhere.                                *)

Climbed(s) ==
  /\ items[s] = InOrder(walk[s])
  /\ IsSeq(levels[s]) /\ Len(levels[s]) >= 1
  /\ levels[s][1] = LeavesOf(items[s])
  /\ \A i \in 1..Len(levels[s]) :
       IsSeq(levels[s][i]) /\ Len(levels[s][i]) >= 1 /\ Distinct(levels[s][i])
  /\ \A i \in 1..(Len(levels[s]) - 1) : levels[s][i + 1] = Up(levels[s][i])

Agree(s, t, i, j) ==
  /\ levels[s][i][1] = levels[t][j][1] => i = j
  /\ levels[s][i] = levels[t][j] => items[s] = items[t]

InStep ==
  \A s, t \in Side :
     stage[s] = "climbing" /\ stage[t] = "climbing"
     => \A i \in 1..Len(levels[s]), j \in 1..Len(levels[t]) : Agree(s, t, i, j)

IInv ==
  /\ stage \in [Side -> {"idle", "climbing", "raised"}]
  /\ walk \in [Side -> Seq(Entry)] /\ items \in [Side -> Seq(Entry)]
  /\ DOMAIN levels = Side
  /\ \A s \in Side : IF stage[s] = "climbing" THEN Climbed(s) ELSE levels[s] = <<>>
  /\ InStep

LEMMA InitInvariant == Init => IInv
<1> SUFFICES ASSUME Init PROVE IInv OBVIOUS
<1>1. <<>> \in Seq(Entry) BY EmptySeq
<1> QED BY <1>1 DEF Init, IInv, InStep

\* The first node of a tree's leaves is none of its inner nodes.
LEMMA FirstLeaf ==
  ASSUME NEW s, IsSeq(s), NEW l, IsSeq(l), Len(l) >= 1
  PROVE  LeavesOf(s)[1] # Up(l)[1]
<1>1. Len(l) \in Nat BY IsSeqFacts
<1>2. \A k \in Nat : k >= 1 => 1 \in 1..((k + 1) \div 2)
  <2> TAKE k \in Nat
  <2> HAVE k >= 1
  <2>1. (k + 1) \div 2 >= 1 /\ (k + 1) \div 2 \in Int OBVIOUS
  <2> QED BY <2>1
<1>3. \E a, b : Up(l)[1] = Node(a, b)
  <2>1. 1 \in 1..((Len(l) + 1) \div 2) BY <1>1, <1>2
  <2>2. Up(l)[1] = Node(l[2 * 1 - 1], IF 2 * 1 > Len(l) THEN l[Len(l)] ELSE l[2 * 1])
    BY <2>1, UpFacts
  <2> QED BY <2>2
<1>4. CASE s = <<>>
  <2>1. LeavesOf(s)[1] = EmptyRoot BY <1>4, LeavesFacts
  <2> QED BY <1>3, <2>1, KindsDiffer
<1>5. CASE s # <<>>
  <2>1. Len(s) \in Nat \ {0}
    <3>1. PICK S : s \in Seq(S) BY DEF IsSeq
    <3> QED BY <3>1, <1>5, EmptySeq
  <2>2. LeavesOf(s)[1] = Leaf(s[1]) BY <1>5, <2>1, LeavesFacts
  <2> QED BY <1>3, <2>2, KindsDiffer
<1> QED BY <1>4, <1>5

\* First nodes tell first nodes below them.
LEMMA FirstUp ==
  ASSUME NEW l, NEW m, IsSeq(l), IsSeq(m), Len(l) >= 1, Len(m) >= 1, Up(l)[1] = Up(m)[1]
  PROVE  l[1] = m[1]
<1>1. Len(l) \in Nat /\ Len(m) \in Nat BY IsSeqFacts
<1>2. \A k \in Nat : k >= 1 => 1 \in 1..((k + 1) \div 2)
  <2> TAKE k \in Nat
  <2> HAVE k >= 1
  <2>1. (k + 1) \div 2 >= 1 /\ (k + 1) \div 2 \in Int OBVIOUS
  <2> QED BY <2>1
<1>3. ASSUME NEW k, IsSeq(k), Len(k) \in Nat, Len(k) >= 1
      PROVE  \E a : Up(k)[1] = Node(k[1], a)
  <2>1. 1 \in 1..((Len(k) + 1) \div 2) BY <1>2, <1>3
  <2>2. Up(k)[1] = Node(k[2 * 1 - 1], IF 2 * 1 > Len(k) THEN k[Len(k)] ELSE k[2 * 1])
    BY <1>3, <2>1, UpFacts
  <2>3. 2 * 1 - 1 = 1 OBVIOUS
  <2> QED BY <2>2, <2>3
<1> QED BY <1>1, <1>3, NodeInjective

LEMMA StartPreserves ==
  ASSUME IInv, NEW s \in Side, NEW w \in Walk, Start(s, w)
  PROVE  IInv'
<1>1. w \in Seq(Entry) BY MerkleAssumption DEF MerkleAssumption
<1>2. InOrder(w) \in Seq(Entry) BY <1>1, InOrderKeepsEntries
<1> DEFINE L == LeavesOf(InOrder(w))
<1>3. IsSeq(InOrder(w)) BY <1>2 DEF IsSeq
<1>4. IsSeq(L) /\ Len(L) >= 1 BY <1>3, LeavesFacts
<1>5. IsSeq(<<L>>) /\ Len(<<L>>) = 1 /\ <<L>>[1] = L
  <2>1. <<L>> \in Seq({L}) /\ Len(<<L>>) = 1 OBVIOUS
  <2> QED BY <2>1 DEF IsSeq
<1> HIDE DEF L
<1>6. /\ stage' \in [Side -> {"idle", "climbing", "raised"}]
      /\ walk' \in [Side -> Seq(Entry)] /\ items' \in [Side -> Seq(Entry)]
      /\ DOMAIN levels' = Side
  BY <1>1, <1>2 DEF IInv, Start
<1>7. ASSUME NEW t \in Side, t # s
      PROVE  /\ stage'[t] = stage[t] /\ walk'[t] = walk[t] /\ items'[t] = items[t]
             /\ levels'[t] = levels[t]
  BY <1>7 DEF IInv, Start
<1>8. walk'[s] = w /\ items'[s] = InOrder(w) BY DEF IInv, Start
<1>9. ASSUME NEW t \in Side, NEW u \in Side, t # s, u # s,
             stage'[t] = "climbing", stage'[u] = "climbing"
      PROVE  \A i \in 1..Len(levels'[t]), j \in 1..Len(levels'[u]) : Agree(t, u, i, j)'
  <2>1. /\ stage[t] = "climbing" /\ stage[u] = "climbing"
        /\ levels'[t] = levels[t] /\ levels'[u] = levels[u]
        /\ items'[t] = items[t] /\ items'[u] = items[u]
    BY <1>7, <1>9
  <2>2. \A i \in 1..Len(levels[t]), j \in 1..Len(levels[u]) : Agree(t, u, i, j)
    BY <2>1 DEF IInv, InStep
  <2> QED BY <2>1, <2>2 DEF Agree
<1>10. ASSUME NEW t \in Side, t # s
       PROVE  IF stage'[t] = "climbing" THEN Climbed(t)' ELSE levels'[t] = <<>>
  <2>1. IF stage[t] = "climbing" THEN Climbed(t) ELSE levels[t] = <<>> BY DEF IInv
  <2> QED BY <1>7, <1>10, <2>1 DEF Climbed
<1>11. CASE Repeats(InOrder(w))
  <2>1. stage'[s] = "raised" /\ levels' = levels /\ levels[s] = <<>> BY <1>11 DEF IInv, Start
  <2>2. \A t \in Side : IF stage'[t] = "climbing" THEN Climbed(t)' ELSE levels'[t] = <<>>
    <3> TAKE t \in Side
    <3>1. CASE t = s BY <2>1, <3>1
    <3>2. CASE t # s BY <1>10, <3>2
    <3> QED BY <3>1, <3>2
  <2>3. InStep'
    <3> SUFFICES ASSUME NEW t \in Side, NEW u \in Side,
                        stage'[t] = "climbing", stage'[u] = "climbing"
                 PROVE  \A i \in 1..Len(levels'[t]), j \in 1..Len(levels'[u]) :
                          Agree(t, u, i, j)'
      BY DEF InStep
    <3>1. t # s /\ u # s BY <2>1
    <3> QED BY <3>1, <1>9
  <2> QED BY <1>6, <2>2, <2>3 DEF IInv
<1>12. CASE ~Repeats(InOrder(w))
  <2>1. stage'[s] = "climbing" /\ levels'[s] = <<L>> BY <1>12 DEF IInv, Start, L
  <2>2. Distinct(L) BY <1>1, <1>12, LeavesDistinct DEF L
  <2>3. Climbed(s)'
    <3>1. 1..Len(<<L>>) = {1} /\ 1..(Len(<<L>>) - 1) = {} BY <1>5
    <3> QED BY <1>4, <1>5, <1>8, <2>1, <2>2, <3>1 DEF Climbed, L
  <2>4. \A t \in Side : IF stage'[t] = "climbing" THEN Climbed(t)' ELSE levels'[t] = <<>>
    <3> TAKE t \in Side
    <3>1. CASE t = s BY <2>1, <2>3, <3>1
    <3>2. CASE t # s BY <1>10, <3>2
    <3> QED BY <3>1, <3>2
  <2>5. \A i \in 1..Len(levels'[s]) : i = 1 BY <1>5, <2>1
  \* The new leaves against every level there is.
  <2>6. ASSUME NEW t \in Side, stage'[t] = "climbing", NEW j \in 1..Len(levels'[t])
        PROVE  /\ L[1] = levels'[t][j][1] => j = 1
               /\ L = levels'[t][j] => items'[s] = items'[t]
    <3>1. /\ Climbed(t)' /\ IsSeq(levels'[t]) /\ items'[t] \in Seq(Entry)
          /\ levels'[t][1] = LeavesOf(items'[t])
      BY <1>6, <2>4, <2>6 DEF Climbed
    <3>2. Len(levels'[t]) \in Nat BY <3>1, IsSeqFacts
    <3>3. CASE j = 1
      <4>1. L = levels'[t][1] => InOrder(w) = items'[t]
        BY <1>2, <3>1, LeavesInjective DEF L
      <4> QED BY <1>8, <3>3, <4>1
    <3>4. CASE j # 1
      <4>1. j - 1 \in 1..(Len(levels'[t]) - 1) /\ j - 1 \in 1..Len(levels'[t])
            /\ (j - 1) + 1 = j
        BY <3>2, <3>4
      <4>2. levels'[t][j] = Up(levels'[t][j - 1]) BY <3>1, <4>1 DEF Climbed
      <4>3. IsSeq(levels'[t][j - 1]) /\ Len(levels'[t][j - 1]) >= 1 BY <3>1, <4>1 DEF Climbed
      <4>4. L[1] # levels'[t][j][1] BY <1>3, <4>2, <4>3, FirstLeaf DEF L
      <4> QED BY <4>4
    <3> QED BY <3>3, <3>4
  <2>7. InStep'
    <3> SUFFICES ASSUME NEW t \in Side, NEW u \in Side,
                        stage'[t] = "climbing", stage'[u] = "climbing",
                        NEW i \in 1..Len(levels'[t]), NEW j \in 1..Len(levels'[u])
                 PROVE  Agree(t, u, i, j)'
      BY DEF InStep
    <3>1. CASE t = s
      <4>1. i = 1 /\ levels'[t][i] = L BY <1>5, <2>1, <2>5, <3>1
      <4> QED BY <2>6, <3>1, <4>1 DEF Agree
    <3>2. CASE u = s
      <4>1. j = 1 /\ levels'[u][j] = L BY <1>5, <2>1, <2>5, <3>2
      <4> QED BY <2>6, <3>2, <4>1 DEF Agree
    <3>3. CASE t # s /\ u # s BY <1>9, <3>3
    <3> QED BY <3>1, <3>2, <3>3
  <2> QED BY <1>6, <2>4, <2>7 DEF IInv
<1> QED BY <1>11, <1>12

LEMMA ClimbPreserves ==
  ASSUME IInv, NEW s \in Side, Climb(s)
  PROVE  IInv'
<1> DEFINE n == Len(levels[s])
           l == levels[s][n]
<1>1. /\ stage' = stage /\ walk' = walk /\ items' = items
      /\ DOMAIN levels' = Side
      /\ levels'[s] = Append(levels[s], Up(l))
      /\ \A t \in Side : t # s => levels'[t] = levels[t]
      /\ stage[s] = "climbing"
  BY DEF IInv, Climb, Level
<1>2. Climbed(s) BY <1>1 DEF IInv
<1>3. n \in Nat /\ n >= 1 /\ IsSeq(levels[s]) /\ IsSeq(l) /\ Len(l) >= 1 /\ Distinct(l)
  <2>1. n \in Nat /\ n >= 1 /\ IsSeq(levels[s]) BY <1>2, IsSeqFacts DEF Climbed
  <2>2. n \in 1..n BY <2>1
  <2> QED BY <1>2, <2>1, <2>2 DEF Climbed
<1>4. /\ IsSeq(levels'[s]) /\ Len(levels'[s]) = n + 1
      /\ \A i \in 1..n : levels'[s][i] = levels[s][i]
      /\ levels'[s][n + 1] = Up(l)
  BY <1>1, <1>3, AppendFacts
<1>5. IsSeq(Up(l)) /\ Len(Up(l)) >= 1 /\ Distinct(Up(l))
  <2>1. IsSeq(Up(l)) /\ Len(Up(l)) = (Len(l) + 1) \div 2 BY <1>3, UpFacts
  <2>2. Len(l) \in Nat /\ Len(l) >= 1 BY <1>3, IsSeqFacts
  <2>3. \A k \in Nat : k >= 1 => (k + 1) \div 2 >= 1 OBVIOUS
  <2>4. (Len(l) + 1) \div 2 >= 1 BY <2>2, <2>3
  <2> QED BY <1>3, <2>1, <2>4, UpDistinct
<1>6. Climbed(s)'
  <2>1. items'[s] = InOrder(walk'[s]) BY <1>1, <1>2 DEF Climbed
  <2>2. levels'[s][1] = LeavesOf(items'[s]) BY <1>1, <1>2, <1>3, <1>4 DEF Climbed
  <2>3. ASSUME NEW i \in 1..(n + 1)
        PROVE  /\ IsSeq(levels'[s][i]) /\ Len(levels'[s][i]) >= 1
               /\ Distinct(levels'[s][i])
    <3>1. CASE i = n + 1 BY <1>4, <1>5, <3>1
    <3>2. CASE i # n + 1
      <4>1. i \in 1..n BY <1>3, <3>2
      <4> QED BY <1>2, <1>4, <4>1 DEF Climbed
    <3> QED BY <3>1, <3>2
  <2>4. ASSUME NEW i \in 1..n PROVE levels'[s][i + 1] = Up(levels'[s][i])
    <3>1. CASE i = n BY <1>1, <1>4, <3>1
    <3>2. CASE i # n
      <4>1. i \in 1..(n - 1) /\ i + 1 \in 1..n BY <1>3, <3>2
      <4> QED BY <1>2, <1>4, <4>1 DEF Climbed
    <3> QED BY <3>1, <3>2
  <2>5. (n + 1) - 1 = n /\ n + 1 >= 1 BY <1>3
  <2> QED BY <1>4, <2>1, <2>2, <2>3, <2>4, <2>5 DEF Climbed
<1>7. \A t \in Side : IF stage'[t] = "climbing" THEN Climbed(t)' ELSE levels'[t] = <<>>
  BY <1>1, <1>6 DEF IInv, Climbed
<1>8. ASSUME NEW t \in Side, NEW u \in Side, stage[t] = "climbing", stage[u] = "climbing",
             NEW i \in 1..Len(levels[t]), NEW j \in 1..Len(levels[u])
      PROVE  /\ Agree(t, u, i, j) /\ levels'[t][i] = levels[t][i]
             /\ levels'[u][j] = levels[u][j] /\ Agree(t, u, i, j)'
  <2>1. Agree(t, u, i, j) BY <1>8 DEF IInv, InStep
  <2>2. levels'[t][i] = levels[t][i] /\ levels'[u][j] = levels[u][j] BY <1>1, <1>4
  <2> QED BY <1>1, <2>1, <2>2 DEF Agree
\* The new level against every level there is.
<1>9. ASSUME NEW t \in Side, stage[t] = "climbing", NEW j \in 1..Len(levels'[t]),
             t # s \/ j # n + 1
      PROVE  /\ Up(l)[1] = levels'[t][j][1] => n + 1 = j
             /\ Up(l) = levels'[t][j] => items[s] = items[t]
  <2>1. Climbed(t)' /\ Climbed(t) BY <1>1, <1>7, <1>9 DEF IInv
  <2>2. Len(levels[t]) \in Nat /\ Len(levels'[t]) \in Nat BY <2>1, IsSeqFacts DEF Climbed
  <2>3. j \in 1..Len(levels[t]) /\ levels'[t][j] = levels[t][j] /\ Len(levels[t]) >= 1
    <3>1. CASE t = s BY <1>3, <1>4, <1>9, <3>1
    <3>2. CASE t # s
      <4>1. levels'[t] = levels[t] BY <1>1, <3>2
      <4> QED BY <1>9, <2>1, <4>1 DEF Climbed
    <3> QED BY <3>1, <3>2
  <2>4. CASE j = 1
    <3>1. items[t] \in Seq(Entry) /\ levels[t][1] = LeavesOf(items[t]) BY <2>1 DEF IInv, Climbed
    <3>2. IsSeq(items[t]) BY <3>1 DEF IsSeq
    <3>3. levels'[t][j][1] # Up(l)[1] BY <1>3, <2>3, <2>4, <3>1, <3>2, FirstLeaf
    <3> QED BY <3>3
  <2>5. CASE j # 1
    <3>1. j - 1 \in 1..Len(levels[t]) /\ j - 1 \in 1..(Len(levels[t]) - 1) /\ (j - 1) + 1 = j
      BY <2>2, <2>3, <2>5
    <3> DEFINE m == levels[t][j - 1]
    <3>2. levels'[t][j] = Up(m) BY <2>1, <2>3, <3>1 DEF Climbed
    <3>3. IsSeq(m) /\ Len(m) >= 1 /\ Distinct(m) BY <2>1, <3>1 DEF Climbed
    <3>4. n \in 1..Len(levels[s]) BY <1>3
    <3>5. Agree(s, t, n, j - 1) BY <1>1, <1>8, <1>9, <3>1, <3>4
    <3>6. (l[1] = m[1] => n = j - 1) /\ (l = m => items[s] = items[t]) BY <3>5 DEF Agree
    <3> HIDE DEF m, l
    <3>7. Up(l)[1] = Up(m)[1] => l[1] = m[1] BY <1>3, <3>3, FirstUp
    <3>8. Up(l) = Up(m) => l = m BY <1>3, <3>3, UpInjective
    <3> QED BY <1>3, <3>1, <3>2, <3>6, <3>7, <3>8
  <2> QED BY <2>4, <2>5
<1>10. ASSUME NEW t \in Side, NEW u \in Side, stage[t] = "climbing", stage[u] = "climbing",
              NEW i \in 1..Len(levels'[t]), NEW j \in 1..Len(levels'[u])
       PROVE  Agree(t, u, i, j)'
  <2>1. /\ t = s => Len(levels'[t]) = n + 1 
        /\ t # s => Len(levels'[t]) = Len(levels[t])
        /\ u = s => Len(levels'[u]) = n + 1
        /\ u # s => Len(levels'[u]) = Len(levels[u])
    BY <1>1, <1>4
  <2>2. CASE t = s /\ i = n + 1 /\ u = s /\ j = n + 1 BY <2>2 DEF Agree
  <2>3. CASE t = s /\ i = n + 1 /\ ~(u = s /\ j = n + 1)
    <3>1. levels'[t][i] = Up(l) BY <1>4, <2>3
    <3>2. u # s \/ j # n + 1 BY <2>3
    <3> HIDE DEF n, l
    <3>3. /\ Up(l)[1] = levels'[u][j][1] => n + 1 = j
          /\ Up(l) = levels'[u][j] => items[s] = items[u]
      BY <1>9, <1>10, <3>2
    <3> QED BY <1>1, <2>3, <3>1, <3>3 DEF Agree
  <2>4. CASE u = s /\ j = n + 1 /\ ~(t = s /\ i = n + 1)
    <3>1. levels'[u][j] = Up(l) BY <1>4, <2>4
    <3>2. t # s \/ i # n + 1 BY <2>4
    <3> HIDE DEF n, l
    <3>3. /\ Up(l)[1] = levels'[t][i][1] => n + 1 = i
          /\ Up(l) = levels'[t][i] => items[s] = items[t]
      BY <1>9, <1>10, <3>2
    <3> QED BY <1>1, <2>4, <3>1, <3>3 DEF Agree
  <2>5. CASE ~(t = s /\ i = n + 1) /\ ~(u = s /\ j = n + 1)
    <3>1. i \in 1..Len(levels[t]) BY <1>3, <2>1, <2>5
    <3>2. j \in 1..Len(levels[u]) BY <1>3, <2>1, <2>5
    <3> QED BY <1>8, <1>10, <3>1, <3>2
  <2> QED BY <2>2, <2>3, <2>4, <2>5
<1>11. InStep' BY <1>1, <1>10 DEF InStep
<1>12. walk' \in [Side -> Seq(Entry)] /\ items' \in [Side -> Seq(Entry)]
       /\ stage' \in [Side -> {"idle", "climbing", "raised"}]
  BY <1>1 DEF IInv
<1> QED BY <1>1, <1>7, <1>11, <1>12 DEF IInv

LEMMA StepInvariant == IInv /\ [Next]_vars => IInv'
<1> SUFFICES ASSUME IInv, [Next]_vars PROVE IInv' OBVIOUS
<1>1. CASE Next
  <2>1. CASE \E s \in Side : Climb(s) BY <2>1, ClimbPreserves
  <2>2. CASE \E s \in Side, w \in Walk : Start(s, w) BY <2>2, StartPreserves
  <2> QED BY <1>1, <2>1, <2>2 DEF Next
<1>2. CASE UNCHANGED vars
  BY <1>2 DEF vars, IInv, Climbed, InStep, Agree
<1> QED BY <1>1, <1>2

THEOREM Invariant == Spec => []IInv
BY InitInvariant, StepInvariant, PTL DEF Spec

-----------------------------------------------------------------------------
\* Types, and each level has half the nodes of the one below, rounded up.
THEOREM TypeCorrect == Spec => []TypeOK
<1>1. IInv => TypeOK
  <2> SUFFICES ASSUME IInv PROVE TypeOK OBVIOUS
  <2>1. ASSUME NEW s \in Side, stage[s] = "climbing"
        PROVE  /\ Len(levels[s]) \in Nat /\ levels[s] # <<>>
               /\ \A i \in 1..Len(levels[s]) : Len(levels[s][i]) >= 1
               /\ \A i \in 2..Len(levels[s]) :
                    2 * Len(levels[s][i]) \in {Len(levels[s][i - 1]), Len(levels[s][i - 1]) + 1}
    <3>1. Climbed(s) BY <2>1 DEF IInv
    <3>2. Len(levels[s]) \in Nat /\ levels[s] # <<>>
      <4>1. Len(levels[s]) \in Nat /\ Len(levels[s]) >= 1 BY <3>1, IsSeqFacts DEF Climbed
      <4> QED BY <4>1, EmptySeq
    <3>3. ASSUME NEW i \in 2..Len(levels[s])
          PROVE  2 * Len(levels[s][i]) \in {Len(levels[s][i - 1]), Len(levels[s][i - 1]) + 1}
      <4>1. i - 1 \in 1..(Len(levels[s]) - 1) /\ i - 1 \in 1..Len(levels[s]) /\ (i - 1) + 1 = i
        BY <3>2
      <4>2. levels[s][i] = Up(levels[s][i - 1]) /\ IsSeq(levels[s][i - 1])
        BY <3>1, <4>1 DEF Climbed
      <4>3. /\ Len(levels[s][i - 1]) \in Nat
            /\ Len(levels[s][i]) = (Len(levels[s][i - 1]) + 1) \div 2
        BY <4>2, IsSeqFacts, UpFacts
      <4>4. \A k \in Nat : 2 * ((k + 1) \div 2) \in {k, k + 1} BY SMTT(30)
      <4> QED BY <4>3, <4>4
    <3> QED BY <3>1, <3>2, <3>3 DEF Climbed
  <2>2. ASSUME NEW s \in Side, stage[s] # "climbing"
        PROVE  levels[s] = <<>> /\ Len(levels[s]) = 0
    BY <2>2, EmptySeq DEF IInv
  <2>3. ASSUME NEW s \in Side
        PROVE  /\ Len(levels[s]) \in Nat
               /\ stage[s] = "climbing" <=> levels[s] # <<>>
               /\ \A i \in 1..Len(levels[s]) : Len(levels[s][i]) >= 1
               /\ \A i \in 2..Len(levels[s]) :
                    2 * Len(levels[s][i]) \in {Len(levels[s][i - 1]), Len(levels[s][i - 1]) + 1}
    <3>1. CASE stage[s] = "climbing" BY <2>1, <3>1
    <3>2. CASE stage[s] # "climbing"
      <4>1. levels[s] = <<>> /\ Len(levels[s]) = 0 BY <2>2, <3>2
      <4>2. 1..0 = {} /\ 2..0 = {} OBVIOUS
      <4> QED BY <3>2, <4>1, <4>2
    <3> QED BY <3>1, <3>2
  <2> QED BY <2>3 DEF IInv, TypeOK
<1> QED BY <1>1, Invariant, PTL

\* Equal roots, equal collections -- whatever the walks' lengths and orders.
THEOREM RootNamesOneCollection == Spec => []RootNamesTheCollection
<1>1. IInv => RootNamesTheCollection
  <2> SUFFICES ASSUME IInv, BothRoots, Root("builder") = Root("auditor")
               PROVE  /\ Len(walk["builder"]) = Len(walk["auditor"])
                      /\ Records("builder") = Records("auditor")
    BY DEF RootNamesTheCollection
  <2> DEFINE b == "builder"
             a == "auditor"
  <2>1. ASSUME NEW s \in Side, HasRoot(s)
        PROVE  /\ Climbed(s) /\ Len(levels[s]) \in 1..Len(levels[s])
               /\ Level(s) = <<Root(s)>> /\ walk[s] \in Seq(Entry)
    <3>1. Climbed(s) /\ walk[s] \in Seq(Entry) BY <2>1 DEF IInv, HasRoot
    <3>2. Len(levels[s]) \in 1..Len(levels[s])
      <4>1. Len(levels[s]) \in Nat /\ Len(levels[s]) >= 1 BY <3>1, IsSeqFacts DEF Climbed
      <4> QED BY <4>1
    <3>3. IsSeq(Level(s)) /\ Len(Level(s)) = 1 BY <2>1, <3>1, <3>2 DEF Climbed, Level, HasRoot
    <3>4. Level(s) = [i \in 1..1 |-> Level(s)[i]] BY <3>3, IsSeqFacts
    <3>5. [i \in 1..1 |-> Level(s)[i]] = <<Level(s)[1]>> OBVIOUS
    <3> QED BY <3>1, <3>2, <3>4, <3>5 DEF Root
  <2>2. HasRoot(b) /\ HasRoot(a) /\ b \in Side /\ a \in Side BY DEF BothRoots, Side
  <2>3. Level(b) = Level(a) BY <2>1, <2>2
  <2>4. Agree(b, a, Len(levels[b]), Len(levels[a])) BY <2>1, <2>2 DEF IInv, InStep, HasRoot
  <2>5. items[b] = items[a] BY <2>3, <2>4 DEF Agree, Level
  <2>6. InOrder(walk[b]) = InOrder(walk[a]) BY <2>1, <2>2, <2>5 DEF Climbed
  <2>7. walk[b] \in Seq(Entry) /\ walk[a] \in Seq(Entry) BY <2>1, <2>2
  <2>8. Len(walk[b]) = Len(walk[a]) BY <2>6, <2>7, InOrderKeepsEntries
  <2>9. ASSUME NEW s \in {a, b}
        PROVE  Records(s) = {InOrder(walk[s])[i] : i \in DOMAIN InOrder(walk[s])}
    BY <2>7, InOrderKeepsEntries DEF Records
  <2>10. Records(b) = Records(a) BY <2>6, <2>9
  <2> QED BY <2>8, <2>10
<1> QED BY <1>1, Invariant, PTL

-----------------------------------------------------------------------------
(* The other way round: trees of one sorted walk agree at every height that  *)
(* both have, and a level that has one above it is no root.                  *)

Stacked(s) ==
  /\ ~Repeats(items[s])
  /\ \A i \in 1..(Len(levels[s]) - 1) : Len(levels[s][i]) > 1

Lockstep ==
  /\ \A s \in Side : stage[s] = "climbing" => Stacked(s)
  /\ \A s, t \in Side :
       stage[s] = "climbing" /\ stage[t] = "climbing" /\ items[s] = items[t]
       => \A i \in (1..Len(levels[s])) \cap (1..Len(levels[t])) : levels[s][i] = levels[t][i]

LEMMA StartKeepsLockstep ==
  ASSUME IInv, IInv', Lockstep, NEW s \in Side, NEW w \in Walk, Start(s, w)
  PROVE  Lockstep'
<1>1. ASSUME NEW t \in Side, t # s
      PROVE  stage'[t] = stage[t] /\ items'[t] = items[t] /\ levels'[t] = levels[t]
  BY <1>1 DEF IInv, Start
<1>2. ASSUME stage'[s] = "climbing"
      PROVE  ~Repeats(items'[s]) /\ Len(levels'[s]) = 1
  <2>1. ~Repeats(InOrder(w)) BY <1>2 DEF IInv, Start
  <2>2. items'[s] = InOrder(w) /\ levels'[s] = <<LeavesOf(InOrder(w))>>
    BY <2>1 DEF IInv, Start
  <2> QED BY <2>1, <2>2
<1>3. ASSUME NEW t \in Side, stage'[t] = "climbing"
      PROVE  Stacked(t)'
  <2>1. CASE t = s
    <3>1. ~Repeats(items'[s]) /\ Len(levels'[s]) = 1 BY <1>2, <1>3, <2>1
    <3>2. 1..(Len(levels'[s]) - 1) = {} BY <3>1
    <3> QED BY <2>1, <3>1, <3>2 DEF Stacked
  <2>2. CASE t # s
    <3>1. Stacked(t) BY <1>1, <1>3, <2>2 DEF Lockstep
    <3> QED BY <1>1, <2>2, <3>1 DEF Stacked
  <2> QED BY <2>1, <2>2
<1>4. ASSUME NEW t \in Side, NEW u \in Side, stage'[t] = "climbing", stage'[u] = "climbing",
             items'[t] = items'[u],
             NEW i \in (1..Len(levels'[t])) \cap (1..Len(levels'[u]))
      PROVE  levels'[t][i] = levels'[u][i]
  <2>1. CASE t = s \/ u = s
    <3>1. i = 1
      <4>1. Len(levels'[s]) = 1 BY <1>2, <1>4, <2>1
      <4>2. 1..Len(levels'[s]) = {1} BY <4>1
      <4> QED BY <1>4, <2>1, <4>2
    <3>2. levels'[t][1] = LeavesOf(items'[t]) /\ levels'[u][1] = LeavesOf(items'[u])
      BY <1>4 DEF IInv, Climbed
    <3> QED BY <1>4, <3>1, <3>2
  <2>2. CASE t # s /\ u # s BY <1>1, <1>4, <2>2 DEF Lockstep
  <2> QED BY <2>1, <2>2
<1> QED BY <1>3, <1>4 DEF Lockstep

LEMMA ClimbKeepsLockstep ==
  ASSUME IInv, IInv', Lockstep, NEW s \in Side, Climb(s)
  PROVE  Lockstep'
<1> DEFINE n == Len(levels[s])
<1>1. /\ stage' = stage /\ items' = items /\ stage[s] = "climbing"
      /\ levels'[s] = Append(levels[s], Up(levels[s][n])) /\ Len(levels[s][n]) > 1
      /\ \A t \in Side : t # s => levels'[t] = levels[t]
  BY DEF IInv, Climb, Level
<1>2. n \in Nat /\ n >= 1 /\ IsSeq(levels[s])
  <2>1. Climbed(s) BY <1>1 DEF IInv
  <2> QED BY <2>1, IsSeqFacts DEF Climbed
<1>3. /\ Len(levels'[s]) = n + 1 /\ \A i \in 1..n : levels'[s][i] = levels[s][i]
      /\ levels'[s][n + 1] = Up(levels[s][n])
  BY <1>1, <1>2, AppendFacts
<1>4. ASSUME NEW t \in Side, stage'[t] = "climbing"
      PROVE  Stacked(t)'
  <2>1. Stacked(t) BY <1>1, <1>4 DEF Lockstep
  <2>2. CASE t = s
    <3>1. ASSUME NEW i \in 1..(Len(levels'[s]) - 1) PROVE Len(levels'[s][i]) > 1
      <4>1. i \in 1..n /\ (i = n \/ i \in 1..(n - 1)) BY <1>2, <1>3
      <4> QED BY <1>1, <1>3, <2>1, <2>2, <4>1 DEF Stacked
    <3> QED BY <1>1, <2>1, <2>2, <3>1 DEF Stacked
  <2>3. CASE t # s BY <1>1, <2>1, <2>3 DEF Stacked
  <2> QED BY <2>2, <2>3
\* The new level is the one a tree of the same walk already has at its height.
<1>5. ASSUME NEW t \in Side, t # s, stage[t] = "climbing", items[t] = items[s],
             NEW i \in (1..(n + 1)) \cap (1..Len(levels[t]))
      PROVE  levels'[s][i] = levels'[t][i]
  <2>1. levels'[t] = levels[t] BY <1>1, <1>5
  <2>2. CASE i \in 1..n BY <1>1, <1>3, <1>5, <2>1, <2>2 DEF Lockstep
  <2>3. CASE i = n + 1
    <3>1. Climbed(t) BY <1>5 DEF IInv
    <3>2. Len(levels[t]) \in Nat BY <3>1, IsSeqFacts DEF Climbed
    <3>3. n \in 1..n /\ n \in 1..Len(levels[t]) /\ n \in 1..(Len(levels[t]) - 1)
      BY <1>2, <1>5, <2>3, <3>2
    <3>4. levels[s][n] = levels[t][n] BY <1>1, <1>5, <3>3 DEF Lockstep
    <3>5. levels[t][n + 1] = Up(levels[t][n]) BY <3>1, <3>3 DEF Climbed
    <3> QED BY <1>3, <2>1, <2>3, <3>4, <3>5
  <2> QED BY <1>2, <2>2, <2>3
<1>6. ASSUME NEW t \in Side, NEW u \in Side, stage'[t] = "climbing", stage'[u] = "climbing",
             items'[t] = items'[u],
             NEW i \in (1..Len(levels'[t])) \cap (1..Len(levels'[u]))
      PROVE  levels'[t][i] = levels'[u][i]
  <2>1. CASE t = s /\ u = s BY <2>1
  <2>2. CASE t = s /\ u # s
    <3>1. levels'[u] = levels[u] /\ stage[u] = "climbing" /\ items[u] = items[s]
      BY <1>1, <1>6, <2>2
    <3>2. i \in (1..(n + 1)) \cap (1..Len(levels[u])) BY <1>3, <1>6, <2>2, <3>1
    <3> HIDE DEF n
    <3> QED BY <1>5, <2>2, <3>1, <3>2
  <2>3. CASE t # s /\ u = s
    <3>1. levels'[t] = levels[t] /\ stage[t] = "climbing" /\ items[t] = items[s]
      BY <1>1, <1>6, <2>3
    <3>2. i \in (1..(n + 1)) \cap (1..Len(levels[t])) BY <1>3, <1>6, <2>3, <3>1
    <3> HIDE DEF n
    <3> QED BY <1>5, <2>3, <3>1, <3>2
  <2>4. CASE t # s /\ u # s BY <1>1, <1>6, <2>4 DEF Lockstep
  <2> QED BY <2>1, <2>2, <2>3, <2>4
<1> QED BY <1>4, <1>6 DEF Lockstep

THEOREM LockstepAlways == Spec => []Lockstep
<1>1. Init => Lockstep BY DEF Init, Lockstep
<1>2. IInv /\ IInv' /\ Lockstep /\ [Next]_vars => Lockstep'
  <2> SUFFICES ASSUME IInv, IInv', Lockstep, [Next]_vars PROVE Lockstep' OBVIOUS
  <2>1. CASE \E s \in Side : Climb(s) BY <2>1, ClimbKeepsLockstep
  <2>2. CASE \E s \in Side, w \in Walk : Start(s, w) BY <2>2, StartKeepsLockstep
  <2>3. CASE UNCHANGED vars BY <2>3 DEF vars, Lockstep, Stacked
  <2> QED BY <2>1, <2>2, <2>3 DEF Next
<1> QED BY <1>1, <1>2, Invariant, PTL DEF Spec

\* Equal collections, equal roots -- in whatever orders two backends, or two
\* walks of one, yield the records.
THEOREM OrderNeverMatters == Spec => []OrderIsImmaterial
<1>1. IInv /\ Lockstep => OrderIsImmaterial
  <2> SUFFICES ASSUME IInv, Lockstep, BothRoots, Records("builder") = Records("auditor")
               PROVE  Root("builder") = Root("auditor")
    BY DEF OrderIsImmaterial
  <2>1. ASSUME NEW s \in Side, HasRoot(s)
        PROVE  /\ stage[s] = "climbing" /\ Stacked(s) /\ Len(levels[s]) \in Nat
               /\ Len(levels[s]) >= 1 /\ Len(levels[s][Len(levels[s])]) = 1
               /\ items[s] \in Seq(Entry) /\ Ascends(items[s])
               /\ Entries(items[s]) = Records(s)
    <3>1. /\ Climbed(s) /\ walk[s] \in Seq(Entry) /\ items[s] \in Seq(Entry)
          /\ stage[s] = "climbing" /\ Stacked(s)
      BY <2>1 DEF IInv, HasRoot, Lockstep
    <3>2. items[s] = InOrder(walk[s]) /\ ~Repeats(InOrder(walk[s]))
      BY <3>1 DEF Climbed, Stacked
    <3>3. Ascends(items[s]) BY <3>1, <3>2, Ascending
    <3>4. Entries(items[s]) = Records(s)
      <4> DEFINE t == InOrder(walk[s])
      <4>1. {t[i] : i \in DOMAIN t} = {walk[s][i] : i \in DOMAIN walk[s]}
        BY <3>1, InOrderKeepsEntries
      <4>2. DOMAIN t = 1..Len(t) BY <3>1, <3>2, LenProperties
      <4> HIDE DEF t
      <4>3. Entries(t) = Records(s) BY <4>1, <4>2 DEF Entries, Records
      <4> QED BY <3>2, <4>3 DEF t
    <3>5. Len(levels[s]) \in Nat /\ Len(levels[s]) >= 1 BY <3>1, IsSeqFacts DEF Climbed
    <3> QED BY <2>1, <3>1, <3>3, <3>4, <3>5 DEF HasRoot, Level
  <2>2. "builder" \in Side /\ "auditor" \in Side /\ HasRoot("builder") /\ HasRoot("auditor")
    BY DEF BothRoots, Side
  <2>3. items["builder"] = items["auditor"] BY <2>1, <2>2, SameOrder
  <2>4. ASSUME NEW s \in Side, NEW t \in Side, HasRoot(s), HasRoot(t), items[s] = items[t]
        PROVE  ~(Len(levels[s]) < Len(levels[t]))
    <3> SUFFICES ASSUME Len(levels[s]) < Len(levels[t]) PROVE FALSE OBVIOUS
    <3> DEFINE k == Len(levels[s])
    <3>1. k \in 1..Len(levels[s]) /\ k \in 1..Len(levels[t]) /\ k \in 1..(Len(levels[t]) - 1)
      BY <2>1, <2>4
    <3>2. levels[s][k] = levels[t][k] BY <2>1, <2>4, <3>1 DEF Lockstep
    <3>3. Len(levels[t][k]) > 1 BY <2>1, <2>4, <3>1 DEF Stacked
    <3>4. Len(levels[s][k]) = 1 BY <2>1, <2>4
    <3> QED BY <3>2, <3>3, <3>4
  <2>5. Len(levels["builder"]) = Len(levels["auditor"]) BY <2>1, <2>2, <2>3, <2>4
  <2>6. levels["builder"][Len(levels["builder"])] = levels["auditor"][Len(levels["auditor"])]
    <3>1. Len(levels["builder"]) \in (1..Len(levels["builder"])) \cap (1..Len(levels["auditor"]))
      BY <2>1, <2>2, <2>5
    <3> QED BY <2>1, <2>2, <2>3, <2>5, <3>1 DEF Lockstep
  <2> QED BY <2>6 DEF Root, Level
<1> QED BY <1>1, Invariant, LockstepAlways, PTL
=============================================================================
