------------------------- MODULE AdapterWalkProofs -------------------------
(***************************************************************************)
(* Theorems about AdapterWalk, for any number of ids, writes and walks and *)
(* any page size.                                                          *)
(*                                                                         *)
(* IInv follows the rows: what was read is what was yielded, what waits in *)
(* the page and what waits behind it (NothingLost), and what a walk has    *)
(* left to read lies ahead of it (Ahead) - behind the cursor of Qdrant and *)
(* Pinecone (PassedIds), beyond the first `offset` rows of Chroma's list   *)
(* (PassedRows).  Chroma's place is kept only while no row is deleted      *)
(* (Steady).  The same case analysis shows each read to be a step of       *)
(* WalkContract.  Effort bounds the steps of a walk.                       *)
(***************************************************************************)
EXTENDS AdapterWalk, FiniteSetTheorems, SequenceTheorems, TLAPS

-----------------------------------------------------------------------------
(* Ids in order.                                                           *)

\* What a list is made by: one of two ids goes first, and so does what goes before it.
Orders(before, S) ==
  /\ \A i \in S : i \notin before[i]
  /\ \A i, j \in S : j \in before[i] => S \cap before[j] \subseteq before[i]
  /\ \A i, j \in S : i # j => i \in before[j] \/ j \in before[i]

LEMMA RankFacts ==
  ASSUME NEW S, IsFiniteSet(S), NEW before, Orders(before, S)
  PROVE  /\ \A i \in S : Rank(S, before, i) \in 0..(Cardinality(S) - 1)
         /\ \A i, j \in S : i \in before[j] => Rank(S, before, i) < Rank(S, before, j)
         /\ \A i, j \in S : Rank(S, before, i) = Rank(S, before, j) => i = j
<1>1. Cardinality(S) \in Nat BY FS_CardinalityType
<1>2. ASSUME NEW i \in S
      PROVE  IsFiniteSet(S \cap before[i]) /\ Rank(S, before, i) \in 0..(Cardinality(S) - 1)
  <2>1. S \cap before[i] \in SUBSET S /\ S \cap before[i] # S BY DEF Orders
  <2>2. /\ IsFiniteSet(S \cap before[i])
        /\ Cardinality(S \cap before[i]) <= Cardinality(S)
        /\ Cardinality(S) # Cardinality(S \cap before[i])
    BY <2>1, FS_Subset
  <2>3. Cardinality(S \cap before[i]) \in Nat BY <2>2, FS_CardinalityType
  <2> QED BY <1>1, <2>2, <2>3 DEF Rank
<1>3. ASSUME NEW i \in S, NEW j \in S, i \in before[j]
      PROVE  Rank(S, before, i) < Rank(S, before, j)
  <2>1. S \cap before[i] \in SUBSET (S \cap before[j]) BY <1>3 DEF Orders
  <2>2. i \in S \cap before[j] /\ i \notin S \cap before[i] BY <1>3 DEF Orders
  <2>3. /\ Rank(S, before, i) <= Rank(S, before, j)
        /\ Rank(S, before, j) # Rank(S, before, i)
    BY <1>2, <2>1, <2>2, FS_Subset DEF Rank
  <2>4. /\ Rank(S, before, i) \in 0..(Cardinality(S) - 1)
        /\ Rank(S, before, j) \in 0..(Cardinality(S) - 1)
    BY <1>2
  <2> HIDE DEF Rank
  <2>5. Rank(S, before, i) \in Int /\ Rank(S, before, j) \in Int BY <1>1, <2>4
  <2> QED BY <2>3, <2>5
<1>4. ASSUME NEW i \in S, NEW j \in S, Rank(S, before, i) = Rank(S, before, j)
      PROVE  i = j
  <2>0. Rank(S, before, i) \in 0..(Cardinality(S) - 1) BY <1>2
  <2>1. ~(Rank(S, before, i) < Rank(S, before, j)) /\ ~(Rank(S, before, j) < Rank(S, before, i))
    BY <1>1, <1>4, <2>0
  <2> QED BY <1>3, <2>1 DEF Orders
<1> QED BY <1>2, <1>3, <1>4

LEMMA UpToFacts ==
  ASSUME NEW m \in Nat, NEW n \in Nat, 1..m = 1..n
  PROVE  m = n
<1>1. m > n => m \in 1..m /\ m \notin 1..n OBVIOUS
<1>2. n > m => n \in 1..n /\ n \notin 1..m OBVIOUS
<1> QED BY <1>1, <1>2

LEMMA InOrderFacts ==
  ASSUME NEW S, IsFiniteSet(S), NEW before, Orders(before, S)
  PROVE  /\ InOrder(S, before) \in Seq(S) /\ Len(InOrder(S, before)) = Cardinality(S)
         /\ Cardinality(S) \in Nat
         /\ \A n \in 1..Cardinality(S) : Rank(S, before, InOrder(S, before)[n]) = n - 1
         /\ \A i \in S : /\ Rank(S, before, i) + 1 \in 1..Cardinality(S)
                         /\ InOrder(S, before)[Rank(S, before, i) + 1] = i
         /\ \A m, n \in 1..Cardinality(S) :
              m < n => InOrder(S, before)[m] \in before[InOrder(S, before)[n]]
<1> DEFINE k == Cardinality(S)
           r(i) == Rank(S, before, i)
           place == [i \in S |-> r(i) + 1]
           pick(n) == CHOOSE i \in S : r(i) = n - 1
           s == InOrder(S, before)
<1>1. k \in Nat BY FS_CardinalityType
<1>2. \A i \in S : r(i) \in 0..(k - 1) BY RankFacts
<1> HIDE DEF r, k
<1>3. place \in [S -> 1..k] BY <1>1, <1>2
<1>4. \A i, j \in S : place[i] = place[j] => i = j
  <2>1. ASSUME NEW i \in S, NEW j \in S, place[i] = place[j] PROVE i = j
    <3>1. r(i) = r(j) BY <1>1, <1>2, <2>1
    <3> QED BY <3>1, RankFacts DEF r
  <2> QED BY <2>1
<1>5. place \in Surjection(S, 1..k)
  <2>1. place \in Injection(S, 1..k) BY <1>3, <1>4 DEF Injection, IsInjective
  <2>2. IsFiniteSet(1..k) /\ Cardinality(1..k) = k
    <3>1. /\ IsFiniteSet(1..k)
          /\ Cardinality(1..k) = IF 1 > k THEN 0 ELSE k - 1 + 1
      BY <1>1, FS_Interval
    <3> QED BY <1>1, <3>1
  <2>3. Cardinality(1..k) = Cardinality(S) BY <2>2 DEF k
  <2> QED BY <2>1, <2>2, <2>3, FS_Injection
<1>6. ASSUME NEW n \in 1..k PROVE pick(n) \in S /\ r(pick(n)) = n - 1
  <2>1. PICK i \in S : place[i] = n BY <1>5 DEF Surjection
  <2>2. r(i) = n - 1 BY <1>1, <1>2, <2>1
  <2> QED BY <2>2
<1>7. s = [n \in 1..k |-> pick(n)] BY DEF InOrder, r, k
<1> HIDE DEF pick, s
<1>8. \A n \in 1..k : s[n] \in S /\ r(s[n]) = n - 1 BY <1>6, <1>7
<1>9. s \in [1..k -> S] BY <1>6, <1>7
<1>10. s \in Seq(S) /\ Len(s) = k
  <2>1. s \in Seq(S) BY <1>1, <1>9
  <2>2. DOMAIN s = 1..Len(s) /\ Len(s) \in Nat BY <2>1, LenProperties
  <2>3. 1..k = 1..Len(s) BY <1>9, <2>2
  <2>4. k = Len(s) BY <1>1, <2>2, <2>3, UpToFacts
  <2> QED BY <2>1, <2>4
<1>11. ASSUME NEW i \in S PROVE r(i) + 1 \in 1..k /\ s[r(i) + 1] = i
  <2>1. r(i) + 1 \in 1..k /\ r(i) \in Int BY <1>1, <1>2
  <2>2. s[r(i) + 1] \in S /\ r(s[r(i) + 1]) = (r(i) + 1) - 1 BY <1>8, <2>1
  <2>3. r(s[r(i) + 1]) = r(i) BY <2>1, <2>2
  <2> QED BY <2>1, <2>2, <2>3, RankFacts DEF r
<1>12. ASSUME NEW m \in 1..k, NEW n \in 1..k, m < n PROVE s[m] \in before[s[n]]
  <2>1. s[m] \in S /\ s[n] \in S /\ r(s[m]) = m - 1 /\ r(s[n]) = n - 1 BY <1>8
  <2>2. s[m] # s[n] /\ ~(r(s[n]) < r(s[m])) BY <1>1, <1>12, <2>1
  <2>3. s[n] \notin before[s[m]] BY <2>1, <2>2, RankFacts DEF r
  <2> QED BY <2>1, <2>2, <2>3 DEF Orders
<1> QED BY <1>1, <1>8, <1>10, <1>11, <1>12 DEF s, k, r

LEMMA IdFacts == /\ IsFiniteSet(Id) /\ Id \subseteq Nat \ {0} /\ None \notin Id /\ None \notin Nat
                 /\ BatchSize \in Nat \ {0}
<1>1. Cardinality(Id) \in Nat BY WalkAssumption, FS_CardinalityType DEF WalkAssumption
<1> QED BY <1>1, WalkAssumption DEF WalkAssumption

\* Ids in ascending order.
LEMMA AscendingFacts ==
  ASSUME NEW S \in SUBSET Id
  PROVE  /\ InOrder(S, ById) \in Seq(S) /\ ToSet(InOrder(S, ById)) = S
         /\ Len(InOrder(S, ById)) = Cardinality(S)
         /\ \A m, n \in 1..Len(InOrder(S, ById)) :
              m < n => InOrder(S, ById)[m] < InOrder(S, ById)[n]
<1>1. IsFiniteSet(S) BY IdFacts, FS_Subset
<1>2. Orders(ById, S)
  <2>1. \A i \in S : i \in Nat /\ ById[i] = 1..(i - 1) BY IdFacts DEF ById
  <2>2. \A i \in S : i >= 1 BY IdFacts
  <2> QED BY <2>1, <2>2 DEF Orders
<1> DEFINE s == InOrder(S, ById)
<1>3. /\ s \in Seq(S) /\ Len(s) = Cardinality(S)
      /\ \A i \in S : Rank(S, ById, i) + 1 \in 1..Cardinality(S) /\ s[Rank(S, ById, i) + 1] = i
      /\ \A m, n \in 1..Cardinality(S) : m < n => s[m] \in ById[s[n]]
  BY <1>1, <1>2, InOrderFacts
<1> HIDE DEF s
<1>4. DOMAIN s = 1..Len(s) /\ \A n \in 1..Len(s) : s[n] \in S BY <1>3, LenProperties
<1>5. ToSet(s) = S BY <1>3, <1>4 DEF ToSet
<1>6. ASSUME NEW m \in 1..Len(s), NEW n \in 1..Len(s), m < n PROVE s[m] < s[n]
  <2>1. s[m] \in Nat /\ s[n] \in Nat /\ s[n] \in Id BY <1>4, IdFacts
  <2>2. s[m] \in 1..(s[n] - 1) BY <1>3, <1>6, <2>1 DEF ById
  <2> QED BY <2>1, <2>2
<1> QED BY <1>3, <1>5, <1>6 DEF s

-----------------------------------------------------------------------------
(* Pages.                                                                  *)

LEMMA SeqFacts ==
  ASSUME NEW T, NEW s \in Seq(T)
  PROVE  /\ Len(s) \in Nat /\ DOMAIN s = 1..Len(s) /\ \A n \in 1..Len(s) : s[n] \in T
         /\ ToSet(s) = {s[n] : n \in 1..Len(s)} /\ ToSet(s) \subseteq T
         /\ s = <<>> <=> Len(s) = 0
<1>1. Len(s) \in Nat /\ DOMAIN s = 1..Len(s) /\ \A n \in 1..Len(s) : s[n] \in T
  BY LenProperties
<1>2. s = <<>> <=> Len(s) = 0 BY EmptySeq
<1> QED BY <1>1, <1>2 DEF ToSet

LEMMA FirstFacts ==
  ASSUME NEW T, NEW s \in Seq(T), NEW k \in Nat
  PROVE  /\ First(s, k) \in Seq(T)
         /\ Len(First(s, k)) = IF Len(s) < k THEN Len(s) ELSE k
         /\ \A n \in 1..Len(First(s, k)) : n \in 1..Len(s) /\ First(s, k)[n] = s[n]
<1> DEFINE m == IF Len(s) < k THEN Len(s) ELSE k
<1>1. Len(s) \in Nat /\ m \in Nat /\ m <= Len(s) BY SeqFacts
<1>2. \A i \in 1..m : i \in 1..Len(s) /\ s[i] \in T BY <1>1, SeqFacts
<1>3. First(s, k) = SubSeq(s, 1, m) BY DEF First
<1> HIDE DEF m
<1>4. /\ SubSeq(s, 1, m) \in Seq(T)
      /\ Len(SubSeq(s, 1, m)) = IF 1 <= m THEN m - 1 + 1 ELSE 0
      /\ \A i \in 1..(m - 1 + 1) : SubSeq(s, 1, m)[i] = s[1 + i - 1]
  BY <1>1, <1>2, SubSeqProperties
<1>5. Len(SubSeq(s, 1, m)) = m BY <1>1, <1>4
<1>6. \A i \in 1..m : SubSeq(s, 1, m)[i] = s[i] BY <1>1, <1>4
<1> QED BY <1>2, <1>3, <1>4, <1>5, <1>6 DEF m

LEMMA RestFacts ==
  ASSUME NEW T, NEW s \in Seq(T), NEW c \in Nat
  PROVE  /\ SubSeq(s, c + 1, Len(s)) \in Seq(T)
         /\ Len(SubSeq(s, c + 1, Len(s))) = IF c < Len(s) THEN Len(s) - c ELSE 0
         /\ \A n \in 1..Len(SubSeq(s, c + 1, Len(s))) :
              c + n \in 1..Len(s) /\ SubSeq(s, c + 1, Len(s))[n] = s[c + n]
<1> DEFINE r == SubSeq(s, c + 1, Len(s))
<1>1. Len(s) \in Nat BY SeqFacts
<1>2. \A i \in (c + 1)..Len(s) : i \in 1..Len(s) /\ s[i] \in T BY <1>1, SeqFacts
<1>3. /\ r \in Seq(T) /\ Len(r) = IF c + 1 <= Len(s) THEN Len(s) - (c + 1) + 1 ELSE 0
      /\ \A i \in 1..(Len(s) - (c + 1) + 1) : r[i] = s[(c + 1) + i - 1]
  BY <1>1, <1>2, SubSeqProperties
<1> HIDE DEF r
<1>4. Len(r) = IF c < Len(s) THEN Len(s) - c ELSE 0 BY <1>1, <1>3
<1>5. \A n \in 1..Len(r) : c + n \in 1..Len(s) /\ r[n] = s[c + n] 
  <2> TAKE n \in 1..Len(r)
  <2>1. c + n \in 1..Len(s) /\ n \in 1..(Len(s) - (c + 1) + 1) BY <1>1, <1>4
  <2>2. (c + 1) + n - 1 = c + n BY <1>4, <1>1
  <2> QED BY <1>3, <2>1, <2>2
<1> QED BY <1>3, <1>4, <1>5 DEF r

\* A walk's page is added behind what was yielded.
LEMMA JoinFacts ==
  ASSUME NEW T, NEW s \in Seq(T), NEW t \in Seq(T)
  PROVE  /\ s \o t \in Seq(T) /\ ToSet(s \o t) = ToSet(s) \cup ToSet(t)
         /\ Len(s \o t) = Len(s) + Len(t)
         /\ \A n \in 1..Len(s) : n \in 1..Len(s \o t) /\ (s \o t)[n] = s[n]
         /\ \A n \in 1..Len(t) : Len(s) + n \in 1..Len(s \o t) /\ (s \o t)[Len(s) + n] = t[n]
         /\ \A n \in 1..Len(s \o t) :
              \/ n \in 1..Len(s)
              \/ n - Len(s) \in 1..Len(t) /\ n = Len(s) + (n - Len(s))
<1>1. Len(s) \in Nat /\ Len(t) \in Nat BY SeqFacts
<1>2. /\ s \o t \in Seq(T) /\ Len(s \o t) = Len(s) + Len(t)
      /\ \A i \in 1..Len(s) + Len(t) :
           (s \o t)[i] = IF i <= Len(s) THEN s[i] ELSE t[i - Len(s)]
  BY ConcatProperties
<1> DEFINE j == s \o t
<1> HIDE DEF j
<1>3. \A n \in 1..Len(s) : n \in 1..Len(j) /\ j[n] = s[n] BY <1>1, <1>2 DEF j
<1>4. \A n \in 1..Len(t) : Len(s) + n \in 1..Len(j) /\ j[Len(s) + n] = t[n]
  <2> TAKE n \in 1..Len(t)
  <2>1. Len(s) + n \in 1..(Len(s) + Len(t)) /\ ~(Len(s) + n <= Len(s)) /\ Len(s) + n - Len(s) = n
    BY <1>1
  <2>2. Len(j) = Len(s) + Len(t) BY <1>2 DEF j
  <2>3. j[Len(s) + n] = t[Len(s) + n - Len(s)] BY <1>2, <2>1 DEF j
  <2> QED BY <2>1, <2>2, <2>3
<1>5. \A n \in 1..Len(j) : \/ n \in 1..Len(s)
                           \/ n - Len(s) \in 1..Len(t) /\ n = Len(s) + (n - Len(s))
  BY <1>1, <1>2 DEF j
<1>6. /\ ToSet(j) = {j[n] : n \in 1..Len(j)} /\ ToSet(s) = {s[n] : n \in 1..Len(s)}
      /\ ToSet(t) = {t[n] : n \in 1..Len(t)}
  BY <1>2, SeqFacts DEF j
<1>7. ToSet(j) \subseteq ToSet(s) \cup ToSet(t)
  <2> SUFFICES ASSUME NEW n \in 1..Len(j) PROVE j[n] \in ToSet(s) \cup ToSet(t) BY <1>6
  <2>1. CASE n \in 1..Len(s) BY <1>3, <1>6, <2>1
  <2>2. CASE n - Len(s) \in 1..Len(t) /\ n = Len(s) + (n - Len(s))
    <3>1. j[n] = t[n - Len(s)] BY <1>4, <2>2
    <3> QED BY <1>6, <2>2, <3>1
  <2> QED BY <1>5, <2>1, <2>2
<1>8. ToSet(s) \cup ToSet(t) \subseteq ToSet(j) BY <1>3, <1>4, <1>6
<1> QED BY <1>2, <1>3, <1>4, <1>5, <1>7, <1>8 DEF j

\* What the page's head leaves is still what was handed on.
LEMMA HeadFacts ==
  ASSUME NEW T, NEW s \in Seq(T), NEW p \in Seq(T), NEW r \in Seq(T), p # <<>>
  PROVE  /\ Append(s, Head(p)) \in Seq(T) /\ Tail(p) \in Seq(T)
         /\ Append(s, Head(p)) \o Tail(p) \o r = s \o p \o r
<1>1. /\ Head(p) \in T /\ Tail(p) \in Seq(T) /\ Len(p) \in Nat \ {0}
      /\ Head(p) = p[1] /\ Tail(p) = SubSeq(p, 2, Len(p))
  BY HeadTailProperties, TailIsSubSeq, EmptySeq
<1>2. Append(s, Head(p)) = s \o <<Head(p)>> /\ <<Head(p)>> \in Seq(T)
  BY <1>1, AppendIsConcat
<1>3. <<Head(p)>> \o Tail(p) = p
  <2>1. SubSeq(p, 1, Len(p)) = <<p[1]>> \o SubSeq(p, 1 + 1, Len(p))
    BY <1>1, SubSeqRecursiveFirst
  <2>2. SubSeq(p, 1, Len(p)) = p BY SubSeqFull
  <2> QED BY <1>1, <2>1, <2>2
<1>4. (s \o <<Head(p)>>) \o Tail(p) = s \o (<<Head(p)>> \o Tail(p)) BY <1>1, <1>2, ConcatAssociative
<1>5. s \o <<Head(p)>> \in Seq(T) BY <1>2, ConcatProperties
<1> QED BY <1>1, <1>2, <1>3, <1>4, <1>5

\* A chunk is cut off in front of the rest.
LEMMA ChunkFacts ==
  ASSUME NEW T, NEW r \in Seq(T), NEW k \in Nat
  PROVE  /\ First(r, k) \in Seq(T)
         /\ SubSeq(r, Len(First(r, k)) + 1, Len(r)) \in Seq(T)
         /\ First(r, k) \o SubSeq(r, Len(First(r, k)) + 1, Len(r)) = r
<1> DEFINE m == Len(First(r, k))
<1>1. Len(r) \in Nat /\ m \in Nat /\ m <= Len(r) /\ First(r, k) \in Seq(T)
  BY SeqFacts, FirstFacts
<1>2. m = IF Len(r) < k THEN Len(r) ELSE k BY FirstFacts
<1>3. First(r, k) = SubSeq(r, 1, m) BY <1>2 DEF First
<1> HIDE DEF m
<1>4. SubSeq(r, 1, m) \o SubSeq(r, m + 1, Len(r)) = SubSeq(r, 1, Len(r))
  <2>1. 1 \in 1..(Len(r) + 1) /\ m \in (1 - 1)..Len(r) /\ Len(r) \in m..Len(r) BY <1>1
  <2> QED BY <2>1, ConcatAdjacentSubSeq
<1>5. SubSeq(r, 1, Len(r)) = r BY SubSeqFull
<1>6. SubSeq(r, m + 1, Len(r)) \in Seq(T) BY <1>1, RestFacts
<1> QED BY <1>1, <1>3, <1>4, <1>5, <1>6 DEF m

LEMMA ChunkBehind ==
  ASSUME NEW T, NEW s \in Seq(T), NEW r \in Seq(T), NEW k \in Nat
  PROVE  s \o First(r, k) \o SubSeq(r, Len(First(r, k)) + 1, Len(r)) = s \o r
<1> DEFINE p == First(r, k)
           q == SubSeq(r, Len(First(r, k)) + 1, Len(r))
<1>1. p \in Seq(T) /\ q \in Seq(T) BY ChunkFacts
<1>2. p \o q = r BY ChunkFacts
<1> HIDE DEF p, q
<1>3. (s \o p) \o q = s \o (p \o q) BY <1>1, ConcatAssociative
<1> QED BY <1>2, <1>3 DEF p, q

LEMMA EmptyEnds ==
  ASSUME NEW T, NEW s \in Seq(T)
  PROVE  /\ <<>> \in Seq(T) /\ s \o <<>> = s /\ <<>> \o s = s /\ ToSet(<<>>) = {}
         /\ ToSet(s) = {} => s = <<>>
<1>1. <<>> \in Seq(T) /\ Len(<<>>) = 0 /\ s \o <<>> = s /\ <<>> \o s = s
  BY EmptySeq, ConcatEmptySeq
<1>2. ToSet(<<>>) = {} BY <1>1 DEF ToSet
<1>3. s # <<>> => s[1] \in ToSet(s)
  <2>1. s # <<>> => 1 \in 1..Len(s) BY EmptySeq
  <2> QED BY <2>1, SeqFacts
<1> QED BY <1>1, <1>2, <1>3

-----------------------------------------------------------------------------
(* What a walk keeps.                                                      *)

\* The rows of a sequence are the rows the walk has read, each id once.
Reads(seq) == ToSet(seq) = {[id |-> i, row |-> taken[i]] : i \in Present(taken)}
Once(seq) == IsInjective([n \in DOMAIN seq |-> seq[n].id])

\* What was read is yielded, or waits in the page, or behind it.
Handed == yielded \o page \o rest
NothingLost == pc # "raised" => Reads(Handed) /\ Once(Handed)

\* Where nothing waits.
Waiting ==
  /\ pc \notin {"chunk", "page", "last"} => page = <<>>
  /\ pc \notin {"chunk", "raised"} => rest = <<>>
  /\ pc # "fetch" => ids = <<>>
  /\ pc = "open" => taken = Nothing /\ yielded = <<>>

\* Which adapters go where.
Lanes ==
  /\ pc \in {"open", "chunk"} => Snapshots(backend)
  /\ pc \in {"page", "fetch", "last"} => ~Snapshots(backend)
  /\ pc = "fetch" => backend = "pinecone"
  /\ pc \in {"page", "fetch"} /\ backend \in {"pinecone", "chroma"} => cursor # None
  /\ Snapshots(backend) /\ pc \in {"chunk", "ended"} => taken = origin

\* A row's id was inserted by one of the writes there have been.
Births == \A i \in Present(store) : store[i].born <= writes

\* What is left is still there, and nothing is left behind the last page.
Ahead ==
  /\ left \subseteq Present(store)
  /\ pc \in {"chunk", "last", "ended"} => left = {}

\* Qdrant and Pinecone have passed the ids before the cursor, but for those listed
\* and not fetched.
Start == IF cursor = None THEN 1 ELSE cursor
PassedIds ==
  pc \in {"page", "fetch"} /\ backend \in {"qdrant", "pinecone"} =>
    /\ \A i \in ToSet(ids) : i < Start
    /\ \A i \in Present(taken) : i < Start /\ i \notin ToSet(ids)
    /\ \A i \in left : i >= Start \/ i \in ToSet(ids)

\* Chroma has passed the first `cursor` rows of its list.
Behind == {i \in Present(store) : Rank(Present(store), ByBirth, i) < cursor}
PassedRows ==
  pc = "page" /\ backend = "chroma" =>
    /\ cursor <= Cardinality(Present(store))
    /\ Present(taken) = Behind
    /\ left \cap Present(taken) = {}

\* A Chroma walk keeps what follows only while no row is deleted: an offset counts
\* rows, and a deletion moves the rows behind it.
Steady == backend = "chroma" => "chroma" \notin Deleting

IInv ==
  /\ TypeOK /\ Waiting /\ Lanes /\ Births
  /\ Steady => NothingLost /\ Ahead /\ PassedIds /\ PassedRows

-----------------------------------------------------------------------------
(* Rows.                                                                   *)

LEMMA StoreFacts ==
  ASSUME TypeOK
  PROVE  /\ Present(store) \in SUBSET Id /\ IsFiniteSet(Present(store))
         /\ \A i \in Present(store) : store[i] \in Row
         /\ Present(taken) \in SUBSET Id
         /\ \A i \in Id : store[i] \in Row => store[i] # None
<1>1. Present(store) \in SUBSET Id /\ Present(taken) \in SUBSET Id BY DEF Present
<1>2. IsFiniteSet(Present(store)) BY <1>1, IdFacts, FS_Subset
<1>3. \A i \in Present(store) : store[i] \in Row BY DEF TypeOK, Present
<1>4. None \notin Row BY WalkAssumption DEF WalkAssumption
<1> QED BY <1>1, <1>2, <1>3, <1>4

\* Chroma's list is an order.
LEMMA BirthOrders ==
  ASSUME TypeOK
  PROVE  Orders(ByBirth, Present(store))
<1> DEFINE P == Present(store)
<1>1. \A i \in P : i \in Nat /\ store[i].born \in Nat
  <2>1. MaxWrites \in Nat BY WalkAssumption DEF WalkAssumption
  <2>2. \A i \in P : store[i].born \in 0..MaxWrites BY StoreFacts DEF Row
  <2>3. P \subseteq Id BY StoreFacts
  <2> HIDE DEF P
  <2>4. \A i \in P : i \in Nat BY <2>3, IdFacts
  <2> QED BY <2>1, <2>2, <2>4
<1>2. \A i \in P : ByBirth[i] = {j \in P : \/ store[j].born < store[i].born
                                           \/ store[j].born = store[i].born /\ j < i}
  BY DEF ByBirth
<1> HIDE DEF P
<1>3. \A i \in P : i \notin ByBirth[i] BY <1>1, <1>2
<1>4. \A i, j \in P : j \in ByBirth[i] => P \cap ByBirth[j] \subseteq ByBirth[i]
  <2> SUFFICES ASSUME NEW i \in P, NEW j \in P, j \in ByBirth[i], NEW l \in P, l \in ByBirth[j]
               PROVE  l \in ByBirth[i]
    OBVIOUS
  <2>1. \/ store[j].born < store[i].born
        \/ store[j].born = store[i].born /\ j < i
    BY <1>2
  <2>2. \/ store[l].born < store[j].born
        \/ store[l].born = store[j].born /\ l < j
    BY <1>2
  <2>3. \/ store[l].born < store[i].born
        \/ store[l].born = store[i].born /\ l < i
    BY <1>1, <2>1, <2>2
  <2> QED BY <1>2, <2>3
<1>5. \A i, j \in P : i # j => i \in ByBirth[j] \/ j \in ByBirth[i] BY <1>1, <1>2
<1> QED BY <1>3, <1>4, <1>5 DEF P, Orders

\* A page: the rows under some of the ids, each once.
Page(rows, S) ==
  /\ rows \in Seq(Read) /\ S = {rows[n].id : n \in 1..Len(rows)}
  /\ S \subseteq Present(store)
  /\ \A n \in 1..Len(rows) : rows[n].row = store[rows[n].id]
  /\ \A m, n \in 1..Len(rows) : rows[m].id = rows[n].id => m = n

LEMMA OnceFacts ==
  ASSUME NEW s \in Seq(Read)
  PROVE  Once(s) <=> \A m, n \in 1..Len(s) : s[m].id = s[n].id => m = n
<1>1. DOMAIN s = 1..Len(s) BY SeqFacts
<1> QED BY <1>1 DEF Once, IsInjective

LEMMA PageFacts ==
  ASSUME TypeOK, NEW order \in Seq(Present(store)), NEW k \in Nat,
         \A m, n \in 1..Len(order) : order[m] = order[n] => m = n
  PROVE  /\ Rows(order) \in Seq(Read) /\ Len(Rows(order)) = Len(order)
         /\ Page(Rows(order), ToSet(order))
         /\ Len(First(Rows(order), k)) = IF Len(order) < k THEN Len(order) ELSE k
         /\ Page(First(Rows(order), k), {order[n] : n \in 1..Len(First(Rows(order), k))})
<1> DEFINE rows == Rows(order)
<1>1. /\ Len(order) \in Nat /\ DOMAIN order = 1..Len(order)
      /\ \A n \in 1..Len(order) : order[n] \in Present(store)
      /\ ToSet(order) = {order[n] : n \in 1..Len(order)}
  BY SeqFacts
<1>2. /\ DOMAIN rows = 1..Len(order) /\ rows \in [1..Len(order) -> Read]
      /\ \A n \in 1..Len(order) : rows[n] = [id |-> order[n], row |-> store[order[n]]]
  <2>1. rows = [n \in 1..Len(order) |-> [id |-> order[n], row |-> store[order[n]]]]
    BY <1>1 DEF Rows
  <2>2. \A n \in 1..Len(order) : [id |-> order[n], row |-> store[order[n]]] \in Read
    BY <1>1, StoreFacts DEF Read
  <2> HIDE DEF rows
  <2> QED BY <2>1, <2>2
<1> HIDE DEF rows
<1>3. rows \in Seq(Read) /\ Len(rows) = Len(order)
  <2>1. rows \in Seq(Read) BY <1>1, <1>2
  <2>2. Len(rows) \in Nat /\ 1..Len(rows) = 1..Len(order) BY <1>2, <2>1, SeqFacts
  <2> QED BY <1>1, <2>1, <2>2, UpToFacts
<1>4. Page(rows, ToSet(order)) BY <1>1, <1>2, <1>3 DEF Page
<1> DEFINE f == First(rows, k)
<1>5. /\ f \in Seq(Read) /\ Len(f) = IF Len(order) < k THEN Len(order) ELSE k
      /\ \A n \in 1..Len(f) : n \in 1..Len(order) /\ f[n] = rows[n]
  BY <1>3, FirstFacts
<1> HIDE DEF f
<1>6. \A n \in 1..Len(f) : /\ f[n].id = order[n] /\ f[n].row = store[order[n]]
                           /\ order[n] \in Present(store)
  BY <1>1, <1>2, <1>5
<1>7. Page(f, {order[n] : n \in 1..Len(f)}) BY <1>5, <1>6 DEF Page
<1> QED BY <1>3, <1>4, <1>5, <1>7 DEF f, rows

\* A page of rows the walk has not read is handed on and lost nowhere.
LEMMA GotTypes ==
  ASSUME TypeOK, NEW rows, NEW S, Page(rows, S), Got(rows)
  PROVE  /\ page' \in Seq(Read) /\ page' = rows
         /\ taken' \in [Id -> Row \cup {None}]
         /\ left' \in SUBSET Id /\ left' = left \ S
         /\ taken' = [i \in Id |-> IF i \in S THEN store[i] ELSE taken[i]]
         /\ Present(taken') = Present(taken) \cup S
<1>1. S \subseteq Id /\ \A i \in S : store[i] \in Row /\ store[i] # None
  BY StoreFacts DEF Page
<1>2. S = {rows[n].id : n \in DOMAIN rows} BY SeqFacts DEF Page
<1>3. /\ page' = rows /\ taken' = [i \in Id |-> IF i \in S THEN store[i] ELSE taken[i]]
      /\ left' = left \ S
  BY <1>2 DEF Got
<1>4. taken' \in [Id -> Row \cup {None}] BY <1>1, <1>3 DEF TypeOK
<1>5. Present(taken') = Present(taken) \cup S BY <1>1, <1>3 DEF Present
<1> QED BY <1>3, <1>4, <1>5 DEF TypeOK, Page

LEMMA GotReads ==
  ASSUME TypeOK, NEW rows, NEW S, Page(rows, S), Got(rows), S \cap Present(taken) = {},
         Reads(yielded), Once(yielded)
  PROVE  /\ ToSet(yielded \o rows) = {[id |-> i, row |-> taken'[i]] : i \in Present(taken')}
         /\ Once(yielded \o rows)
<1> DEFINE h == yielded \o rows
<1>1. yielded \in Seq(Read) /\ rows \in Seq(Read) BY DEF TypeOK, Page
<1>2. /\ h \in Seq(Read) /\ ToSet(h) = ToSet(yielded) \cup ToSet(rows)
      /\ Len(h) = Len(yielded) + Len(rows)
      /\ \A n \in 1..Len(yielded) : n \in 1..Len(h) /\ h[n] = yielded[n]
      /\ \A n \in 1..Len(rows) : Len(yielded) + n \in 1..Len(h) /\ h[Len(yielded) + n] = rows[n]
      /\ \A n \in 1..Len(h) :
           \/ n \in 1..Len(yielded)
           \/ n - Len(yielded) \in 1..Len(rows) /\ n = Len(yielded) + (n - Len(yielded))
  BY <1>1, JoinFacts
<1> HIDE DEF h
<1>3. /\ taken' = [i \in Id |-> IF i \in S THEN store[i] ELSE taken[i]]
      /\ Present(taken') = Present(taken) \cup S /\ S \subseteq Id /\ Present(taken) \subseteq Id
  <2>1. Present(taken) \subseteq Id /\ Present(store) \subseteq Id BY StoreFacts
  <2>2. /\ taken' = [i \in Id |-> IF i \in S THEN store[i] ELSE taken[i]]
        /\ Present(taken') = Present(taken) \cup S
    BY GotTypes
  <2> QED BY <2>1, <2>2 DEF Page
<1>4. ToSet(yielded) = {[id |-> i, row |-> taken'[i]] : i \in Present(taken)}
  BY <1>3 DEF Reads
<1>5. ToSet(rows) = {[id |-> i, row |-> taken'[i]] : i \in S}
  <2>1. ToSet(rows) = {rows[n] : n \in 1..Len(rows)} BY <1>1, SeqFacts
  <2>2. \A n \in 1..Len(rows) :
          rows[n].id \in S /\ rows[n] = [id |-> rows[n].id, row |-> taken'[rows[n].id]]
    <3> TAKE n \in 1..Len(rows)
    <3>1. rows[n] \in Read BY <1>1, SeqFacts
    <3>2. rows[n] = [id |-> rows[n].id, row |-> rows[n].row] BY <3>1 DEF Read
    <3>3. rows[n].id \in S /\ rows[n].row = store[rows[n].id] BY DEF Page
    <3> QED BY <1>3, <3>2, <3>3
  <2>3. \A i \in S : \E n \in 1..Len(rows) : rows[n].id = i BY DEF Page
  <2> DEFINE R == {[id |-> i, row |-> taken'[i]] : i \in S}
  <2>4. ToSet(rows) \subseteq R
    <3> SUFFICES ASSUME NEW n \in 1..Len(rows) PROVE rows[n] \in R BY <2>1
    <3> DEFINE i == rows[n].id
    <3>1. i \in S /\ rows[n] = [id |-> i, row |-> taken'[i]] BY <2>2
    <3> HIDE DEF i
    <3> QED BY <3>1
  <2>5. ASSUME NEW i \in S PROVE [id |-> i, row |-> taken'[i]] \in ToSet(rows)
    <3>1. PICK n \in 1..Len(rows) : rows[n].id = i BY <2>3
    <3>2. rows[n] = [id |-> i, row |-> taken'[i]] BY <2>2, <3>1
    <3> QED BY <2>1, <3>2
  <2>6. R \subseteq ToSet(rows) BY <2>5
  <2> HIDE DEF R
  <2>7. ToSet(rows) = R BY <2>4, <2>6
  <2> QED BY <2>7 DEF R
<1>6. ToSet(h) = {[id |-> i, row |-> taken'[i]] : i \in Present(taken')}
  BY <1>2, <1>3, <1>4, <1>5
<1>7. \A n \in 1..Len(yielded) : yielded[n].id \in Present(taken)
  <2> TAKE n \in 1..Len(yielded)
  <2>1. yielded[n] \in ToSet(yielded) BY <1>1, SeqFacts
  <2>2. PICK i \in Present(taken) : yielded[n] = [id |-> i, row |-> taken'[i]] BY <1>4, <2>1
  <2> QED BY <2>2
<1>8. \A n \in 1..Len(rows) : rows[n].id \in S BY DEF Page
<1>9. /\ \A m, n \in 1..Len(yielded) : yielded[m].id = yielded[n].id => m = n
      /\ \A m, n \in 1..Len(rows) : rows[m].id = rows[n].id => m = n
  BY <1>1, OnceFacts DEF Page
<1>10. ASSUME NEW m \in 1..Len(h), NEW n \in 1..Len(h), h[m].id = h[n].id
       PROVE  m = n
  <2> DEFINE a == m - Len(yielded)
             b == n - Len(yielded)
  <2>1. /\ m \in 1..Len(yielded) \/ (a \in 1..Len(rows) /\ m = Len(yielded) + a)
        /\ n \in 1..Len(yielded) \/ (b \in 1..Len(rows) /\ n = Len(yielded) + b)
    BY <1>2
  <2> HIDE DEF a, b
  <2>2. CASE m \in 1..Len(yielded) /\ n \in 1..Len(yielded) BY <1>2, <1>9, <1>10, <2>2
  <2>3. CASE m \in 1..Len(yielded) /\ b \in 1..Len(rows) /\ n = Len(yielded) + b
    <3>1. h[m].id \in Present(taken) /\ h[n].id \in S BY <1>2, <1>7, <1>8, <2>3
    <3> QED BY <1>10, <3>1
  <2>4. CASE a \in 1..Len(rows) /\ m = Len(yielded) + a /\ n \in 1..Len(yielded)
    <3>1. h[n].id \in Present(taken) /\ h[m].id \in S BY <1>2, <1>7, <1>8, <2>4
    <3> QED BY <1>10, <3>1
  <2>5. CASE /\ a \in 1..Len(rows) /\ m = Len(yielded) + a
             /\ b \in 1..Len(rows) /\ n = Len(yielded) + b
    <3>1. h[m] = rows[a] /\ h[n] = rows[b] BY <1>2, <2>5
    <3> QED BY <1>9, <1>10, <2>5, <3>1
  <2> QED BY <2>1, <2>2, <2>3, <2>4, <2>5
<1>11. Once(h) BY <1>2, <1>10, OnceFacts
<1> QED BY <1>6, <1>11 DEF h

-----------------------------------------------------------------------------
(* The invariant, action by action.                                        *)

LEMMA InitEstablishes ==
  ASSUME Init
  PROVE  IInv
<1>1. TypeOK
  <2>1. MaxWrites \in Nat /\ MaxWalks \in Nat BY WalkAssumption DEF WalkAssumption
  <2>2. [ver : {0}, born : {0}, vector : BOOLEAN] \subseteq Row BY <2>1 DEF Row
  <2>3. store \in [Id -> Row \cup {None}] BY <2>2 DEF Init
  <2>4. Nothing \in [Id -> Row \cup {None}] BY DEF Nothing
  <2>5. <<>> \in Seq(Read) /\ <<>> \in Seq(Id) BY EmptySeq
  <2> QED BY <2>1, <2>3, <2>4, <2>5 DEF Init, TypeOK
<1>2. Births
  <2>1. \A i \in Present(store) : store[i] \in [ver : {0}, born : {0}, vector : BOOLEAN]
    BY DEF Init, Present
  <2> QED BY <2>1 DEF Births, Init
<1>3. Waiting /\ Lanes BY DEF Waiting, Lanes, Init
<1>4. NothingLost
  <2>1. Handed = <<>> /\ <<>> \in Seq(Read) /\ ToSet(<<>>) = {} /\ Len(<<>>) = 0
    BY EmptyEnds, EmptySeq DEF Handed, Init
  <2>2. Present(taken) = {} BY DEF Present, Nothing, Init
  <2>3. Once(<<>>)
    <3>1. 1..Len(<<>>) = {} BY <2>1
    <3> QED BY <2>1, <3>1, OnceFacts
  <2> QED BY <2>1, <2>2, <2>3 DEF NothingLost, Reads
<1>5. Ahead /\ PassedIds /\ PassedRows BY DEF Ahead, PassedIds, PassedRows, Init
<1> QED BY <1>1, <1>2, <1>3, <1>4, <1>5 DEF IInv

\* Any change of the collection keeps the types and where things wait.
LEMMA WriteKeeps ==
  ASSUME IInv, NEW i \in Id, NEW r \in Row \cup {None}, Write(i, r),
         r # None => r.born <= writes + 1
  PROVE  /\ TypeOK' /\ Waiting' /\ Lanes' /\ Births'
         /\ Steady => NothingLost' /\ Ahead' /\ PassedIds'
<1>1. TypeOK /\ writes \in Nat /\ writes' = writes + 1
  <2>1. MaxWrites \in Nat BY WalkAssumption DEF WalkAssumption
  <2> QED BY <2>1 DEF TypeOK, IInv, Write
<1>2. store' = [store EXCEPT ![i] = r] /\ store' \in [Id -> Row \cup {None}]
  BY <1>1 DEF Write, TypeOK
<1>3. /\ UNCHANGED <<backend, pc, cursor, rest, ids, page, yielded, taken, origin, walks>>
      /\ left' = left \cap Present(store')
  BY DEF Write, walk
<1>4. TypeOK'
  <2>1. writes' \in 0..MaxWrites
    <3>1. MaxWrites \in Nat BY WalkAssumption DEF WalkAssumption
    <3> QED BY <1>1, <3>1 DEF Write
  <2> QED BY <1>1, <1>2, <1>3, <2>1 DEF TypeOK
<1>5. Waiting' /\ Lanes' BY <1>3 DEF IInv, Waiting, Lanes, Nothing, Snapshots
<1>6. Births'
  <2> SUFFICES ASSUME NEW j \in Present(store') PROVE store'[j].born <= writes'
    BY DEF Births
  <2>1. j \in Id /\ store'[j] # None BY DEF Present
  <2>2. CASE j = i
    <3>1. store'[j] = r BY <1>1, <1>2, <2>2 DEF TypeOK
    <3> QED BY <1>1, <2>1, <3>1
  <2>3. CASE j # i
    <3>1. store'[j] = store[j] /\ j \in Present(store) BY <1>1, <1>2, <2>1, <2>3 DEF TypeOK, Present
    <3>2. store[j].born \in Int
      <4>1. MaxWrites \in Nat BY WalkAssumption DEF WalkAssumption
      <4> QED BY <1>1, <3>1, <4>1, StoreFacts DEF Row
    <3> QED BY <1>1, <3>1, <3>2 DEF IInv, Births
  <2> QED BY <2>2, <2>3
<1>7. ASSUME Steady PROVE NothingLost' /\ Ahead' /\ PassedIds'
  <2>1. NothingLost' BY <1>3, <1>7 DEF IInv, NothingLost, Reads, Once, Handed, Present
  <2>2. Ahead' BY <1>3, <1>7 DEF IInv, Ahead
  <2>3. PassedIds' BY <1>3, <1>7 DEF IInv, PassedIds, Start, Present
  <2> QED BY <2>1, <2>2, <2>3
<1> QED BY <1>4, <1>5, <1>6, <1>7

LEMMA InsertKeeps ==
  ASSUME IInv, NEW i \in Id, Insert(i)
  PROVE  IInv'
<1> DEFINE r == [ver |-> writes + 1, born |-> writes + 1, vector |-> TRUE]
           P == Present(store)
<1>1. TypeOK /\ writes \in Nat /\ MaxWrites \in Nat /\ writes < MaxWrites
  BY WalkAssumption DEF WalkAssumption, IInv, TypeOK, Insert, Write
<1>2. r \in Row /\ r # None /\ r.born = writes + 1
  <2>1. r \in Row BY <1>1 DEF Row
  <2> QED BY <2>1, WalkAssumption DEF WalkAssumption
<1>3. store' = [store EXCEPT ![i] = r] /\ store[i] = None /\ Write(i, r)
  BY DEF Insert, Write
<1> HIDE DEF r
<1>4. /\ TypeOK' /\ Waiting' /\ Lanes' /\ Births'
      /\ Steady => NothingLost' /\ Ahead' /\ PassedIds'
  BY <1>1, <1>2, <1>3, WriteKeeps
<1>5. Steady' => Steady BY <1>3 DEF Steady, Write, walk
<1>6. /\ Present(store') = P \cup {i} /\ i \notin P
      /\ store'[i] = r /\ \A j \in P : store'[j] = store[j]
  BY <1>1, <1>2, <1>3 DEF Present, TypeOK
<1>7. /\ P \in SUBSET Id /\ IsFiniteSet(P)
      /\ \A j \in P : store[j].born \in Nat /\ store[j].born <= writes
  BY <1>1, StoreFacts DEF IInv, Births, Row
<1>8. \A j \in P : P \cap ByBirth[j] = Present(store') \cap ByBirth'[j]
  <2> SUFFICES ASSUME NEW j \in P PROVE P \cap ByBirth[j] = Present(store') \cap ByBirth'[j]
    OBVIOUS
  <2>1. ByBirth[j] = {l \in P : \/ store[l].born < store[j].born
                                \/ store[l].born = store[j].born /\ l < j}
    BY DEF ByBirth
  <2>2. ByBirth'[j] = {l \in P \cup {i} : \/ store'[l].born < store'[j].born
                                          \/ store'[l].born = store'[j].born /\ l < j}
    BY <1>6 DEF ByBirth
  <2>3. i \notin ByBirth'[j] BY <1>1, <1>2, <1>6, <1>7, <2>2
  <2>4. \A l \in P : l \in ByBirth[j] <=> l \in ByBirth'[j] BY <1>6, <2>1, <2>2
  <2> QED BY <1>6, <2>3, <2>4
<1>9. Present(store') \cap ByBirth'[i] = P
  <2>1. ByBirth'[i] = {l \in P \cup {i} : \/ store'[l].born < store'[i].born
                                          \/ store'[l].born = store'[i].born /\ l < i}
    BY <1>6 DEF ByBirth
  <2>2. \A l \in P : l \in ByBirth'[i] BY <1>1, <1>2, <1>6, <1>7, <2>1
  <2>3. i \notin ByBirth'[i]
    <3>1. ~(store'[i].born < store'[i].born) /\ ~(i < i) BY <1>1, <1>2, <1>6, IdFacts
    <3> QED BY <2>1, <3>1
  <2> QED BY <1>6, <2>2, <2>3
<1>10. ASSUME Steady, pc = "page", backend = "chroma"
       PROVE  /\ cursor <= Cardinality(Present(store'))
              /\ Present(taken) = Behind'
  <2>1. cursor \in Nat /\ cursor <= Cardinality(P) /\ Present(taken) = Behind
    BY <1>1, <1>10 DEF IInv, PassedRows, Lanes, TypeOK
  <2>2. Cardinality(P) \in Nat /\ Cardinality(Present(store')) = Cardinality(P) + 1
    BY <1>6, <1>7, FS_CardinalityType, FS_AddElement
  <2>3. cursor' = cursor BY <1>3 DEF Write, walk
  <2>4. Behind' = {j \in P \cup {i} : Cardinality(Present(store') \cap ByBirth'[j]) < cursor}
    BY <1>6, <2>3 DEF Behind, Rank
  <2>5. Behind = {j \in P : Cardinality(P \cap ByBirth[j]) < cursor} BY DEF Behind, Rank
  <2>6. i \notin Behind' BY <1>9, <2>1, <2>2, <2>4
  <2>7. \A j \in P : j \in Behind <=> j \in Behind' BY <1>8, <2>4, <2>5
  <2>8. Behind' = Behind BY <2>4, <2>5, <2>6, <2>7
  <2> QED BY <2>1, <2>2, <2>8
<1>11. Steady => PassedRows'
  <2>1. UNCHANGED <<pc, backend, cursor, taken>> /\ left' \subseteq left BY <1>3 DEF Write, walk
  <2> QED BY <1>10, <2>1 DEF IInv, PassedRows
<1> QED BY <1>4, <1>5, <1>11 DEF IInv

LEMMA ReplaceKeeps ==
  ASSUME IInv, NEW i \in Id, Replace(i)
  PROVE  IInv'
<1> DEFINE r == [store[i] EXCEPT !.ver = writes + 1]
           P == Present(store)
<1>1. TypeOK /\ writes \in Nat /\ MaxWrites \in Nat /\ writes < MaxWrites
  BY WalkAssumption DEF WalkAssumption, IInv, TypeOK, Replace, Write
<1>2. i \in P /\ store[i] \in Row BY <1>1, StoreFacts DEF Replace, Present
<1>3. /\ r \in Row /\ r # None /\ r.born = store[i].born
      /\ store[i].born <= writes /\ store[i].born \in Nat
  <2>1. r \in Row /\ r.born = store[i].born /\ store[i].born \in Nat BY <1>1, <1>2 DEF Row
  <2>2. store[i].born <= writes BY <1>2 DEF IInv, Births
  <2> QED BY <2>1, <2>2, WalkAssumption DEF WalkAssumption
<1>4. store' = [store EXCEPT ![i] = r] /\ Write(i, r)
  BY DEF Replace, Write
<1> HIDE DEF r
<1>5. r.born <= writes + 1 BY <1>1, <1>3
<1>6. /\ TypeOK' /\ Waiting' /\ Lanes' /\ Births'
      /\ Steady => NothingLost' /\ Ahead' /\ PassedIds'
  BY <1>3, <1>4, <1>5, WriteKeeps
<1>7. Steady' => Steady BY <1>4 DEF Steady, Write, walk
<1>8. Present(store') = P /\ \A j \in P : store'[j].born = store[j].born
  BY <1>1, <1>2, <1>3, <1>4 DEF Present, TypeOK
<1>9. ByBirth' = ByBirth BY <1>8 DEF ByBirth
<1>10. UNCHANGED <<pc, backend, cursor, taken>> /\ left' \subseteq left
  BY <1>4 DEF Write, walk
<1>11. Behind' = Behind BY <1>8, <1>9, <1>10 DEF Behind, Rank
<1>12. PassedRows => PassedRows' BY <1>8, <1>10, <1>11 DEF PassedRows
<1> QED BY <1>6, <1>7, <1>12 DEF IInv

\* A row is deleted only where the walk does not count rows.
LEMMA DeleteKeeps ==
  ASSUME IInv, NEW i \in Id, Delete(i)
  PROVE  IInv'
<1>1. Write(i, None) /\ None \in Row \cup {None} BY DEF Delete
<1>2. /\ TypeOK' /\ Waiting' /\ Lanes' /\ Births'
      /\ Steady => NothingLost' /\ Ahead' /\ PassedIds'
  BY <1>1, WriteKeeps
<1>3. UNCHANGED <<pc, backend>> BY <1>1 DEF Write, walk
<1>4. Steady' => Steady /\ PassedRows' BY <1>3 DEF Steady, PassedRows, Delete
<1> QED BY <1>2, <1>4 DEF IInv

LEMMA BeginKeeps ==
  ASSUME IInv, NEW b \in Backend, Begin(b)
  PROVE  IInv'
<1>1. TypeOK /\ MaxWalks \in Nat /\ MaxWrites \in Nat
  BY WalkAssumption DEF WalkAssumption, IInv
<1>2. <<>> \in Seq(Read) /\ <<>> \in Seq(Id) /\ ToSet(<<>>) = {} BY EmptySeq, EmptyEnds
<1>3. /\ pc' \in {"open", "page"} /\ backend' = b
      /\ taken' = Nothing /\ left' = Present(store) /\ store' = store /\ writes' = writes
      /\ rest' = <<>> /\ ids' = <<>> /\ page' = <<>> /\ yielded' = <<>>
      /\ origin' = origin /\ walks' = walks + 1 /\ walks < MaxWalks
  BY DEF Begin
<1>4. /\ cursor' = IF b = "chroma" THEN 0 ELSE IF b = "pinecone" THEN 1 ELSE None
      /\ pc' = IF Snapshots(b) THEN "open" ELSE "page"
  BY DEF Begin
<1>5. None # 0 /\ None # 1 BY IdFacts
<1>6. Nothing \in [Id -> Row \cup {None}] /\ Present(Nothing) = {} BY DEF Nothing, Present
<1>7. TypeOK'
  <2>1. walks' \in 0..MaxWalks BY <1>1, <1>3 DEF TypeOK
  <2>2. cursor' \in Nat \cup {None} BY <1>4
  <2> QED BY <1>1, <1>2, <1>3, <1>6, <2>1, <2>2, StoreFacts DEF TypeOK
<1>8. Waiting' /\ Lanes' BY <1>3, <1>4, <1>5 DEF Waiting, Lanes, Nothing, Snapshots
<1>9. Births' BY <1>3 DEF IInv, Births
<1>10. NothingLost'
  <2>1. Handed' = <<>> BY <1>2, <1>3, EmptyEnds DEF Handed
  <2>2. Once(<<>>)
    <3>1. Len(<<>>) = 0 BY EmptySeq
    <3>2. 1..Len(<<>>) = {} BY <3>1
    <3> QED BY <1>2, <3>2, OnceFacts
  <2>3. Reads(<<>>)' BY <1>2, <1>3, <1>6 DEF Reads
  <2>4. Once(<<>>)' BY <2>2 DEF Once
  <2> QED BY <2>1, <2>3, <2>4 DEF NothingLost, Reads, Once
<1>11. Ahead' BY <1>3 DEF Ahead
<1>12. PassedIds'
  <2>1. \A i \in Present(store) : i >= 1
    <3>1. Present(store) \subseteq Nat \ {0} BY StoreFacts, IdFacts, <1>1
    <3> QED BY <3>1
  <2>2. backend' \in {"qdrant", "pinecone"} => Start' = 1 BY <1>3, <1>4 DEF Start
  <2> QED BY <1>2, <1>3, <1>6, <2>1, <2>2 DEF PassedIds
<1>13. PassedRows'
  <2> SUFFICES ASSUME backend' = "chroma"
               PROVE  /\ cursor' <= Cardinality(Present(store))
                      /\ Present(taken') = Behind'
    BY <1>3, <1>6 DEF PassedRows
  <2>1. cursor' = 0 BY <1>3, <1>4
  <2>2. IsFiniteSet(Present(store)) /\ Orders(ByBirth, Present(store))
    BY <1>1, StoreFacts, BirthOrders
  <2>3. Cardinality(Present(store)) \in Nat BY <2>2, FS_CardinalityType
  <2>4. \A i \in Present(store) : ~(Rank(Present(store), ByBirth, i) < 0)
    <3> HIDE DEF Rank
    <3>1. \A i \in Present(store) :
            Rank(Present(store), ByBirth, i) \in 0..(Cardinality(Present(store)) - 1)
      BY <2>2, RankFacts
    <3> QED BY <2>3, <3>1
  <2>5. ByBirth' = ByBirth BY <1>3 DEF ByBirth
  <2>6. Behind' = {i \in Present(store) : Rank(Present(store), ByBirth, i) < 0}
    BY <1>3, <2>1, <2>5 DEF Behind, Rank
  <2>7. Behind' = {} BY <2>4, <2>6
  <2> QED BY <1>3, <1>6, <2>1, <2>3, <2>7
<1> QED BY <1>7, <1>8, <1>9, <1>10, <1>11, <1>12, <1>13 DEF IInv

\* Nothing of the collection changes.
LEMMA StoreStays ==
  ASSUME Births, UNCHANGED <<store, writes>>
  PROVE  Births' /\ Present(store') = Present(store) /\ ByBirth' = ByBirth
BY DEF Births, ByBirth

\* Ascending ids are different ids.
LEMMA AscendingOnce ==
  ASSUME NEW s \in Seq(Id), \A m, n \in 1..Len(s) : m < n => s[m] < s[n]
  PROVE  \A m, n \in 1..Len(s) : s[m] = s[n] => m = n
<1> SUFFICES ASSUME NEW m \in 1..Len(s), NEW n \in 1..Len(s), s[m] = s[n]
             PROVE  m = n
  OBVIOUS
<1>1. Len(s) \in Nat /\ s[m] \in Id /\ s[n] \in Id BY SeqFacts
<1>2. s[m] \in Nat /\ s[n] \in Nat BY <1>1, IdFacts
<1>3. ~(s[m] < s[n]) /\ ~(s[n] < s[m]) BY <1>2
<1> QED BY <1>1, <1>3

\* The ids a server lists from an offset on.
LEMMA FromFacts ==
  ASSUME TypeOK, NEW offset \in Nat
  PROVE  /\ From(offset) \in Seq(Present(store)) /\ From(offset) \in Seq(Id)
         /\ Len(From(offset)) \in Nat
         /\ ToSet(From(offset)) = {i \in Present(store) : i >= offset}
         /\ \A n \in 1..Len(From(offset)) : From(offset)[n] \in Id /\ From(offset)[n] >= offset
         /\ \A i \in Present(store) :
              i >= offset => \E n \in 1..Len(From(offset)) : From(offset)[n] = i
         /\ \A m, n \in 1..Len(From(offset)) : m < n => From(offset)[m] < From(offset)[n]
         /\ \A m, n \in 1..Len(From(offset)) : From(offset)[m] = From(offset)[n] => m = n
<1> DEFINE S == {i \in Present(store) : i >= offset}
           s == InOrder(S, ById)
<1>1. S \in SUBSET Id /\ S \subseteq Present(store) BY StoreFacts
<1>2. /\ s \in Seq(S) /\ ToSet(s) = S
      /\ \A m, n \in 1..Len(s) : m < n => s[m] < s[n]
  BY <1>1, AscendingFacts
<1>3. s = From(offset) BY DEF From
<1> HIDE DEF s
<1>4. s \in Seq(Present(store)) /\ s \in Seq(Id) BY <1>1, <1>2, SeqMonotonic
<1>5. /\ Len(s) \in Nat /\ \A n \in 1..Len(s) : s[n] \in S
      /\ \A i \in S : \E n \in 1..Len(s) : s[n] = i
  BY <1>2, SeqFacts
<1>6. \A m, n \in 1..Len(s) : s[m] = s[n] => m = n BY <1>2, <1>4, AscendingOnce
<1> QED BY <1>1, <1>2, <1>3, <1>4, <1>5, <1>6

\* A page of a list, and what of the list is behind it.
LEMMA FirstOfList ==
  ASSUME TypeOK, NEW offset \in Nat, NEW k \in Nat \ {0}
  PROVE  LET order == From(offset)
             p == First(order, k) IN
         /\ p \in Seq(Id) /\ Page(Rows(p), ToSet(p)) /\ Len(Rows(p)) = Len(p)
         /\ Len(p) = IF Len(order) < k THEN Len(order) ELSE k
         /\ \A i \in ToSet(p) : i >= offset
         /\ Len(order) <= k =>
              \A i \in Present(store) : i >= offset => i \in ToSet(p)
         /\ Len(order) > k =>
              /\ order[k + 1] \in Id
              /\ \A i \in ToSet(p) : i < order[k + 1]
              /\ \A i \in Present(store) : i >= offset => i \in ToSet(p) \/ i >= order[k + 1]
              /\ order[k + 1] >= offset
         /\ order # <<>> =>
              /\ Last(p) \in Id /\ Last(p) >= offset
              /\ \A i \in ToSet(p) : i <= Last(p)
              /\ \A i \in Present(store) : i >= offset => i \in ToSet(p) \/ i > Last(p)
<1> DEFINE order == From(offset)
           p == First(order, k)
<1>1. /\ order \in Seq(Present(store)) /\ order \in Seq(Id) /\ Len(order) \in Nat
      /\ \A n \in 1..Len(order) : order[n] \in Id /\ order[n] \in Nat /\ order[n] >= offset
      /\ \A i \in Present(store) : i >= offset => \E n \in 1..Len(order) : order[n] = i
      /\ \A m, n \in 1..Len(order) : m < n => order[m] < order[n]
      /\ \A m, n \in 1..Len(order) : order[m] = order[n] => m = n
      /\ order # <<>> => Len(order) # 0
  BY FromFacts, IdFacts, EmptySeq
<1> HIDE DEF order
<1>2. /\ p \in Seq(Present(store)) /\ p \in Seq(Id)
      /\ Len(p) = IF Len(order) < k THEN Len(order) ELSE k
      /\ \A n \in 1..Len(p) : n \in 1..Len(order) /\ p[n] = order[n]
  BY <1>1, FirstFacts
<1> HIDE DEF p
<1>3. Len(p) \in Nat /\ ToSet(p) = {p[n] : n \in 1..Len(p)} BY <1>2, SeqFacts
<1>4. Page(Rows(p), ToSet(p)) /\ Len(Rows(p)) = Len(p)
  <2>1. \A m, n \in 1..Len(p) : p[m] = p[n] => m = n BY <1>1, <1>2
  <2> QED BY <1>2, <2>1, PageFacts, IdFacts
<1>5. \A i \in ToSet(p) : i >= offset BY <1>1, <1>2, <1>3
<1>6. ASSUME NEW m \in 1..Len(p), NEW i \in Present(store), i >= offset, i \notin ToSet(p)
      PROVE  /\ i > p[m]
             /\ Len(order) > k /\ (k + 1 \in 1..Len(order) => i >= order[k + 1])
  <2>1. PICK n \in 1..Len(order) : order[n] = i BY <1>1, <1>6
  <2>2. n \notin 1..Len(p) BY <1>2, <1>3, <1>6, <2>1
  <2>3. n > Len(p) /\ m < n /\ Len(order) > k /\ n >= k + 1 BY <1>1, <1>2, <1>3, <2>2
  <2>4. p[m] = order[m] /\ m \in 1..Len(order) BY <1>2
  <2>5. order[m] < order[n] BY <1>1, <2>3, <2>4
  <2>6. order[m] \in Nat /\ i \in Nat BY <1>1, <2>1, <2>4
  <2>7. k + 1 \in 1..Len(order) => i >= order[k + 1]
    <3> SUFFICES ASSUME k + 1 \in 1..Len(order) PROVE i >= order[k + 1] OBVIOUS
    <3>1. CASE n = k + 1 BY <2>1, <2>6, <3>1
    <3>2. CASE n > k + 1 BY <1>1, <2>1, <2>6, <3>2
    <3> QED BY <2>3, <3>1, <3>2
  <2> QED BY <2>1, <2>3, <2>4, <2>5, <2>6, <2>7
<1>7. ASSUME Len(order) <= k PROVE \A i \in Present(store) : i >= offset => i \in ToSet(p)
  <2> SUFFICES ASSUME NEW i \in Present(store), i >= offset PROVE i \in ToSet(p) OBVIOUS
  <2>1. PICK n \in 1..Len(order) : order[n] = i BY <1>1
  <2>2. n \in 1..Len(p) BY <1>1, <1>2, <1>7
  <2> QED BY <1>2, <1>3, <2>1, <2>2
<1>8. ASSUME Len(order) > k
      PROVE  /\ order[k + 1] \in Id
             /\ \A i \in ToSet(p) : i < order[k + 1]
             /\ \A i \in Present(store) : i >= offset => i \in ToSet(p) \/ i >= order[k + 1]
             /\ order[k + 1] >= offset
  <2>1. Len(p) = k /\ k + 1 \in 1..Len(order) /\ 1 \in 1..Len(p) BY <1>1, <1>2, <1>8
  <2>2. order[k + 1] \in Id /\ order[k + 1] >= offset BY <1>1, <2>1
  <2>3. \A n \in 1..Len(p) : p[n] < order[k + 1]
    <3> TAKE n \in 1..Len(p)
    <3>1. n \in 1..Len(order) /\ n < k + 1 /\ p[n] = order[n] BY <1>2, <2>1
    <3> QED BY <1>1, <2>1, <3>1
  <2> QED BY <1>3, <1>6, <2>1, <2>2, <2>3
<1>9. ASSUME order # <<>>
      PROVE  /\ Last(p) \in Id /\ Last(p) >= offset
             /\ \A i \in ToSet(p) : i <= Last(p)
             /\ \A i \in Present(store) : i >= offset => i \in ToSet(p) \/ i > Last(p)
  <2>1. Len(p) \in 1..Len(p) /\ Last(p) = p[Len(p)] BY <1>1, <1>2, <1>9 DEF Last
  <2>2. Last(p) \in Id /\ Last(p) \in Nat /\ Last(p) >= offset BY <1>1, <1>2, <2>1
  <2>3. \A n \in 1..Len(p) : p[n] <= Last(p)
    <3> TAKE n \in 1..Len(p)
    <3>1. /\ n \in 1..Len(order) /\ Len(p) \in 1..Len(order)
          /\ p[n] = order[n] /\ Last(p) = order[Len(p)]
      BY <1>2, <2>1
    <3>2. n = Len(p) \/ n < Len(p) BY <1>3
    <3> QED BY <1>1, <2>2, <3>1, <3>2
  <2>4. \A i \in Present(store) : i >= offset => i \in ToSet(p) \/ i > Last(p)
    BY <1>6, <2>1
  <2> QED BY <1>3, <2>2, <2>3, <2>4
<1> QED BY <1>2, <1>4, <1>5, <1>7, <1>8, <1>9 DEF order, p

LEMMA GotKeeps ==
  ASSUME TypeOK, Waiting, NothingLost, pc \in {"page", "fetch"}, page = <<>>,
         NEW rows, NEW S, Page(rows, S), Got(rows), S \cap Present(taken) = {},
         rest' = rest, yielded' = yielded
  PROVE  NothingLost'
<1>1. yielded \in Seq(Read) /\ rows \in Seq(Read) /\ rest = <<>> BY DEF TypeOK, Page, Waiting
<1>2. Handed = yielded BY <1>1, EmptyEnds DEF Handed
<1>3. Reads(yielded) /\ Once(yielded) BY <1>2 DEF NothingLost
<1>4. /\ ToSet(yielded \o rows) = {[id |-> i, row |-> taken'[i]] : i \in Present(taken')}
      /\ Once(yielded \o rows)
  BY <1>3, GotReads
<1>5. Handed' = yielded \o rows
  <2>1. page' = rows BY GotTypes
  <2>2. yielded \o rows \in Seq(Read) BY <1>1, ConcatProperties
  <2> QED BY <1>1, <2>1, <2>2, EmptyEnds DEF Handed
<1> QED BY <1>4, <1>5 DEF NothingLost, Reads, Once

\* The contract's steps.
LEMMA TakeStep ==
  ASSUME TypeOK, NEW rows, NEW S, Page(rows, S), Got(rows), S \cap Present(taken) = {},
         Walking, Walking', store' = store
  PROVE  Contract!Next
<1>1. S \subseteq Id /\ S \subseteq Present(store) BY StoreFacts DEF Page
<1>2. taken' = [i \in Id |-> IF i \in S THEN store[i] ELSE taken[i]] /\ left' = left \ S
  BY GotTypes
<1>3. S \subseteq Contract!Present(store) /\ \A i \in S : taken[i] = None
  BY <1>1 DEF Contract!Present, Present
<1>4. Contract!Take(S) BY <1>2, <1>3 DEF Contract!Take
<1> QED BY <1>1, <1>4 DEF Contract!Next

LEMMA EndStep ==
  ASSUME Walking, pc' = "ended", left = {}, UNCHANGED <<store, taken, left>>
  PROVE  Contract!Next
BY DEF Contract!Next, Contract!End, Walking

LEMMA IdleStep ==
  ASSUME Walking <=> Walking', ~Walking => pc' = pc, UNCHANGED <<store, taken, left>>
  PROVE  UNCHANGED Contract!vars
BY DEF Contract!vars, Walking

LEMMA ReadSnapshotKeeps ==
  ASSUME IInv, ReadSnapshot
  PROVE  IInv' /\ Contract!Next
<1> DEFINE P == Present(store)
<1>1. /\ TypeOK /\ Snapshots(backend) /\ Steady /\ NothingLost
      /\ taken = Nothing /\ yielded = <<>> /\ page = <<>> /\ ids = <<>> /\ rest = <<>>
      /\ left \subseteq P
  BY DEF IInv, ReadSnapshot, Lanes, Waiting, Snapshots, Steady, Ahead
<1>2. /\ From(1) \in Seq(P) /\ ToSet(From(1)) = P
      /\ \A m, n \in 1..Len(From(1)) : From(1)[m] = From(1)[n] => m = n
  <2>1. P \subseteq Nat \ {0}
    <3>1. P \subseteq Id BY <1>1, StoreFacts
    <3> QED BY <3>1, IdFacts
  <2> HIDE DEF P
  <2>2. \A i \in P : i >= 1 BY <2>1
  <2>3. {i \in P : i >= 1} = P BY <2>2
  <2> QED BY <1>1, <2>3, FromFacts DEF P
<1>3. Page(Rows(From(1)), P) BY <1>1, <1>2, PageFacts, IdFacts
<1>4. /\ pc' = "chunk" /\ rest' = Rows(From(1)) /\ taken' = store /\ origin' = store /\ left' = {}
      /\ UNCHANGED <<store, backend, cursor, ids, page, yielded, writes, walks>>
  BY DEF ReadSnapshot
<1> DEFINE rows == Rows(From(1))
<1>5. rows \in Seq(Read) BY <1>3 DEF Page
<1>6. TypeOK' BY <1>1, <1>4, <1>5 DEF TypeOK
<1>7. Waiting' /\ Lanes' BY <1>1, <1>4 DEF Waiting, Lanes, Snapshots
<1>8. Births' BY <1>4, StoreStays DEF IInv
<1>9. NothingLost'
  <2>1. /\ yielded \in Seq(Read) /\ <<>> \in Seq(Read) /\ Present(taken) = {}
        /\ ToSet(<<>>) = {}
    BY <1>1, EmptySeq, EmptyEnds DEF TypeOK, Nothing, Present
  <2>2. Reads(yielded) /\ Once(yielded)
    <3>1. Handed = yielded BY <1>1, <2>1, EmptyEnds DEF Handed
    <3> QED BY <1>1, <3>1 DEF NothingLost, ReadSnapshot
  <2>3. Handed' = <<>> \o rows
    <3>1. <<>> \o rows \in Seq(Read) /\ <<>> \o <<>> = <<>> BY <1>5, <2>1, EmptyEnds
    <3> QED BY <1>1, <1>4 DEF Handed
  <2>4. Handed' = rows BY <1>5, <2>3, EmptyEnds
  <2>5. ToSet(rows) = {[id |-> i, row |-> store[i]] : i \in P} /\ Once(rows)
    <3>1. DOMAIN From(1) = 1..Len(From(1)) /\ ToSet(From(1)) = {From(1)[n] : n \in 1..Len(From(1))}
      BY <1>2, SeqFacts
    <3>2. rows = [n \in 1..Len(From(1)) |-> [id |-> From(1)[n], row |-> store[From(1)[n]]]]
      BY <3>1 DEF Rows
    <3>3. ToSet(rows) = {[id |-> From(1)[n], row |-> store[From(1)[n]]] : n \in 1..Len(From(1))}
      BY <3>2 DEF ToSet
    <3>4. ToSet(rows) = {[id |-> i, row |-> store[i]] : i \in P} BY <1>2, <3>1, <3>3
    <3>5. Once(rows) BY <1>3, <1>5, OnceFacts DEF Page
    <3> QED BY <3>4, <3>5
  <2> QED BY <1>4, <2>4, <2>5 DEF NothingLost, Reads, Once
<1>10. Ahead' /\ PassedIds' /\ PassedRows' BY <1>4 DEF Ahead, PassedIds, PassedRows
<1>11. Contract!Next
  <2>1. P \subseteq Id /\ P = Contract!Present(store)
    BY <1>1, StoreFacts DEF Contract!Present, Present
  <2>2. \A i \in P : taken[i] = None BY <1>1, <2>1 DEF Nothing
  <2>3. taken' = [i \in Id |-> IF i \in P THEN store[i] ELSE taken[i]]
    <3>1. \A i \in Id : i \notin P => store[i] = taken[i] BY <1>1 DEF Nothing, Present
    <3>2. store = [i \in Id |-> store[i]] BY <1>1 DEF TypeOK
    <3> QED BY <1>4, <3>1, <3>2
  <2>4. left' = left \ P BY <1>1, <1>4
  <2>5. Walking /\ Walking' BY <1>4 DEF Walking, ReadSnapshot
  <2>6. Contract!Take(P) BY <1>4, <2>1, <2>2, <2>3, <2>4, <2>5 DEF Contract!Take
  <2> QED BY <2>1, <2>6 DEF Contract!Next
<1> QED BY <1>6, <1>7, <1>8, <1>9, <1>10, <1>11 DEF IInv

LEMMA NextChunkKeeps ==
  ASSUME IInv, NextChunk
  PROVE  /\ IInv'
         /\ [Contract!Next]_(Contract!vars)
<1>1. /\ TypeOK /\ Snapshots(backend) /\ Steady /\ NothingLost /\ Waiting /\ Lanes
      /\ pc = "chunk" /\ page = <<>> /\ left = {} /\ BatchSize \in Nat
  BY IdFacts DEF IInv, NextChunk, Lanes, Snapshots, Steady, Ahead
<1>2. /\ page' = First(rest, BatchSize)
      /\ rest' = SubSeq(rest, Len(First(rest, BatchSize)) + 1, Len(rest))
      /\ pc' = IF rest = <<>> THEN "ended" ELSE pc
      /\ UNCHANGED <<store, backend, cursor, ids, yielded, left, taken, origin, writes, walks>>
  BY DEF NextChunk
<1>3. /\ page' \in Seq(Read) /\ rest' \in Seq(Read) /\ page' \o rest' = rest
      /\ yielded \o page' \o rest' = yielded \o rest
      /\ rest \in Seq(Read) /\ yielded \in Seq(Read)
  <2>1. rest \in Seq(Read) /\ yielded \in Seq(Read) BY <1>1 DEF TypeOK
  <2>2. BatchSize \in Nat BY <1>1
  <2> DEFINE p == First(rest, BatchSize)
             r == SubSeq(rest, Len(First(rest, BatchSize)) + 1, Len(rest))
  <2>3. p \in Seq(Read) /\ r \in Seq(Read) /\ p \o r = rest /\ yielded \o p \o r = yielded \o rest
    <3>1. p \in Seq(Read) BY <2>1, <2>2, ChunkFacts
    <3>2. r \in Seq(Read) /\ p \o r = rest BY <2>1, <2>2, ChunkFacts
    <3>3. ASSUME NEW y \in Seq(Read) PROVE y \o p \o r = y \o rest
      <4>1. y \o First(rest, BatchSize) \o SubSeq(rest, Len(First(rest, BatchSize)) + 1, Len(rest))
              = y \o rest
        BY <2>1, <2>2, ChunkBehind, Zenon
      <4> QED BY <4>1
    <3> QED BY <2>1, <3>1, <3>2, <3>3
  <2>4. page' = p /\ rest' = r BY <1>2
  <2> HIDE DEF p, r
  <2> QED BY <2>1, <2>3, <2>4
<1>4. TypeOK' BY <1>1, <1>2, <1>3 DEF TypeOK
<1>5. rest = <<>> => page' = <<>> /\ rest' = <<>> BY <1>3, ConcatEqualIffEmpty
<1>6. Waiting' /\ Lanes' BY <1>1, <1>2, <1>5 DEF Waiting, Lanes, Snapshots
<1>7. Births' BY <1>2, StoreStays DEF IInv
<1>8. NothingLost'
  <2>1. Handed = yielded \o rest BY <1>1, <1>3, EmptyEnds DEF Handed
  <2>3. Handed' = Handed BY <1>2, <1>3, <2>1 DEF Handed
  <2>4. taken' = taken BY <1>2
  <2>5. Reads(Handed) /\ Once(Handed) BY <1>1 DEF NothingLost
  <2> QED BY <2>3, <2>4, <2>5 DEF NothingLost, Reads, Once
<1>9. Ahead' /\ PassedIds' /\ PassedRows'
  BY <1>1, <1>2 DEF IInv, Ahead, PassedIds, PassedRows, Snapshots
<1>10. [Contract!Next]_(Contract!vars)
  <2>1. CASE rest = <<>> BY <1>1, <1>2, <2>1, EndStep DEF Walking
  <2>2. CASE rest # <<>> BY <1>1, <1>2, <2>2, IdleStep DEF Walking
  <2> QED BY <2>1, <2>2
<1> QED BY <1>4, <1>6, <1>7, <1>8, <1>9, <1>10 DEF IInv

LEMMA StartFacts ==
  ASSUME TypeOK
  PROVE  Start \in Nat
BY DEF TypeOK, Start

LEMMA ScrollPageKeeps ==
  ASSUME IInv, ScrollPage
  PROVE  /\ IInv'
         /\ Steady => [Contract!Next]_(Contract!vars)
<1> DEFINE order == From(Start)
           p == First(order, BatchSize)
           rows == Rows(p)
           S == ToSet(p)
           more == Len(order) > BatchSize
<1>1. /\ TypeOK /\ Waiting /\ Lanes /\ Births
      /\ backend = "qdrant" /\ pc = "page" /\ page = <<>> /\ rest = <<>> /\ ids = <<>>
      /\ BatchSize \in Nat \ {0} /\ Start \in Nat
  BY IdFacts, StartFacts DEF IInv, ScrollPage, Waiting
<1>2. /\ Got(rows) /\ cursor' = IF more THEN order[BatchSize + 1] ELSE None
      /\ pc' = IF order = <<>> THEN "ended" ELSE IF more THEN "page" ELSE "last"
      /\ UNCHANGED <<store, backend, rest, ids, yielded, origin, writes, walks>>
  BY DEF ScrollPage, Start
<1>3. /\ order \in Seq(Id) /\ Len(order) \in Nat
      /\ \A i \in Present(store) : i >= Start => \E n \in 1..Len(order) : order[n] = i
  BY <1>1, FromFacts
<1>4. /\ Page(rows, S) /\ \A i \in S : i >= Start
      /\ ~more => \A i \in Present(store) : i >= Start => i \in S
      /\ more => /\ order[BatchSize + 1] \in Id
                 /\ \A i \in S : i < order[BatchSize + 1]
                 /\ \A i \in Present(store) : i >= Start => i \in S \/ i >= order[BatchSize + 1]
                 /\ order[BatchSize + 1] >= Start
  <2>1. Len(order) <= BatchSize <=> ~more BY <1>1, <1>3
  <2> QED BY <1>1, <2>1, FirstOfList
<1>5. order = <<>> => rows = <<>> /\ ~more
  <2> SUFFICES ASSUME order = <<>> PROVE rows = <<>> /\ ~more OBVIOUS
  <2>1. Len(order) = 0 BY EmptySeq
  <2>2. Len(rows) = 0
    <3>1. Len(rows) = Len(p) /\ Len(p) = IF Len(order) < BatchSize THEN Len(order) ELSE BatchSize
      BY <1>1, FirstOfList
    <3> QED BY <1>1, <2>1, <3>1
  <2>3. rows = <<>> BY <1>4, <2>2, SeqFacts DEF Page
  <2> QED BY <1>1, <2>1, <2>3
<1> HIDE DEF order, p, rows, S, more
<1>6. /\ page' \in Seq(Read) /\ page' = rows
      /\ taken' \in [Id -> Row \cup {None}] /\ left' \in SUBSET Id /\ left' = left \ S
      /\ taken' = [i \in Id |-> IF i \in S THEN store[i] ELSE taken[i]]
      /\ Present(taken') = Present(taken) \cup S
  BY <1>1, <1>2, <1>4, GotTypes
<1>7. TypeOK'
  <2>1. cursor' \in Nat \cup {None} BY <1>2, <1>4, IdFacts
  <2> QED BY <1>1, <1>2, <1>6, <2>1 DEF TypeOK
<1>8. Waiting' /\ Lanes' BY <1>1, <1>2, <1>5, <1>6 DEF Waiting, Lanes, Snapshots
<1>9. Births' BY <1>1, <1>2, StoreStays
<1>10. ASSUME Steady
       PROVE  /\ NothingLost' /\ Ahead' /\ PassedIds' /\ PassedRows'
              /\ [Contract!Next]_(Contract!vars)
  <2>1. /\ \A i \in Present(taken) : i < Start
        /\ \A i \in left : i >= Start /\ i \in Present(store)
        /\ NothingLost
    <3>1. ToSet(ids) = {} BY <1>1, EmptyEnds DEF TypeOK
    <3> QED BY <1>1, <1>10, <3>1 DEF IInv, PassedIds, Ahead
  <2>2. S \cap Present(taken) = {}
    <3>1. \A i \in S : ~(i < Start)
      <4>1. S \subseteq Nat BY <1>1, <1>4, StoreFacts, IdFacts DEF Page
      <4> QED BY <1>1, <1>4, <4>1
    <3> QED BY <2>1, <3>1
  <2>3. NothingLost' BY <1>1, <1>2, <1>4, <2>1, <2>2, GotKeeps
  <2>4. ~more => left' = {} BY <1>4, <1>6, <2>1
  <2>5. left' \subseteq Present(store') BY <1>2, <1>6, <2>1
  <2>6. Ahead' BY <1>2, <1>5, <2>4, <2>5 DEF Ahead
  <2>7. PassedIds'
    <3> SUFFICES ASSUME pc' = "page"
                 PROVE  /\ \A i \in ToSet(ids') : i < Start'
                        /\ \A i \in Present(taken') : i < Start' /\ i \notin ToSet(ids')
                        /\ \A i \in left' : i >= Start' \/ i \in ToSet(ids')
      BY <1>2 DEF PassedIds
    <3>1. more BY <1>2
    <3>2. cursor' = order[BatchSize + 1] /\ cursor' # None /\ Start' = cursor' /\ cursor' \in Nat
      BY <1>2, <1>4, <3>1, IdFacts DEF Start
    <3>3. ToSet(ids') = {} BY <1>1, <1>2, EmptyEnds DEF TypeOK
    <3>4. \A i \in Present(taken) : i < Start'
      <4>1. Present(taken) \subseteq Nat BY <1>1, StoreFacts, IdFacts
      <4> QED BY <1>1, <1>4, <2>1, <3>1, <3>2, <4>1
    <3>5. \A i \in left' : i >= Start' BY <1>4, <1>6, <2>1, <3>1, <3>2
    <3> QED BY <1>4, <1>6, <3>1, <3>2, <3>3, <3>4, <3>5
  <2>8. PassedRows' BY <1>1, <1>2 DEF PassedRows
  <2>9. [Contract!Next]_(Contract!vars)
    <3>1. CASE order = <<>>
      <4>1. S = {} BY <1>4, <1>5, <3>1 DEF Page
      <4>2. taken' = taken BY <1>1, <1>6, <4>1 DEF TypeOK
      <4>3. left = {} /\ left' = left BY <1>5, <1>6, <2>4, <3>1, <4>1
      <4> QED BY <1>1, <1>2, <3>1, <4>2, <4>3, EndStep DEF Walking
    <3>2. CASE order # <<>>
      <4>1. Walking /\ Walking' BY <1>1, <1>2, <3>2 DEF Walking
      <4> QED BY <1>1, <1>2, <1>4, <2>2, <4>1, TakeStep
    <3> QED BY <3>1, <3>2
  <2> QED BY <2>3, <2>6, <2>7, <2>8, <2>9
<1>11. Steady' => Steady BY <1>2 DEF Steady
<1> QED BY <1>7, <1>8, <1>9, <1>10, <1>11 DEF IInv

LEMMA ListPageKeeps ==
  ASSUME IInv, ListPage
  PROVE  /\ IInv'
         /\ Steady => [Contract!Next]_(Contract!vars)
<1> DEFINE order == From(cursor)
           p == First(order, BatchSize)
<1>1. /\ TypeOK /\ Waiting /\ Lanes /\ Births
      /\ backend = "pinecone" /\ pc = "page" /\ page = <<>> /\ rest = <<>> /\ ids = <<>>
      /\ BatchSize \in Nat \ {0} /\ cursor # None /\ cursor \in Nat /\ Start = cursor
  BY IdFacts DEF IInv, ListPage, Waiting, Lanes, TypeOK, Start
<1>2. /\ ids' = p
      /\ pc' = IF order = <<>> THEN "ended" ELSE "fetch"
      /\ cursor' = IF order = <<>> THEN cursor ELSE Last(p) + 1
      /\ UNCHANGED <<store, backend, rest, page, yielded, left, taken, origin, writes, walks>>
  BY DEF ListPage
<1>3. /\ order \in Seq(Id) /\ Len(order) \in Nat /\ p \in Seq(Id)
      /\ \A i \in Present(store) : i >= cursor => \E n \in 1..Len(order) : order[n] = i
      /\ Len(p) = IF Len(order) < BatchSize THEN Len(order) ELSE BatchSize
  BY <1>1, FromFacts, FirstOfList
<1>4. /\ \A i \in ToSet(p) : i >= cursor
      /\ order # <<>> =>
           /\ Last(p) \in Nat /\ Last(p) >= cursor /\ Last(p) + 1 # None
           /\ \A i \in ToSet(p) : i <= Last(p)
           /\ \A i \in Present(store) : i >= cursor => i \in ToSet(p) \/ i > Last(p)
  <2>1. /\ \A i \in ToSet(p) : i >= cursor
        /\ order # <<>> =>
             /\ Last(p) \in Id /\ Last(p) >= cursor
             /\ \A i \in ToSet(p) : i <= Last(p)
             /\ \A i \in Present(store) : i >= cursor => i \in ToSet(p) \/ i > Last(p)
    <3>1. TypeOK /\ cursor \in Nat /\ BatchSize \in Nat \ {0} BY <1>1
    <3>2. \A i \in ToSet(p) : i >= cursor BY <3>1, FirstOfList
    <3>3. order # <<>> => /\ Last(p) \in Id /\ Last(p) >= cursor
                          /\ \A i \in ToSet(p) : i <= Last(p)
      BY <3>1, FirstOfList
    <3>4. order # <<>> => \A i \in Present(store) : i >= cursor => i \in ToSet(p) \/ i > Last(p)
      BY <3>1, FirstOfList
    <3> QED BY <3>2, <3>3, <3>4
  <2> HIDE DEF order, p
  <2>2. order # <<>> => Last(p) \in Nat BY <2>1, IdFacts
  <2>3. order # <<>> => Last(p) + 1 \in Nat BY <2>2
  <2>4. order # <<>> => Last(p) + 1 # None BY <2>3, IdFacts
  <2> QED BY <2>1, <2>2, <2>4
<1> HIDE DEF order, p
<1>5. order = <<>> => p = <<>> /\ \A i \in Present(store) : ~(i >= cursor)
  <2> SUFFICES ASSUME order = <<>>
               PROVE  p = <<>> /\ \A i \in Present(store) : ~(i >= cursor)
    OBVIOUS
  <2>1. Len(order) = 0 BY EmptySeq
  <2>2. Len(p) = 0 BY <1>1, <1>3, <2>1
  <2> QED BY <1>3, <2>1, <2>2, SeqFacts
<1>6. TypeOK'
  <2>1. cursor' \in Nat \cup {None} BY <1>1, <1>2, <1>4
  <2> QED BY <1>1, <1>2, <1>3, <2>1 DEF TypeOK
<1>7. Waiting' /\ Lanes'
  <2>1. cursor' # None BY <1>1, <1>2, <1>4
  <2> QED BY <1>1, <1>2, <1>5, <2>1 DEF Waiting, Lanes, Snapshots
<1>8. Births' BY <1>1, <1>2, StoreStays
<1>9. ASSUME Steady
      PROVE  /\ NothingLost' /\ Ahead' /\ PassedIds' /\ PassedRows'
             /\ [Contract!Next]_(Contract!vars)
  <2>1. /\ \A i \in Present(taken) : i < cursor
        /\ \A i \in left : i >= cursor /\ i \in Present(store)
        /\ NothingLost
    <3>1. ToSet(ids) = {} BY <1>1, EmptyEnds DEF TypeOK
    <3> QED BY <1>1, <1>9, <3>1 DEF IInv, PassedIds, Ahead
  <2>2. NothingLost' BY <1>1, <1>2, <2>1 DEF NothingLost, Reads, Once, Handed, Present
  <2>3. order = <<>> => left = {} BY <1>5, <2>1
  <2>4. Ahead' BY <1>2, <2>1, <2>3 DEF Ahead
  <2>5. PassedIds'
    <3> SUFFICES ASSUME order # <<>>
                 PROVE  /\ \A i \in ToSet(p) : i < cursor'
                        /\ \A i \in Present(taken) : i < cursor' /\ i \notin ToSet(p)
                        /\ \A i \in left : i >= cursor' \/ i \in ToSet(p)
      BY <1>1, <1>2, <1>4 DEF PassedIds, Start
    <3>1. /\ cursor' = Last(p) + 1 /\ Last(p) \in Nat /\ Last(p) >= cursor
          /\ Present(taken) \subseteq Nat /\ left \subseteq Nat /\ ToSet(p) \subseteq Nat
      <4>1. Present(taken) \subseteq Id /\ left \subseteq Id /\ ToSet(p) \subseteq Id
        BY <1>1, <1>3, StoreFacts, SeqFacts DEF TypeOK
      <4> QED BY <1>2, <1>4, <4>1, IdFacts
    <3>2. \A i \in ToSet(p) : i < cursor' BY <1>4, <3>1
    <3>3. \A i \in Present(taken) : i < cursor' /\ i \notin ToSet(p)
      BY <1>1, <1>4, <2>1, <3>1
    <3>4. \A i \in left : i >= cursor' \/ i \in ToSet(p) BY <1>4, <2>1, <3>1
    <3> QED BY <3>2, <3>3, <3>4
  <2>6. PassedRows' BY <1>1, <1>2 DEF PassedRows
  <2>7. [Contract!Next]_(Contract!vars)
    <3>1. CASE order = <<>> BY <1>1, <1>2, <2>3, <3>1, EndStep DEF Walking
    <3>2. CASE order # <<>> BY <1>1, <1>2, <3>2, IdleStep DEF Walking
    <3> QED BY <3>1, <3>2
  <2> QED BY <2>2, <2>4, <2>5, <2>6, <2>7
<1>10. Steady' => Steady BY <1>2 DEF Steady
<1> QED BY <1>6, <1>7, <1>8, <1>9, <1>10 DEF IInv

LEMMA FetchIdsKeeps ==
  ASSUME IInv, FetchIds
  PROVE  /\ IInv'
         /\ Steady => [Contract!Next]_(Contract!vars)
<1> DEFINE S == {i \in ToSet(ids) : store[i] # None}
           order == InOrder(S, ById)
           rows == Rows(order)
<1>1. /\ TypeOK /\ Waiting /\ Lanes /\ Births
      /\ backend = "pinecone" /\ pc = "fetch" /\ page = <<>> /\ rest = <<>>
      /\ cursor # None /\ cursor \in Nat /\ Start = cursor
  BY DEF IInv, FetchIds, Waiting, Lanes, TypeOK, Start
<1>2. /\ Got(rows) /\ pc' = "page" /\ ids' = <<>>
      /\ UNCHANGED <<store, backend, cursor, rest, yielded, origin, writes, walks>>
  BY DEF FetchIds
<1>3. S \subseteq Id /\ S \subseteq Present(store)
  <2>1. ToSet(ids) \subseteq Id BY <1>1, SeqFacts DEF TypeOK
  <2> QED BY <2>1 DEF Present
<1>4. Page(rows, S)
  <2> HIDE DEF S
  <2>1. /\ order \in Seq(S) /\ ToSet(order) = S
        /\ \A m, n \in 1..Len(order) : m < n => order[m] < order[n]
    BY <1>3, AscendingFacts
  <2> HIDE DEF order
  <2>2. order \in Seq(Present(store)) /\ order \in Seq(Id) BY <1>3, <2>1, SeqMonotonic
  <2>3. \A m, n \in 1..Len(order) : order[m] = order[n] => m = n BY <2>1, <2>2, AscendingOnce
  <2>4. Page(Rows(order), ToSet(order)) BY <1>1, <2>2, <2>3, PageFacts, IdFacts
  <2> QED BY <2>1, <2>4
<1> HIDE DEF rows, order
<1>5. /\ page' \in Seq(Read) /\ page' = rows
      /\ taken' \in [Id -> Row \cup {None}] /\ left' \in SUBSET Id /\ left' = left \ S
      /\ taken' = [i \in Id |-> IF i \in S THEN store[i] ELSE taken[i]]
      /\ Present(taken') = Present(taken) \cup S
  <2> HIDE DEF S
  <2> QED BY <1>1, <1>2, <1>4, GotTypes
<1>6. TypeOK'
  <2>1. <<>> \in Seq(Id) BY EmptySeq
  <2> QED BY <1>1, <1>2, <1>5, <2>1 DEF TypeOK
<1>7. Waiting' /\ Lanes' BY <1>1, <1>2 DEF Waiting, Lanes, Snapshots
<1>8. Births' BY <1>1, <1>2, StoreStays
<1>9. ASSUME Steady
      PROVE  /\ NothingLost' /\ Ahead' /\ PassedIds' /\ PassedRows'
             /\ [Contract!Next]_(Contract!vars)
  <2>1. /\ \A i \in ToSet(ids) : i < cursor
        /\ \A i \in Present(taken) : i < cursor /\ i \notin ToSet(ids)
        /\ \A i \in left : (i >= cursor \/ i \in ToSet(ids)) /\ i \in Present(store)
        /\ NothingLost
    BY <1>1, <1>9 DEF IInv, PassedIds, Ahead
  <2>2. S \cap Present(taken) = {} BY <2>1
  <2>3. left' \subseteq Present(store) /\ \A i \in left' : i >= cursor BY <1>5, <2>1 DEF Present
  <2>4. \A i \in Present(taken') : i < cursor BY <1>5, <2>1
  <2> HIDE DEF S
  <2>5. NothingLost' BY <1>1, <1>2, <1>4, <2>1, <2>2, GotKeeps
  <2>6. Ahead' BY <1>2, <2>3 DEF Ahead
  <2>7. PassedIds'
    <3>1. ToSet(<<>>) = {} BY <1>1, EmptyEnds DEF TypeOK
    <3> QED BY <1>1, <1>2, <2>3, <2>4, <3>1 DEF PassedIds, Start
  <2>8. PassedRows' BY <1>1, <1>2 DEF PassedRows
  <2>9. Contract!Next
    <3>1. Walking /\ Walking' BY <1>1, <1>2 DEF Walking
    <3> QED BY <1>1, <1>2, <1>4, <2>2, <3>1, TakeStep
  <2> QED BY <2>5, <2>6, <2>7, <2>8, <2>9
<1>10. Steady' => Steady BY <1>2 DEF Steady
<1> QED BY <1>6, <1>7, <1>8, <1>9, <1>10 DEF IInv

\* A page of Chroma's list: the rows whose rank is from the offset on.
LEMMA OffsetFacts ==
  ASSUME TypeOK, cursor \in Nat
  PROVE  LET rows == First(Rows(SubSeq(Listing, cursor + 1, Len(Listing))), BatchSize)
             P == Present(store)
             S == {i \in P : /\ cursor <= Rank(P, ByBirth, i)
                             /\ Rank(P, ByBirth, i) < cursor + Len(rows)} IN
         /\ Page(rows, S) /\ Len(rows) \in Nat
         /\ Cardinality(P) \in Nat
         /\ \A i \in P : Rank(P, ByBirth, i) \in Nat /\ Rank(P, ByBirth, i) < Cardinality(P)
         /\ cursor <= Cardinality(P) => cursor + Len(rows) <= Cardinality(P)
         /\ cursor <= Cardinality(P) /\ Len(rows) < BatchSize => cursor + Len(rows) = Cardinality(P)
<1> DEFINE P == Present(store)
           rk(i) == Rank(P, ByBirth, i)
           c == Cardinality(P)
           q == SubSeq(Listing, cursor + 1, Len(Listing))
           rows == First(Rows(q), BatchSize)
           k == Len(rows)
           S == {i \in P : cursor <= rk(i) /\ rk(i) < cursor + k}
<1>1. /\ Listing \in Seq(P) /\ Len(Listing) = c /\ c \in Nat
      /\ \A n \in 1..c : rk(Listing[n]) = n - 1
      /\ \A i \in P : rk(i) + 1 \in 1..c /\ Listing[rk(i) + 1] = i
      /\ \A i \in P : rk(i) \in 0..(c - 1)
  <2>1. IsFiniteSet(P) /\ Orders(ByBirth, P) BY StoreFacts, BirthOrders
  <2>2. /\ InOrder(P, ByBirth) \in Seq(P) /\ Len(InOrder(P, ByBirth)) = c /\ c \in Nat
        /\ \A n \in 1..c : rk(InOrder(P, ByBirth)[n]) = n - 1
        /\ \A i \in P : rk(i) + 1 \in 1..c /\ InOrder(P, ByBirth)[rk(i) + 1] = i
    BY <2>1, InOrderFacts
  <2>3. \A i \in P : rk(i) \in 0..(c - 1) BY <2>1, RankFacts
  <2> QED BY <2>2, <2>3 DEF Listing
<1> HIDE DEF P, c, rk
<1>2. /\ q \in Seq(P) /\ Len(q) = IF cursor < c THEN c - cursor ELSE 0
      /\ \A n \in 1..Len(q) : cursor + n \in 1..c /\ q[n] = Listing[cursor + n]
  BY <1>1, RestFacts
<1> HIDE DEF q
<1>3. \A n \in 1..Len(q) : q[n] \in P /\ rk(q[n]) = cursor + n - 1
  <2> TAKE n \in 1..Len(q)
  <2>1. q[n] \in P BY <1>2, SeqFacts
  <2>2. cursor + n \in 1..c /\ q[n] = Listing[cursor + n] BY <1>2
  <2>3. rk(Listing[cursor + n]) = cursor + n - 1 BY <1>1, <2>2
  <2> QED BY <2>1, <2>2, <2>3
<1>4. \A m, n \in 1..Len(q) : q[m] = q[n] => m = n
  <2> SUFFICES ASSUME NEW m \in 1..Len(q), NEW n \in 1..Len(q), q[m] = q[n] PROVE m = n
    OBVIOUS
  <2>1. cursor + m - 1 = cursor + n - 1 BY <1>3
  <2> QED BY <1>1, <1>2, <2>1
<1>5. /\ Page(rows, {q[n] : n \in 1..k})
      /\ k = IF Len(q) < BatchSize THEN Len(q) ELSE BatchSize
  <2>1. q \in Seq(Present(store)) BY <1>2 DEF P
  <2>2. BatchSize \in Nat BY IdFacts
  <2> QED BY <1>4, <2>1, <2>2, PageFacts
<1> HIDE DEF rows
<1>6. k \in Nat /\ k <= Len(q) /\ Len(q) \in Nat /\ BatchSize \in Nat
  BY <1>1, <1>2, <1>5, IdFacts
<1> HIDE DEF k
<1>7. {q[n] : n \in 1..k} = S
  <2>1. \A n \in 1..k : q[n] \in S
    <3> TAKE n \in 1..k
    <3>1. n \in 1..Len(q) BY <1>6
    <3>2. q[n] \in P /\ rk(q[n]) = cursor + n - 1 BY <1>3, <3>1
    <3> QED BY <1>6, <3>2
  <2>2. \A i \in S : \E n \in 1..k : q[n] = i
    <3> TAKE i \in S
    <3> DEFINE n == rk(i) + 1 - cursor
    <3>1. /\ i \in P /\ rk(i) \in Nat /\ Listing[rk(i) + 1] = i
          /\ cursor <= rk(i) /\ rk(i) < cursor + k
      BY <1>1
    <3>2. n \in 1..k /\ cursor + n = rk(i) + 1 BY <1>6, <3>1
    <3> HIDE DEF n
    <3>3. n \in 1..Len(q) BY <1>6, <3>2
    <3>4. q[n] = i BY <1>2, <3>1, <3>2, <3>3
    <3> QED BY <3>2, <3>4
  <2> HIDE DEF S
  <2> QED BY <2>1, <2>2
<1>8. \A i \in P : rk(i) \in Nat /\ rk(i) < c BY <1>1
<1>9. /\ cursor <= c => cursor + k <= c
      /\ cursor <= c /\ k < BatchSize => cursor + k = c
  <2>1. Len(q) = IF cursor < c THEN c - cursor ELSE 0 BY <1>2
  <2>2. k = IF Len(q) < BatchSize THEN Len(q) ELSE BatchSize BY <1>5
  <2>3. c \in Nat BY <1>1
  <2> QED BY <1>6, <2>1, <2>2, <2>3
<1>10. Page(rows, S) BY <1>5, <1>7
<1> QED BY <1>1, <1>6, <1>8, <1>9, <1>10 DEF P, rk, c, q, rows, k

LEMMA OffsetPageKeeps ==
  ASSUME IInv, OffsetPage
  PROVE  /\ IInv'
         /\ Steady => [Contract!Next]_(Contract!vars)
<1> DEFINE P == Present(store)
           rk(i) == Rank(P, ByBirth, i)
           c == Cardinality(P)
           rows == First(Rows(SubSeq(Listing, cursor + 1, Len(Listing))), BatchSize)
           k == Len(rows)
           S == {i \in P : cursor <= rk(i) /\ rk(i) < cursor + k}
<1>1. /\ TypeOK /\ Waiting /\ Lanes /\ Births
      /\ backend = "chroma" /\ pc = "page" /\ page = <<>> /\ rest = <<>> /\ ids = <<>>
      /\ cursor # None /\ cursor \in Nat /\ BatchSize \in Nat \ {0}
  BY IdFacts DEF IInv, OffsetPage, Waiting, Lanes, TypeOK
<1>2. /\ Got(rows) /\ cursor' = cursor + k
      /\ pc' = IF rows = <<>> THEN "ended" ELSE IF k < BatchSize THEN "last" ELSE "page"
      /\ UNCHANGED <<store, backend, rest, ids, yielded, origin, writes, walks>>
  BY DEF OffsetPage
<1>3. /\ Page(rows, S) /\ k \in Nat /\ c \in Nat
      /\ \A i \in P : rk(i) \in Nat /\ rk(i) < c
      /\ cursor <= c => cursor + k <= c
      /\ cursor <= c /\ k < BatchSize => cursor + k = c
  BY <1>1, OffsetFacts
<1> HIDE DEF rows, k, S
<1>4. rows = <<>> => k = 0 /\ S = {}
  <2>1. rows = <<>> => k = 0 BY EmptySeq DEF k
  <2>2. k = 0 => S = {} BY <1>1, <1>3 DEF S
  <2> QED BY <2>1, <2>2
<1>5. /\ page' \in Seq(Read) /\ page' = rows
      /\ taken' \in [Id -> Row \cup {None}] /\ left' \in SUBSET Id /\ left' = left \ S
      /\ taken' = [i \in Id |-> IF i \in S THEN store[i] ELSE taken[i]]
      /\ Present(taken') = Present(taken) \cup S
  BY <1>1, <1>2, <1>3, GotTypes
<1>6. TypeOK' BY <1>1, <1>2, <1>3, <1>5 DEF TypeOK
<1>7. Waiting' /\ Lanes'
  <2>1. cursor' # None BY <1>1, <1>2, <1>3, IdFacts
  <2> QED BY <1>1, <1>2, <1>5, <2>1 DEF Waiting, Lanes, Snapshots
<1>8. Births' /\ Present(store') = P /\ ByBirth' = ByBirth BY <1>1, <1>2, StoreStays
<1>9. ASSUME Steady
      PROVE  /\ NothingLost' /\ Ahead' /\ PassedIds' /\ PassedRows'
             /\ [Contract!Next]_(Contract!vars)
  <2>1. /\ Present(taken) = {i \in P : rk(i) < cursor} /\ left \cap Present(taken) = {}
        /\ left \subseteq P /\ NothingLost /\ cursor <= c
    BY <1>1, <1>9 DEF IInv, PassedRows, Ahead, Behind
  <2> HIDE DEF rk, P, c
  <2>2. S \cap Present(taken) = {} BY <1>1, <1>3, <2>1 DEF S
  <2>3. Present(taken') = {i \in P : rk(i) < cursor + k}
    <3>1. \A i \in P : rk(i) < cursor \/ (cursor <= rk(i) /\ rk(i) < cursor + k)
                         <=> rk(i) < cursor + k
      BY <1>1, <1>3
    <3> QED BY <1>5, <2>1, <3>1 DEF S
  <2>4. left' \cap Present(taken') = {} /\ left' \subseteq P BY <1>5, <2>1
  <2>5. k < BatchSize => Present(taken') = P BY <1>3, <2>1, <2>3
  <2>6. k < BatchSize => left' = {} BY <2>4, <2>5
  <2>7. rows = <<>> => k < BatchSize BY <1>1, <1>4
  <2>8. NothingLost' BY <1>1, <1>2, <1>3, <2>1, <2>2, GotKeeps
  <2>9. Ahead' BY <1>2, <1>8, <2>4, <2>6, <2>7 DEF Ahead, P
  <2>10. PassedIds' BY <1>1, <1>2 DEF PassedIds
  <2>11. PassedRows'
    <3>1. Behind' = {i \in P : rk(i) < cursor + k}
      <4>1. \A i : Rank(Present(store), ByBirth, i)' = rk(i) BY <1>8 DEF rk, Rank, P
      <4> QED BY <1>2, <1>8, <4>1 DEF Behind, rk, Rank
    <3>2. cursor' <= Cardinality(Present(store')) BY <1>2, <1>3, <1>8, <2>1 DEF c
    <3> QED BY <2>3, <2>4, <3>1, <3>2 DEF PassedRows
  <2>12. [Contract!Next]_(Contract!vars)
    <3>1. CASE rows = <<>>
      <4>1. taken' = taken BY <1>1, <1>4, <1>5, <3>1 DEF TypeOK
      <4>2. left = {} /\ left' = left BY <1>4, <1>5, <2>6, <2>7, <3>1
      <4> QED BY <1>1, <1>2, <3>1, <4>1, <4>2, EndStep DEF Walking
    <3>2. CASE rows # <<>>
      <4>1. Walking /\ Walking' BY <1>1, <1>2, <3>2 DEF Walking
      <4> QED BY <1>1, <1>2, <1>3, <2>2, <4>1, TakeStep
    <3> QED BY <3>1, <3>2
  <2> QED BY <2>8, <2>9, <2>10, <2>11, <2>12
<1>10. Steady' => Steady BY <1>2 DEF Steady
<1> QED BY <1>6, <1>7, <1>8, <1>9, <1>10 DEF IInv

LEMMA YieldKeeps ==
  ASSUME IInv, Yield
  PROVE  /\ IInv'
         /\ Steady => [Contract!Next]_(Contract!vars)
<1>1. /\ TypeOK /\ Waiting /\ Lanes /\ Births /\ page # <<>>
      /\ pc \in {"chunk", "page", "last"} /\ ids = <<>>
  BY DEF IInv, Yield, Waiting
<1>2. UNCHANGED <<store, backend, cursor, rest, ids, left, taken, origin, writes, walks>>
  BY DEF Yield
<1>3. /\ yielded \in Seq(Read) /\ page \in Seq(Read) /\ rest \in Seq(Read) /\ <<>> \in Seq(Read)
      /\ Append(yielded, Head(page)) \in Seq(Read) /\ Tail(page) \in Seq(Read)
      /\ Append(yielded, Head(page)) \o Tail(page) \o rest = Handed
  <2>1. /\ yielded \in Seq(Read) /\ page \in Seq(Read) /\ rest \in Seq(Read) /\ <<>> \in Seq(Read)
    BY <1>1, EmptySeq DEF TypeOK
  <2> QED BY <1>1, <2>1, HeadFacts DEF Handed
<1>4. \/ page' = Tail(page) /\ yielded' = Append(yielded, Head(page)) /\ pc' = pc
      \/ page' = <<>> /\ yielded' = yielded /\ pc' = "raised"
  BY DEF Yield
<1>5. TypeOK' BY <1>1, <1>2, <1>3, <1>4 DEF TypeOK
<1>6. Waiting' BY <1>1, <1>2, <1>4 DEF Waiting
<1>7. Lanes' BY <1>1, <1>2, <1>4 DEF Lanes, Snapshots
<1>8. Births' BY <1>1, <1>2, StoreStays
<1>9. ASSUME Steady
      PROVE  /\ NothingLost' /\ Ahead' /\ PassedIds' /\ PassedRows'
             /\ [Contract!Next]_(Contract!vars)
  <2>1. NothingLost /\ Ahead /\ PassedIds /\ PassedRows BY <1>9 DEF IInv
  <2>2. NothingLost'
    <3>1. CASE pc' = "raised" BY <3>1 DEF NothingLost
    <3>2. CASE pc' # "raised"
      <4>1. Handed' = Handed /\ pc # "raised" BY <1>1, <1>2, <1>3, <1>4, <3>2 DEF Handed
      <4>2. Reads(Handed) /\ Once(Handed) BY <2>1, <4>1 DEF NothingLost
      <4> QED BY <1>2, <4>1, <4>2 DEF NothingLost, Reads, Once
    <3> QED BY <3>1, <3>2
  <2>3. Ahead' BY <1>1, <1>2, <1>4, <2>1 DEF Ahead
  <2>4. PassedIds' BY <1>1, <1>2, <1>4, <2>1 DEF PassedIds, Start
  <2>5. PassedRows'
    <3>1. Behind' = Behind BY <1>1, <1>2, StoreStays DEF Behind, Rank
    <3> QED BY <1>2, <1>4, <2>1, <3>1 DEF PassedRows
  <2>6. [Contract!Next]_(Contract!vars)
    <3>1. CASE pc' = pc BY <1>2, <3>1, IdleStep DEF Walking
    <3>2. CASE pc' = "raised"
      <4>1. Contract!Raise BY <1>1, <1>2, <3>2 DEF Contract!Raise, Walking
      <4> QED BY <4>1 DEF Contract!Next
    <3> QED BY <1>4, <3>1, <3>2
  <2> QED BY <2>2, <2>3, <2>4, <2>5, <2>6
<1>10. Steady' => Steady BY <1>2 DEF Steady
<1> QED BY <1>5, <1>6, <1>7, <1>8, <1>9, <1>10 DEF IInv

LEMMA FinishKeeps ==
  ASSUME IInv, Finish
  PROVE  /\ IInv'
         /\ Steady => [Contract!Next]_(Contract!vars)
<1>1. /\ TypeOK /\ Waiting /\ Lanes /\ Births /\ pc = "last" /\ page = <<>> /\ pc' = "ended"
      /\ UNCHANGED <<store, backend, cursor, rest, ids, page, yielded, left, taken, origin,
                  writes, walks>>
  BY DEF IInv, Finish
<1>2. TypeOK' /\ Waiting' /\ Lanes' BY <1>1 DEF TypeOK, Waiting, Lanes, Snapshots
<1>3. Births' BY <1>1, StoreStays
<1>4. ASSUME Steady
      PROVE  /\ NothingLost' /\ Ahead' /\ PassedIds' /\ PassedRows'
             /\ [Contract!Next]_(Contract!vars)
  <2>1. NothingLost /\ Ahead BY <1>4 DEF IInv
  <2>2. NothingLost' BY <1>1, <2>1 DEF NothingLost, Reads, Once, Handed
  <2>3. left = {} /\ Ahead' /\ PassedIds' /\ PassedRows'
    BY <1>1, <2>1 DEF Ahead, PassedIds, PassedRows
  <2> QED BY <1>1, <2>2, <2>3, EndStep DEF Walking
<1>5. Steady' => Steady BY <1>1 DEF Steady
<1> QED BY <1>2, <1>3, <1>4, <1>5 DEF IInv

-----------------------------------------------------------------------------
(* The theorems.                                                           *)

LEMMA StepKeeps ==
  ASSUME IInv, [Next]_vars
  PROVE  /\ IInv'
         /\ Steady /\ Steady' => [Contract!Next]_(Contract!vars)
<1>1. ASSUME NEW i \in Id, Insert(i) \/ Replace(i) \/ Delete(i)
      PROVE  IInv' /\ (Steady /\ Steady' => [Contract!Next]_(Contract!vars))
  <2>1. IInv' BY <1>1, InsertKeeps, ReplaceKeeps, DeleteKeeps
  <2>2. /\ UNCHANGED <<pc, taken>> /\ left' = left \cap Present(store')
    BY <1>1 DEF Insert, Replace, Delete, Write, walk
  <2>3. store' \in [Id -> Row \cup {None}] BY <2>1 DEF IInv, TypeOK
  <2>4. Contract!Change
    BY <2>2, <2>3 DEF Contract!Change, Contract!Present, Present, Walking
  <2> QED BY <2>1, <2>4 DEF Contract!Next
<1>2. ASSUME NEW b \in Backend, Begin(b)
      PROVE  IInv' /\ [Contract!Next]_(Contract!vars)
  <2>1. IInv' BY <1>2, BeginKeeps
  <2>2. ~Walking /\ Walking' BY <1>2 DEF Begin, Walking
  <2>3. Contract!Begin
    BY <1>2, <2>2 DEF Begin, Contract!Begin, Contract!Present, Present, Nothing, Walking
  <2> QED BY <2>1, <2>3 DEF Contract!Next
<1>3. CASE ReadSnapshot BY <1>3, ReadSnapshotKeeps
<1>4. CASE NextChunk BY <1>4, NextChunkKeeps
<1>5. CASE ScrollPage BY <1>5, ScrollPageKeeps
<1>6. CASE ListPage BY <1>6, ListPageKeeps
<1>7. CASE FetchIds BY <1>7, FetchIdsKeeps
<1>8. CASE OffsetPage BY <1>8, OffsetPageKeeps
<1>9. CASE Yield BY <1>9, YieldKeeps
<1>10. CASE Finish BY <1>10, FinishKeeps
<1>11. CASE UNCHANGED vars
  <2>1. UNCHANGED <<store, backend, pc, cursor, rest, ids, page, yielded, left, taken, origin,
                    writes, walks>>
    BY <1>11 DEF vars, walk
  <2>2. TypeOK' /\ Waiting' /\ Lanes' BY <2>1 DEF IInv, TypeOK, Waiting, Lanes, Snapshots
  <2>3. Births' /\ Present(store') = Present(store) /\ ByBirth' = ByBirth
    BY <2>1, StoreStays DEF IInv
  <2>4. Steady' => Steady BY <2>1 DEF Steady
  <2>5. NothingLost => NothingLost' BY <2>1 DEF NothingLost, Reads, Once, Handed, Present
  <2>6. Ahead => Ahead' BY <2>1 DEF Ahead, Present
  <2>7. PassedIds => PassedIds' BY <2>1 DEF PassedIds, Start, Present
  <2>8. PassedRows => PassedRows' BY <2>1, <2>3 DEF PassedRows, Behind, Rank, Present
  <2>9. UNCHANGED Contract!vars BY <2>1 DEF Contract!vars, Walking
  <2> QED BY <2>2, <2>3, <2>4, <2>5, <2>6, <2>7, <2>8, <2>9 DEF IInv
<1> QED
  BY <1>1, <1>2, <1>3, <1>4, <1>5, <1>6, <1>7, <1>8, <1>9, <1>10, <1>11 DEF Next, Work

LEMMA Invariant == Spec => []IInv
<1>1. IInv /\ [Next]_vars => IInv' BY StepKeeps
<1> QED BY <1>1, InitEstablishes, PTL DEF Spec

\* The cursor, the pages and the history of a walk have the types they are given,
\* whatever other clients do meanwhile (iter_records of the adapters).
THEOREM TypeCorrect == Spec => []TypeOK
<1>1. IInv => TypeOK BY DEF IInv
<1> QED BY <1>1, Invariant, PTL

\* A LanceDB or pgvector walk that ends has yielded the collection of one instant
\* (to_arrow, execute).
THEOREM SnapshotIsAlwaysOneInstant == Spec => []SnapshotIsOneInstant
<1>1. ASSUME IInv PROVE SnapshotIsOneInstant
  <2> SUFFICES ASSUME pc = "ended", Snapshots(backend)
               PROVE  ToSet(yielded) = {[id |-> i, row |-> origin[i]] : i \in Present(origin)}
    BY DEF SnapshotIsOneInstant, Snapshots
  <2>1. TypeOK /\ NothingLost /\ page = <<>> /\ rest = <<>> /\ taken = origin
    BY <1>1 DEF IInv, Steady, Snapshots, Waiting, Lanes
  <2>2. Handed = yielded BY <2>1, EmptyEnds DEF Handed, TypeOK
  <2> QED BY <2>1, <2>2 DEF NothingLost, Reads
<1> QED BY <1>1, Invariant, PTL

\* A walk that ends has yielded every row it read, under its own id and once: a page
\* by offset, too, unless rows are deleted meanwhile (chroma.py, get).
THEOREM AlwaysYieldsWhatItRead == Spec => [](Steady => YieldsWhatItRead)
<1>1. ASSUME IInv, Steady PROVE YieldsWhatItRead
  <2> SUFFICES ASSUME pc = "ended" PROVE Reads(yielded) /\ Once(yielded)
    BY DEF YieldsWhatItRead, Reads, Once
  <2>1. TypeOK /\ NothingLost /\ page = <<>> /\ rest = <<>>
    BY <1>1 DEF IInv, Waiting
  <2>2. Handed = yielded BY <2>1, EmptyEnds DEF Handed, TypeOK
  <2> QED BY <2>1, <2>2 DEF NothingLost
<1> QED BY <1>1, Invariant, PTL

\* Every row that was there throughout a walk is read by it, unless the adapter
\* pages by offset and rows are deleted (base.py, iter_records).
THEOREM NoneIsMissed == Spec => [](Steady => NoneMissed)
<1>1. ASSUME IInv, Steady PROVE NoneMissed BY <1>1 DEF IInv, Ahead, NoneMissed
<1> QED BY <1>1, Invariant, PTL

\* Read by read, the five adapters keep the contract the callers of iter_records
\* are modelled with: a page is a set of rows taken as they are, an id is taken
\* once, and a walk ends when nothing is left - as long as no row of a Chroma
\* collection is deleted.
THEOREM WalkImplementsContract ==
  ASSUME "chroma" \notin Deleting
  PROVE  Spec => ContractKept
<1>1. Init => Contract!Init
  <2> SUFFICES ASSUME Init PROVE Contract!Init OBVIOUS
  <2>1. TypeOK BY InitEstablishes DEF IInv
  <2> QED BY <2>1 DEF Init, TypeOK, Contract!Init, Nothing, Walking
<1>2. IInv /\ [Next]_vars => [Contract!Next]_(Contract!vars)
  <2>1. Steady /\ Steady' BY DEF Steady
  <2> QED BY <2>1, StepKeeps
<1>3. Spec => Contract!Spec BY <1>1, <1>2, Invariant, PTL DEF Spec, Contract!Spec
<1> QED BY <1>3 DEF ContractKept

-----------------------------------------------------------------------------
(* How long a walk takes.                                                  *)

\* What lies from the cursor on, for the adapters that page.
ToGo == IF Start > Cardinality(Id) THEN 0 ELSE Cardinality(Id) + 1 - Start

\* What is left to do for the walk: reads, and yields of what they bring.
Effort ==
  CASE pc = "open"  -> 2 * Cardinality(Id) + 2
    [] pc = "chunk" -> 2 * Len(rest) + Len(page) + 1
    [] pc = "page"  -> 4 * ToGo + Len(page) + 2
    [] pc = "fetch" -> 4 * ToGo + 2 * Len(ids) + 3
    [] pc = "last"  -> Len(page) + 1
    [] OTHER        -> 0

LEMMA IdRange ==
  /\ Cardinality(Id) \in Nat
  /\ \A i \in Id : i \in Nat /\ i >= 1 /\ i <= Cardinality(Id)
<1>1. Cardinality(Id) \in Nat /\ Id = 1..Cardinality(Id)
  BY WalkAssumption, FS_CardinalityType DEF WalkAssumption
<1> QED BY <1>1

\* The n-th of ids that ascend from an offset is at least n - 1 beyond it.
LEMMA AscendingReach ==
  ASSUME NEW s \in Seq(Id), \A m, n \in 1..Len(s) : m < n => s[m] < s[n],
         NEW offset \in Nat, \A n \in 1..Len(s) : s[n] >= offset, NEW k \in 1..Len(s)
  PROVE  s[k] >= offset + k - 1
<1> DEFINE T == offset..s[k]
           f == [n \in 1..k |-> s[n]]
<1>1. /\ Len(s) \in Nat /\ k \in Nat /\ k >= 1
      /\ \A n \in 1..k : n \in 1..Len(s) /\ s[n] \in Id /\ s[n] \in Nat
  BY SeqFacts, IdRange
<1>2. s[k] \in Nat /\ s[k] >= offset BY <1>1
<1>3. \A n \in 1..k : s[n] \in T
  <2> TAKE n \in 1..k
  <2>1. n = k \/ n < k BY <1>1
  <2>2. s[n] <= s[k] BY <1>1, <1>2, <2>1
  <2> QED BY <1>1, <1>2, <2>2
<1>4. \A m, n \in 1..k : s[m] = s[n] => m = n BY <1>1, AscendingOnce
<1> HIDE DEF T
<1>5. f \in Injection(1..k, T) BY <1>3, <1>4 DEF Injection, IsInjective
<1>6. /\ IsFiniteSet(T) /\ Cardinality(T) = s[k] - offset + 1 /\ Cardinality(1..k) = k
  <2>1. /\ IsFiniteSet(T) /\ Cardinality(T) = IF offset > s[k] THEN 0 ELSE s[k] - offset + 1
    <3>1. offset \in Int /\ s[k] \in Int BY <1>2
    <3> QED BY <3>1, FS_Interval DEF T
  <2>2. Cardinality(1..k) = IF 1 > k THEN 0 ELSE k - 1 + 1 BY <1>1, FS_Interval
  <2> QED BY <1>1, <1>2, <2>1, <2>2
<1> HIDE DEF f
<1>7. Cardinality(1..k) <= Cardinality(T) BY <1>5, <1>6, FS_Injection
<1> QED BY <1>1, <1>2, <1>6, <1>7

\* A list is no longer than what lies from its offset on.
LEMMA ListReach ==
  ASSUME TypeOK, NEW offset \in Nat
  PROVE  /\ \A k \in 1..Len(From(offset)) : From(offset)[k] >= offset + k - 1
         /\ From(offset) # <<>> =>
              /\ offset <= Cardinality(Id)
              /\ Len(From(offset)) <= Cardinality(Id) + 1 - offset
<1> DEFINE s == From(offset)
<1>1. /\ s \in Seq(Id) /\ Len(s) \in Nat
      /\ \A n \in 1..Len(s) : s[n] \in Id /\ s[n] >= offset
      /\ \A m, n \in 1..Len(s) : m < n => s[m] < s[n]
  BY FromFacts
<1> HIDE DEF s
<1>2. \A k \in 1..Len(s) : s[k] >= offset + k - 1 BY <1>1, AscendingReach
<1>3. ASSUME s # <<>>
      PROVE  offset <= Cardinality(Id) /\ Len(s) <= Cardinality(Id) + 1 - offset
  <2>1. Len(s) # 0 BY <1>1, <1>3, EmptySeq
  <2>2. Len(s) \in 1..Len(s) BY <1>1, <2>1
  <2>3. s[Len(s)] >= offset + Len(s) - 1 /\ s[Len(s)] \in Nat /\ s[Len(s)] <= Cardinality(Id)
    BY <1>1, <1>2, <2>2, IdRange
  <2> QED BY <1>1, <2>1, <2>3, IdRange
<1> QED BY <1>2, <1>3 DEF s

LEMMA EffortFacts ==
  ASSUME TypeOK
  PROVE  /\ Start \in Nat /\ ToGo \in Nat /\ Cardinality(Id) \in Nat /\ Effort \in Nat
         /\ Len(rest) \in Nat /\ Len(ids) \in Nat /\ Len(page) \in Nat
         /\ Walking => Effort > 0
<1>1. Start \in Nat /\ Cardinality(Id) \in Nat BY StartFacts, IdRange
<1>2. ToGo \in Nat BY <1>1 DEF ToGo
<1>3. Len(rest) \in Nat /\ Len(ids) \in Nat /\ Len(page) \in Nat BY SeqFacts DEF TypeOK
<1>4. CASE pc = "open" BY <1>1, <1>2, <1>3, <1>4 DEF Effort
<1>5. CASE pc = "chunk" BY <1>1, <1>2, <1>3, <1>5 DEF Effort
<1>6. CASE pc = "page" BY <1>1, <1>2, <1>3, <1>6 DEF Effort
<1>7. CASE pc = "fetch" BY <1>1, <1>2, <1>3, <1>7 DEF Effort
<1>8. CASE pc = "last" BY <1>1, <1>2, <1>3, <1>8 DEF Effort
<1>9. CASE ~Walking
  <2>1. Effort = 0 BY <1>9 DEF Effort, Walking
  <2> QED BY <1>1, <1>2, <1>3, <1>9, <2>1
<1> QED BY <1>1, <1>2, <1>3, <1>4, <1>5, <1>6, <1>7, <1>8, <1>9 DEF Walking

LEMMA PagesShrink ==
  ASSUME TypeOK, Lanes, ScrollPage \/ ListPage
  PROVE  Effort' < Effort
<1>0. ListPage => cursor \in Nat /\ cursor # None /\ Start = cursor
  BY DEF ListPage, Lanes, TypeOK, Start
<1> DEFINE order == From(Start)
           k == Len(order)
<1>1. /\ pc = "page" /\ page = <<>> /\ Len(page) = 0
      /\ Start \in Nat /\ ToGo \in Nat /\ Cardinality(Id) \in Nat /\ BatchSize \in Nat \ {0}
  <2>1. pc = "page" /\ page = <<>> BY DEF ScrollPage, ListPage
  <2> QED BY <2>1, EffortFacts, IdFacts, EmptySeq
<1>2. Effort = 4 * ToGo + 2 BY <1>1 DEF Effort
<1>3. /\ k \in Nat /\ \A n \in 1..k : order[n] \in Id /\ order[n] >= Start + n - 1
      /\ order = <<>> <=> k = 0
      /\ order # <<>> => Start <= Cardinality(Id) /\ k <= Cardinality(Id) + 1 - Start
  <2>1. order \in Seq(Id) /\ \A n \in 1..k : order[n] \in Id BY <1>1, FromFacts
  <2>2. k \in Nat /\ (order = <<>> <=> k = 0) BY <2>1, SeqFacts
  <2> QED BY <1>1, <2>1, <2>2, ListReach
<1>4. order # <<>> => ToGo = Cardinality(Id) + 1 - Start /\ k <= ToGo BY <1>1, <1>3 DEF ToGo
<1>5. CASE order = <<>>
  <2>1. ScrollPage => pc' = "ended" BY <1>5 DEF ScrollPage, Start
  <2>2. ListPage => pc' = "ended" BY <1>0, <1>5 DEF ListPage
  <2>3. Effort' = 0 BY <2>1, <2>2 DEF Effort
  <2> QED BY <1>1, <1>2, <2>3
<1>6. ASSUME ScrollPage, order # <<>> PROVE Effort' < Effort
  <2> DEFINE p == First(order, BatchSize)
             more == k > BatchSize
  <2>1. /\ Got(Rows(p)) /\ cursor' = IF more THEN order[BatchSize + 1] ELSE None
        /\ pc' = IF more THEN "page" ELSE "last"
    BY <1>6 DEF ScrollPage, Start
  <2>2. page' = Rows(p) BY <2>1 DEF Got
  <2>3. Len(page') = IF k < BatchSize THEN k ELSE BatchSize
    BY <1>1, <2>2, FirstOfList
  <2> HIDE DEF p
  <2>4. CASE more
    <3>1. order[BatchSize + 1] \in Id /\ order[BatchSize + 1] >= Start + BatchSize
      <4>1. BatchSize + 1 \in 1..k BY <1>1, <1>3, <2>4
      <4>2. Start + (BatchSize + 1) - 1 = Start + BatchSize BY <1>1
      <4> QED BY <1>3, <4>1, <4>2
    <3>2. cursor' = order[BatchSize + 1] /\ cursor' \in Nat /\ cursor' # None
          /\ cursor' <= Cardinality(Id)
      BY <2>1, <2>4, <3>1, IdFacts, IdRange
    <3>3. ToGo' = Cardinality(Id) + 1 - cursor' BY <1>1, <3>2 DEF ToGo, Start
    <3>4. Len(page') = BatchSize BY <1>1, <1>3, <2>3, <2>4
    <3>5. Effort' = 4 * ToGo' + Len(page') + 2 BY <2>1, <2>4 DEF Effort
    <3>6. ToGo' \in Int /\ ToGo' <= ToGo - BatchSize
      BY <1>1, <1>4, <1>6, <3>1, <3>2, <3>3
    <3>7. Effort' = 4 * ToGo' + BatchSize + 2 BY <3>4, <3>5
    <3>8. \A x, y \in Int : \A n \in Nat \ {0} : y <= x - n => 4 * y + n + 2 < 4 * x + 2
      OBVIOUS
    <3>9. ToGo \in Int /\ BatchSize \in Nat \ {0} BY <1>1
    <3>10. 4 * ToGo' + BatchSize + 2 < 4 * ToGo + 2 BY <3>6, <3>8, <3>9
    <3> QED BY <1>2, <3>7, <3>10
  <2>5. CASE ~more
    <3>1. Len(page') = k BY <1>1, <1>3, <2>3, <2>5
    <3>2. Effort' = Len(page') + 1 BY <2>1, <2>5 DEF Effort
    <3> QED BY <1>1, <1>2, <1>3, <1>4, <1>6, <3>1, <3>2
  <2> QED BY <2>4, <2>5
<1>7. ASSUME ListPage, order # <<>> PROVE Effort' < Effort
  <2> DEFINE p == First(order, BatchSize)
  <2>1. /\ ids' = p /\ pc' = "fetch" /\ cursor' = Last(p) + 1
    BY <1>0, <1>7 DEF ListPage
  <2>2. /\ p \in Seq(Id) /\ Len(p) = IF k < BatchSize THEN k ELSE BatchSize
        /\ \A n \in 1..Len(p) : p[n] = order[n]
    <3>1. order \in Seq(Id) BY <1>1, FromFacts
    <3> QED BY <1>1, <3>1, FirstFacts
  <2> HIDE DEF p
  <2>3. /\ Len(p) \in 1..k /\ Len(p) \in 1..Len(p) /\ k # 0 BY <1>1, <1>3, <1>7, <2>2
  <2>4. Last(p) = order[Len(p)] /\ Last(p) \in Id /\ Last(p) >= Start + Len(p) - 1
    BY <1>3, <2>2, <2>3 DEF Last
  <2>5. /\ Last(p) \in Nat /\ Last(p) <= Cardinality(Id) BY <2>4, IdRange
  <2>6. cursor' \in Nat /\ cursor' # None /\ cursor' >= Start + Len(p)
        /\ cursor' <= Cardinality(Id) + 1
    <3>1. cursor' \in Nat BY <2>1, <2>5
    <3>2. cursor' # None BY <3>1, IdFacts
    <3> QED BY <1>1, <2>1, <2>3, <2>4, <2>5, <3>1, <3>2
  <2>7. ToGo' <= ToGo - Len(p) /\ ToGo' \in Nat
    <3>1. Start' = cursor' BY <2>6 DEF Start
    <3>2. ToGo' = IF cursor' > Cardinality(Id) THEN 0 ELSE Cardinality(Id) + 1 - cursor'
      BY <3>1 DEF ToGo
    <3>3. Len(p) <= k BY <1>3, <2>3
    <3> QED BY <1>1, <1>3, <1>4, <1>7, <2>3, <2>6, <3>2, <3>3
  <2>8. Effort' = 4 * ToGo' + 2 * Len(p) + 3 BY <2>1 DEF Effort
  <2> QED BY <1>1, <1>2, <2>3, <2>7, <2>8
<1> QED BY <1>5, <1>6, <1>7

\* A page of ids brings no more rows than it lists.
LEMMA FetchShrinks ==
  ASSUME TypeOK, FetchIds
  PROVE  Effort' < Effort
<1> DEFINE S == {i \in ToSet(ids) : store[i] # None}
           order == InOrder(S, ById)
           f == [n \in 1..Len(ids) |-> ids[n]]
<1>1. ids \in Seq(Id) /\ S \in SUBSET Id /\ S \in SUBSET ToSet(ids)
  BY SeqFacts DEF TypeOK
<1>2. IsFiniteSet(ToSet(ids)) /\ Cardinality(ToSet(ids)) <= Len(ids) /\ Len(ids) \in Nat
  <2>1. Len(ids) \in Nat /\ ToSet(ids) = {ids[n] : n \in 1..Len(ids)} BY <1>1, SeqFacts
  <2>2. f \in Surjection(1..Len(ids), ToSet(ids)) BY <2>1 DEF Surjection
  <2>3. IsFiniteSet(1..Len(ids)) /\ Cardinality(1..Len(ids)) = Len(ids)
    <3>1. /\ IsFiniteSet(1..Len(ids))
          /\ Cardinality(1..Len(ids)) = IF 1 > Len(ids) THEN 0 ELSE Len(ids) - 1 + 1
      BY <2>1, FS_Interval
    <3> QED BY <2>1, <3>1
  <2> HIDE DEF f
  <2> QED BY <2>1, <2>2, <2>3, FS_Surjection
<1> HIDE DEF S
<1>3. /\ order \in Seq(Id) /\ Len(order) = Cardinality(S)
      /\ \A m, n \in 1..Len(order) : order[m] = order[n] => m = n
      /\ order \in Seq(Present(store))
  <2>1. order \in Seq(S) /\ Len(order) = Cardinality(S)
        /\ \A m, n \in 1..Len(order) : m < n => order[m] < order[n]
    BY <1>1, AscendingFacts
  <2>2. S \subseteq Present(store) BY <1>1 DEF S, Present
  <2> HIDE DEF order
  <2>3. order \in Seq(Id) /\ order \in Seq(Present(store)) BY <1>1, <2>1, <2>2, SeqMonotonic
  <2> QED BY <2>1, <2>3, AscendingOnce
<1> HIDE DEF order
<1>4. /\ pc = "fetch" /\ pc' = "page" /\ page' = Rows(order) /\ cursor' = cursor
  BY DEF FetchIds, Got, order, S
<1>5. Len(page') = Cardinality(S) BY <1>3, <1>4, PageFacts, IdFacts
<1>6. Cardinality(S) <= Len(ids) /\ Cardinality(S) \in Nat
  <2>1. /\ IsFiniteSet(S) /\ Cardinality(S) <= Cardinality(ToSet(ids)) BY <1>1, <1>2, FS_Subset
  <2>2. Cardinality(S) \in Nat /\ Cardinality(ToSet(ids)) \in Nat
    BY <1>2, <2>1, FS_CardinalityType
  <2> QED BY <1>2, <2>1, <2>2
<1>7. ToGo' = ToGo /\ ToGo \in Nat BY <1>4, EffortFacts DEF ToGo, Start
<1>8. /\ Effort = 4 * ToGo + 2 * Len(ids) + 3
      /\ Effort' = 4 * ToGo + Len(page') + 2
  BY <1>4, <1>7 DEF Effort
<1> QED BY <1>2, <1>5, <1>6, <1>7, <1>8

LEMMA OffsetShrinks ==
  ASSUME TypeOK, Lanes, OffsetPage
  PROVE  Effort' < Effort
<1> DEFINE rows == First(Rows(SubSeq(Listing, cursor + 1, Len(Listing))), BatchSize)
           c == Cardinality(Present(store))
           k == Len(rows)
<1>1. pc = "page" /\ page = <<>> /\ cursor \in Nat /\ Start = cursor
  BY DEF OffsetPage, Lanes, TypeOK, Start
<1>2. /\ page' = rows /\ cursor' = cursor + k
      /\ pc' = IF rows = <<>> THEN "ended" ELSE IF k < BatchSize THEN "last" ELSE "page"
  BY DEF OffsetPage, Got
<1>3. /\ rows \in Seq(Read) /\ k \in Nat /\ c \in Nat
      /\ rows # <<>> => cursor < c /\ cursor + k <= c
  <2> DEFINE P == Present(store)
             S == {i \in P : /\ cursor <= Rank(P, ByBirth, i)
                             /\ Rank(P, ByBirth, i) < cursor + k}
  <2>1. /\ Page(rows, S) /\ k \in Nat /\ c \in Nat
        /\ \A i \in P : Rank(P, ByBirth, i) \in Nat /\ Rank(P, ByBirth, i) < c
        /\ cursor <= c => cursor + k <= c
    BY <1>1, OffsetFacts
  <2> HIDE DEF rows, c, P
  <2>2. rows \in Seq(Read) BY <2>1 DEF Page
  <2>3. ASSUME rows # <<>> PROVE cursor < c
    <3>1. 1 \in 1..k BY <2>1, <2>2, <2>3, SeqFacts
    <3>2. rows[1].id \in S BY <2>1, <3>1 DEF Page
    <3>3. /\ rows[1].id \in P /\ cursor <= Rank(P, ByBirth, rows[1].id) BY <3>2
    <3> QED BY <1>1, <2>1, <3>3
  <2> QED BY <1>1, <2>1, <2>2, <2>3
<1>4. c <= Cardinality(Id) /\ Cardinality(Id) \in Nat
  <2>1. Present(store) \in SUBSET Id BY StoreFacts
  <2> QED BY <2>1, IdFacts, IdRange, FS_Subset
<1>5. Len(page) = 0 /\ BatchSize \in Nat \ {0} BY <1>1, IdFacts, EmptySeq
<1>6. Effort = 4 * ToGo + 2 /\ ToGo \in Nat BY <1>1, <1>5, EffortFacts DEF Effort
<1> HIDE DEF rows, c, k
<1>7. CASE rows = <<>>
  <2>1. Effort' = 0 BY <1>2, <1>7 DEF Effort
  <2> QED BY <1>6, <2>1
<1>8. CASE rows # <<>>
  <2>1. k # 0 /\ Len(page') = k BY <1>2, <1>3, <1>8, SeqFacts DEF k
  <2>2. ToGo = Cardinality(Id) + 1 - cursor BY <1>1, <1>3, <1>4, <1>8 DEF ToGo
  <2>3. cursor' \in Nat /\ cursor' <= Cardinality(Id) BY <1>1, <1>2, <1>3, <1>4, <1>8
  <2>4. ToGo' = ToGo - k
    <3>1. cursor' # None BY <2>3, IdFacts
    <3>2. ToGo' = Cardinality(Id) + 1 - cursor' BY <1>4, <2>3, <3>1 DEF ToGo, Start
    <3> QED BY <1>1, <1>2, <1>3, <1>4, <2>2, <3>2
  <2>5. k <= ToGo BY <1>1, <1>3, <1>4, <1>8, <2>2
  <2>6. CASE pc' = "page"
    <3>1. Effort' = 4 * ToGo' + k + 2 BY <2>1, <2>6 DEF Effort
    <3>2. Effort' = 4 * (ToGo - k) + k + 2 BY <2>4, <3>1
    <3> QED BY <1>3, <1>6, <2>1, <3>2
  <2>7. CASE pc' = "last"
    <3>1. Effort' = k + 1 BY <2>1, <2>7 DEF Effort
    <3> QED BY <1>3, <1>6, <2>5, <3>1
  <2> QED BY <1>2, <1>8, <2>6, <2>7
<1> QED BY <1>7, <1>8

LEMMA SnapshotShrinks ==
  ASSUME TypeOK, Waiting, ReadSnapshot \/ NextChunk
  PROVE  Effort' < Effort
<1>1. ASSUME ReadSnapshot PROVE Effort' < Effort
  <2>1. /\ pc = "open" /\ pc' = "chunk" /\ rest' = Rows(From(1)) /\ page' = page
        /\ page = <<>>
    BY <1>1 DEF ReadSnapshot, Waiting
  <2>2. /\ From(1) \in Seq(Id) /\ From(1) \in Seq(Present(store)) /\ Len(From(1)) \in Nat
        /\ \A m, n \in 1..Len(From(1)) : From(1)[m] = From(1)[n] => m = n
    BY FromFacts
  <2>3. Len(rest') = Len(From(1)) BY <2>1, <2>2, PageFacts, IdFacts
  <2>4. Len(From(1)) <= Cardinality(Id) /\ Cardinality(Id) \in Nat
    <3>1. From(1) = <<>> => Len(From(1)) = 0 BY EmptySeq
    <3>2. From(1) # <<>> => Len(From(1)) <= Cardinality(Id) + 1 - 1 BY ListReach
    <3> QED BY <2>2, <3>1, <3>2, IdRange
  <2>5. Len(page') = 0 BY <2>1, EmptySeq
  <2>6. Effort = 2 * Cardinality(Id) + 2 BY <2>1 DEF Effort
  <2>7. Effort' = 2 * Len(rest') + Len(page') + 1 BY <2>1 DEF Effort
  <2> QED BY <2>2, <2>3, <2>4, <2>5, <2>6, <2>7
<1>2. ASSUME NextChunk PROVE Effort' < Effort
  <2>1. /\ pc = "chunk" /\ page = <<>> /\ page' = First(rest, BatchSize)
        /\ rest' = SubSeq(rest, Len(page') + 1, Len(rest))
        /\ pc' = IF rest = <<>> THEN "ended" ELSE pc
        /\ rest \in Seq(Read) /\ BatchSize \in Nat \ {0}
    BY <1>2, IdFacts DEF NextChunk, TypeOK
  <2>2. /\ Len(rest) \in Nat /\ (rest = <<>> <=> Len(rest) = 0)
        /\ Len(page') = IF Len(rest) < BatchSize THEN Len(rest) ELSE BatchSize
    BY <2>1, SeqFacts, FirstFacts
  <2>3. Len(page') \in Nat BY <2>1, <2>2
  <2>4. Len(rest') = IF Len(page') < Len(rest) THEN Len(rest) - Len(page') ELSE 0
    BY <2>1, <2>3, RestFacts
  <2>5. Len(rest') = Len(rest) - Len(page')
    <3>1. Len(page') <= Len(rest) BY <2>1, <2>2
    <3> QED BY <2>2, <2>3, <2>4, <3>1
  <2>6. Len(page) = 0 BY <2>1, EmptySeq
  <2>7. Effort = 2 * Len(rest) + 1 BY <2>1, <2>2, <2>6 DEF Effort
  <2>8. CASE rest = <<>>
    <3>1. Effort' = 0 BY <2>1, <2>8 DEF Effort
    <3> QED BY <2>2, <2>7, <3>1
  <2>9. CASE rest # <<>>
    <3>1. Effort' = 2 * Len(rest') + Len(page') + 1 BY <2>1, <2>9 DEF Effort
    <3>2. Effort' = 2 * (Len(rest) - Len(page')) + Len(page') + 1 BY <2>5, <3>1
    <3>3. Len(page') > 0 BY <2>1, <2>2, <2>9
    <3> QED BY <2>2, <2>3, <2>7, <3>2, <3>3
  <2> QED BY <2>8, <2>9
<1> QED BY <1>1, <1>2

LEMMA YieldShrinks ==
  ASSUME TypeOK, Waiting, Yield \/ Finish
  PROVE  Effort' < Effort
<1>1. /\ Start \in Nat /\ ToGo \in Nat /\ Cardinality(Id) \in Nat /\ Effort \in Nat
      /\ Len(rest) \in Nat /\ Len(ids) \in Nat /\ Len(page) \in Nat
      /\ Walking => Effort > 0
  BY EffortFacts
<1>2. ASSUME Yield PROVE Effort' < Effort
  <2>1. page # <<>> /\ pc \in {"chunk", "page", "last"} /\ page \in Seq(Read)
    BY <1>2 DEF Yield, Waiting, TypeOK
  <2>2. CASE ~Head(page).row.vector
    <3>1. pc' = "raised" BY <1>2, <2>2 DEF Yield
    <3>2. Effort' = 0 BY <3>1 DEF Effort
    <3> QED BY <1>1, <2>1, <3>2 DEF Walking
  <2>3. CASE Head(page).row.vector
    <3>1. page' = Tail(page) /\ UNCHANGED <<pc, cursor, rest, ids>>
      BY <1>2, <2>3 DEF Yield
    <3>2. Len(page') = Len(page) - 1 BY <2>1, <3>1, HeadTailProperties
    <3>3. ToGo' = ToGo BY <3>1 DEF ToGo, Start
    <3>4. CASE pc = "chunk"
      <4>1. /\ Effort = 2 * Len(rest) + Len(page) + 1
            /\ Effort' = 2 * Len(rest) + Len(page') + 1
        BY <3>1, <3>4 DEF Effort
      <4> QED BY <1>1, <3>2, <4>1
    <3>5. CASE pc = "page"
      <4>1. /\ Effort = 4 * ToGo + Len(page) + 2
            /\ Effort' = 4 * ToGo + Len(page') + 2
        BY <3>1, <3>3, <3>5 DEF Effort
      <4> QED BY <1>1, <3>2, <4>1
    <3>6. CASE pc = "last"
      <4>1. Effort = Len(page) + 1 /\ Effort' = Len(page') + 1
        BY <3>1, <3>6 DEF Effort
      <4> QED BY <1>1, <3>2, <4>1
    <3> QED BY <2>1, <3>4, <3>5, <3>6
  <2> QED BY <2>2, <2>3
<1>3. ASSUME Finish PROVE Effort' < Effort
  <2>1. pc = "last" /\ pc' = "ended" BY <1>3 DEF Finish
  <2>2. Effort' = 0 /\ Walking BY <2>1 DEF Effort, Walking
  <2> QED BY <1>1, <2>2
<1> QED BY <1>2, <1>3

\* Every read and every yield leaves a walk less to do.
LEMMA WorkShrinks == IInv /\ Work => Effort' < Effort
BY PagesShrink, FetchShrinks, OffsetShrinks, SnapshotShrinks, YieldShrinks DEF IInv, Work

\* A walk that runs has less to do after every read and every yield, and what other
\* clients write meanwhile never gives it more: rows inserted behind its place do not
\* count, and there is only so much ahead. When it begins it has at most four steps
\* for each id and six (iter_records of the adapters).
THEOREM WalksAreBounded ==
  Spec => [][/\ Effort \in Nat
             /\ Walking => Effort' <= Effort
             /\ Work => Effort' < Effort
             /\ \A b \in Backend : Begin(b) => Effort' <= 4 * Cardinality(Id) + 6]_vars
<1> DEFINE Shrinks ==
             /\ Effort \in Nat
             /\ Walking => Effort' <= Effort
             /\ Work => Effort' < Effort
             /\ \A b \in Backend : Begin(b) => Effort' <= 4 * Cardinality(Id) + 6
<1>1. IInv => Effort \in Nat BY EffortFacts DEF IInv
<1>2. (IInv => Effort \in Nat)' BY <1>1, PTL
<1>3. ASSUME IInv, IInv', [Next]_vars PROVE Shrinks
  <2>1. Effort \in Nat /\ Effort' \in Nat BY <1>1, <1>2, <1>3
  <2>2. Work => Effort' < Effort BY <1>3, WorkShrinks
  <2>3. ASSUME NEW b \in Backend, Begin(b)
        PROVE  ~Walking /\ Effort' <= 4 * Cardinality(Id) + 6
    <3>1. ~Walking BY <2>3 DEF Begin, Walking
    <3>2. /\ pc' \in {"open", "page"} /\ page' = <<>>
          /\ cursor' = IF b = "chroma" THEN 0 ELSE IF b = "pinecone" THEN 1 ELSE None
      BY <2>3 DEF Begin
    <3>3. Len(page') = 0 /\ Cardinality(Id) \in Nat BY <3>2, EmptySeq, IdRange
    <3>4. Start' \in {0, 1} BY <3>2, IdFacts DEF Start
    <3>5. ToGo' \in Nat /\ ToGo' <= Cardinality(Id) + 1 BY <3>3, <3>4 DEF ToGo
    <3>6. CASE pc' = "open"
      <4>1. Effort' = 2 * Cardinality(Id) + 2 BY <3>6 DEF Effort
      <4> QED BY <3>1, <3>3, <4>1
    <3>7. CASE pc' = "page"
      <4>1. Effort' = 4 * ToGo' + Len(page') + 2 BY <3>7 DEF Effort
      <4> QED BY <3>1, <3>3, <3>5, <4>1
    <3> QED BY <3>2, <3>6, <3>7
  <2>4. ASSUME NEW i \in Id, Insert(i) \/ Replace(i) \/ Delete(i) PROVE Effort' = Effort
    <3>1. UNCHANGED <<pc, cursor, rest, ids, page>>
      BY <2>4 DEF Insert, Replace, Delete, Write, walk
    <3> QED BY <3>1 DEF Effort, ToGo, Start
  <2>5. UNCHANGED vars => Effort' = Effort BY DEF vars, walk, Effort, ToGo, Start
  <2>6. Walking => Effort' <= Effort BY <1>3, <2>1, <2>2, <2>3, <2>4, <2>5 DEF Next
  <2> QED BY <2>1, <2>2, <2>3, <2>6
<1>4. IInv /\ IInv' /\ [Next]_vars => [Shrinks]_vars BY <1>3
<1> QED BY <1>4, Invariant, PTL DEF Spec
=============================================================================
