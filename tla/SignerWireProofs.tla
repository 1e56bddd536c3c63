-------------------------- MODULE SignerWireProofs --------------------------
(***************************************************************************)
(* Theorems about SignerWire, for every set of strings, every normal form, *)
(* all caps, any extra entries and any number of edits: what the parser    *)
(* lets through can be turned into signed bytes, and a pin that verifies   *)
(* is the one the signer made, spelling included but for empty fields.     *)
(***************************************************************************)
EXTENDS SignerWire, FiniteSetTheorems, TLAPS

Free == Str \cup {Wrong}
Extras == UNION {[D -> Free] : D \in SUBSET Str}

\* What a header can be, and a dict that is stored, edited or not.
Headers ==
  [v : 0..2, kid : Free, model : Free, model_hash : Hash \cup {None},
   source_hash : Hash, vec_hash : Hash, dim : Nat, ts : Free, extra : Extras]

Dicts ==
  [v : 0..2, kid : Free, model : Free, model_hash : Hash \cup {None, Null},
   source_hash : Hash, vec_hash : Hash, dim : Nat, ts : Free,
   extra : Extras \cup {Wrong, None}]

\* What can become of the pin of header h in the store: its signature stays.
Wires(h) ==
  [unknown : BOOLEAN, dict : Dicts, sig : [form : Encoding, over : {Canonicalize(h)}]]

\* Nothing in h has another normal form.
Normal(h) ==
  /\ Nfc[h.kid] = h.kid /\ Nfc[h.model] = h.model /\ Nfc[h.ts] = h.ts
  /\ \E D \in SUBSET Str :
       /\ h.extra \in [D -> Str]
       /\ \A k \in D : Nfc[k] = k /\ Nfc[h.extra[k]] = h.extra[k]

Signed ==
  IF stage \in {"new", "refused"} THEN signed = None
  ELSE /\ signed \in Headers /\ ~Raises(signed)
       /\ \/ signed.v = 2 /\ Normal(signed)
          \/ signed.v = 1 /\ signed.kid = request.kid

Wired ==
  IF stage \in {"new", "refused", "signed"} THEN wire = None ELSE wire \in Wires(signed)

Accepted ==
  stage \in {"parsed", "judged"} => FromDict(wire, {2}) \/ FromDict(wire, {1, 2})

Judged ==
  verdict = IF stage = "judged" THEN Judge(HeaderOf(wire.dict), wire.sig, request) ELSE None

Types ==
  /\ stage \in {"new", "refused", "signed", "stored", "parsed", "rejected", "judged"}
  /\ request \in Request /\ path \in {None, "dict", "json"}
  /\ legacy \in BOOLEAN /\ edits \in 0..MaxEdits

IInv == Types /\ Signed /\ Wired /\ Accepted /\ Judged

-----------------------------------------------------------------------------
(* Strings and dicts.                                                      *)

LEMMA NfcFacts ==
  \A s \in Str : /\ Nfc[s] \in Str /\ Nfc[Nfc[s]] = Nfc[s]
                 /\ Safe(s) => Nfc[s] \notin Surrogates /\ s \notin Surrogates
BY WireAssumption DEF WireAssumption, Safe

\* The largest element of a set of positions is one of them.
LEMMA MaxFacts ==
  ASSUME NEW n \in Nat, NEW S \in SUBSET (1..n), S # {}
  PROVE  Max(S) \in S
<1> DEFINE T == {n - x : x \in S}
<1>1. \A x \in S : x \in 1..n /\ x \in Nat /\ n - x \in Nat
  OBVIOUS
<1>2. T \subseteq Nat /\ T # {}
  <2>1. PICK x \in S : TRUE
    OBVIOUS
  <2>2. n - x \in T BY <2>1
  <2>3. \A t \in T : t \in Nat BY <1>1
  <2> QED BY <2>2, <2>3
<1>3. PICK t \in T : \A u \in T : ~(<<u, t>> \in OpToRel(<, Nat))
  <2> HIDE DEF T
  <2> QED BY <1>2, NatLessThanWellFounded, WFMin
<1>4. PICK x \in S : t = n - x BY <1>3
<1>5. ASSUME NEW y \in S PROVE x >= y
  <2>1. n - y \in T /\ n - y \in Nat /\ t \in Nat BY <1>1, <1>2, <1>3
  <2>2. ~(<<n - y, t>> \in OpToRel(<, Nat)) BY <1>3, <2>1
  <2>3. ~(n - y < t) BY <2>1, <2>2 DEF OpToRel
  <2> QED BY <1>1, <1>4, <2>1, <2>3
<1>6. \E m \in S : \A y \in S : m >= y BY <1>5
<1> QED BY <1>6 DEF Max

\* Normalizing what is normal changes nothing.
LEMMA NormalExtra ==
  ASSUME NEW D \in SUBSET Str, NEW e \in [D -> Str],
         \A k \in D : Nfc[k] = k /\ Nfc[e[k]] = e[k]
  PROVE  NormalizedExtra(e) = e
<1>1. {Nfc[j] : j \in D} = D OBVIOUS
<1>2. ASSUME NEW k \in D PROVE (CHOOSE j \in D : Nfc[j] = k) = k
  <2>1. \E j \in D : Nfc[j] = k BY <1>2
  <2>2. \A j \in D : Nfc[j] = k => j = k OBVIOUS
  <2> QED BY <2>1, <2>2
<1>3. DOMAIN e = D OBVIOUS
<1>4. NormalizedExtra(e) = [k \in D |-> Nfc[e[CHOOSE j \in D : Nfc[j] = k]]]
  BY <1>1, <1>3 DEF NormalizedExtra
<1>5. \A k \in D : Nfc[e[CHOOSE j \in D : Nfc[j] = k]] = e[k] BY <1>2
<1>6. NormalizedExtra(e) = [k \in D |-> e[k]] BY <1>4, <1>5
<1> QED BY <1>6

LEMMA NormalHeader ==
  ASSUME NEW h \in Headers, Normal(h) PROVE CanonicalizeV2(h) = h
<1>1. NormalizedExtra(h.extra) = h.extra
  <2>1. PICK D \in SUBSET Str :
          /\ h.extra \in [D -> Str]
          /\ \A k \in D : Nfc[k] = k /\ Nfc[h.extra[k]] = h.extra[k]
    BY DEF Normal
  <2> QED BY <2>1, NormalExtra
<1>2. Nfc[h.kid] = h.kid /\ Nfc[h.model] = h.model /\ Nfc[h.ts] = h.ts BY DEF Normal
<1> QED BY <1>1, <1>2 DEF CanonicalizeV2, Headers

\* The dict of the caller, and the one the signer makes of it.
LEMMA RawExtraFacts ==
  ASSUME NEW pairs \in Seq(Str \X Str)
  PROVE  RawExtra(pairs) \in Extras
<1> DEFINE D == {pairs[n][1] : n \in DOMAIN pairs}
           at(k) == CHOOSE n \in DOMAIN pairs : pairs[n][1] = k
<1>1. \A n \in DOMAIN pairs : pairs[n][1] \in Str /\ pairs[n][2] \in Str OBVIOUS
<1>2. ASSUME NEW k \in D PROVE at(k) \in DOMAIN pairs
  <2>1. \E n \in DOMAIN pairs : pairs[n][1] = k BY <1>2
  <2> QED BY <2>1
<1>3. D \in SUBSET Str BY <1>1
<1>4. \A k \in D : pairs[at(k)][2] \in Free BY <1>1, <1>2 DEF Free
<1>5. RawExtra(pairs) = [k \in D |-> pairs[at(k)][2]] BY DEF RawExtra
<1> HIDE DEF D, at
<1>6. RawExtra(pairs) \in [D -> Free] BY <1>4, <1>5
<1> QED BY <1>3, <1>6 DEF Extras

LEMMA SignedExtraFacts ==
  ASSUME NEW pairs \in Seq(Str \X Str)
  PROVE  \E D \in SUBSET Str :
           /\ SignedExtra(pairs) \in [D -> Str]
           /\ \A k \in D : \E m, n \in DOMAIN pairs :
                k = Nfc[pairs[m][1]] /\ SignedExtra(pairs)[k] = Nfc[pairs[n][2]]
<1> DEFINE D == {Nfc[pairs[n][1]] : n \in DOMAIN pairs}
           at(k) == {n \in DOMAIN pairs : Nfc[pairs[n][1]] = k}
           last(k) == Max(at(k))
<1>1. \A n \in DOMAIN pairs : pairs[n][1] \in Str /\ pairs[n][2] \in Str OBVIOUS
<1>2. DOMAIN pairs = 1..Len(pairs) /\ Len(pairs) \in Nat OBVIOUS
<1>3. ASSUME NEW k \in D PROVE last(k) \in DOMAIN pairs
  <2>1. at(k) \in SUBSET (1..Len(pairs)) /\ at(k) # {} BY <1>2, <1>3
  <2> HIDE DEF at
  <2>2. Max(at(k)) \in at(k) BY <1>2, <2>1, MaxFacts
  <2> QED BY <1>2, <2>1, <2>2
<1>4. D \in SUBSET Str BY <1>1, NfcFacts
<1>5. SignedExtra(pairs) = [k \in D |-> Nfc[pairs[last(k)][2]]] BY DEF SignedExtra
<1>6. \A k \in D : \E m \in DOMAIN pairs : k = Nfc[pairs[m][1]] OBVIOUS
<1> HIDE DEF D, last
<1>7. \A k \in D : Nfc[pairs[last(k)][2]] \in Str BY <1>1, <1>3, NfcFacts
<1>8. SignedExtra(pairs) \in [D -> Str] BY <1>5, <1>7
<1>9. \A k \in D : SignedExtra(pairs)[k] = Nfc[pairs[last(k)][2]] BY <1>5
<1>10. \A k \in D : \E m, n \in DOMAIN pairs :
         k = Nfc[pairs[m][1]] /\ SignedExtra(pairs)[k] = Nfc[pairs[n][2]]
  BY <1>3, <1>6, <1>9
<1> QED BY <1>4, <1>8, <1>10

-----------------------------------------------------------------------------
(* Sums over the entries of a dict.                                        *)

\* One step of the recursion that adds up f over the subsets of its domain.
Adding(f, s) ==
  [S \in SUBSET DOMAIN f |->
     IF S = {} THEN 0
     ELSE f[CHOOSE x \in S : TRUE] + s[S \ {CHOOSE x \in S : TRUE}]]

\* What holds of 0 and passes from n to n + 1 holds of every number.
LEMMA EveryNumber ==
  ASSUME NEW N, 0 \in N, \A n \in Nat : n \in N => n + 1 \in N
  PROVE  Nat \subseteq N
<1> SUFFICES ASSUME Nat \ N # {} PROVE FALSE
  OBVIOUS
<1> DEFINE T == Nat \ N
<1>1. PICK n \in T : \A m \in T : ~(<<m, n>> \in OpToRel(<, Nat))
  <2>1. T \subseteq Nat /\ T # {} OBVIOUS
  <2> HIDE DEF T
  <2> QED BY <2>1, NatLessThanWellFounded, WFMin
<1>2. n \in Nat /\ n # 0 OBVIOUS
<1>3. n - 1 \in Nat /\ n - 1 < n /\ (n - 1) + 1 = n BY <1>2
<1>4. n - 1 \in T BY <1>3
<1>5. ~(<<n - 1, n>> \in OpToRel(<, Nat)) BY <1>1, <1>4
<1> HIDE DEF T
<1> QED BY <1>2, <1>3, <1>5 DEF OpToRel

\* What holds of {} and of a set when it holds without one of its elements holds of
\* every subset of a finite set.
LEMMA EverySubset ==
  ASSUME NEW D, IsFiniteSet(D), NEW M, {} \in M,
         \A S \in SUBSET D :
           S # {} /\ S \ {CHOOSE x \in S : TRUE} \in M => S \in M
  PROVE  SUBSET D \subseteq M
<1> DEFINE N == {n \in Nat : \A S \in SUBSET D : Cardinality(S) < n => S \in M}
<1>1. \A S \in SUBSET D : IsFiniteSet(S) /\ Cardinality(S) \in Nat
  BY FS_Subset, FS_CardinalityType
<1>2. 0 \in N BY <1>1
<1>3. ASSUME NEW n \in Nat, n \in N PROVE n + 1 \in N
  <2> SUFFICES ASSUME NEW S \in SUBSET D, Cardinality(S) < n + 1 PROVE S \in M
    OBVIOUS
  <2>1. CASE S = {} BY <2>1
  <2>2. CASE S # {}
    <3> DEFINE x == CHOOSE x \in S : TRUE
    <3>1. x \in S BY <2>2
    <3> HIDE DEF x
    <3>2. Cardinality(S \ {x}) = Cardinality(S) - 1 BY <1>1, <3>1, FS_RemoveElement
    <3>3. S \ {x} \in SUBSET D /\ Cardinality(S) \in Nat BY <1>1
    <3>4. S \ {x} \in M BY <1>3, <3>2, <3>3
    <3> QED BY <2>2, <3>4 DEF x
  <2> QED BY <2>1, <2>2
<1>4. Nat \subseteq N
  <2> HIDE DEF N
  <2> QED BY <1>2, <1>3, EveryNumber
<1> QED
  <2> SUFFICES ASSUME NEW S \in SUBSET D PROVE S \in M
    OBVIOUS
  <2>1. Cardinality(S) + 1 \in Nat /\ Cardinality(S) < Cardinality(S) + 1 BY <1>1
  <2> QED BY <1>4, <2>1

\* The sums over the subsets of a finite domain are what the recursion says.
LEMMA SumLaw ==
  ASSUME NEW D, IsFiniteSet(D), NEW f \in [D -> Nat]
  PROVE  \E s \in [SUBSET D -> Nat] : s = Adding(f, s) /\ SumFunction(f) = s[D]
<1> DEFINE first(S) == CHOOSE x \in S : TRUE
           N == {n \in Nat : \E s \in [SUBSET D -> Nat] :
                   \A S \in SUBSET D : Cardinality(S) < n => s[S] = Adding(f, s)[S]}
<1>1. \A S \in SUBSET D : IsFiniteSet(S) /\ Cardinality(S) \in Nat
  BY FS_Subset, FS_CardinalityType
<1>2. ASSUME NEW S \in SUBSET D, S # {}
      PROVE  /\ first(S) \in S /\ f[first(S)] \in Nat
             /\ S \ {first(S)} \in SUBSET D
             /\ Cardinality(S \ {first(S)}) = Cardinality(S) - 1
  <2>1. first(S) \in S BY <1>2
  <2> HIDE DEF first
  <2> QED BY <1>1, <2>1, FS_RemoveElement
<1>3. ASSUME NEW s, NEW S \in SUBSET D
      PROVE  /\ S = {} => Adding(f, s)[S] = 0
             /\ S # {} => Adding(f, s)[S] = f[first(S)] + s[S \ {first(S)}]
  BY DEF Adding
<1>4. \A s : Adding(f, s) = [S \in SUBSET D |-> Adding(f, s)[S]] BY DEF Adding
<1> HIDE DEF first
<1>5. ASSUME NEW s \in [SUBSET D -> Nat] PROVE Adding(f, s) \in [SUBSET D -> Nat]
  <2>1. ASSUME NEW S \in SUBSET D PROVE Adding(f, s)[S] \in Nat
    <3>1. CASE S = {}
      <4>1. Adding(f, s)[S] = 0 BY <1>3, <3>1
      <4> QED BY <4>1
    <3>2. CASE S # {}
      <4>1. f[first(S)] \in Nat /\ s[S \ {first(S)}] \in Nat BY <1>2, <3>2
      <4>2. Adding(f, s)[S] = f[first(S)] + s[S \ {first(S)}] BY <1>3, <3>2
      <4> QED BY <4>1, <4>2
    <3> QED BY <3>1, <3>2
  <2> QED BY <1>4, <2>1
<1>6. 0 \in N
  <2> DEFINE s == [S \in SUBSET D |-> 0]
  <2>1. s \in [SUBSET D -> Nat] OBVIOUS
  <2>2. \A S \in SUBSET D : ~(Cardinality(S) < 0) BY <1>1
  <2> HIDE DEF s
  <2> QED BY <2>1, <2>2
<1>7. ASSUME NEW n \in Nat, n \in N PROVE n + 1 \in N
  <2>1. PICK s \in [SUBSET D -> Nat] :
          \A S \in SUBSET D : Cardinality(S) < n => s[S] = Adding(f, s)[S]
    BY <1>7
  <2> DEFINE t == Adding(f, s)
  <2>2. t \in [SUBSET D -> Nat] BY <1>5
  <2>3. ASSUME NEW S \in SUBSET D, Cardinality(S) < n + 1 PROVE t[S] = Adding(f, t)[S]
    <3>1. CASE S = {} BY <1>3, <3>1
    <3>2. CASE S # {}
      <4> DEFINE R == S \ {first(S)}
      <4>1. R \in SUBSET D /\ Cardinality(R) < n BY <1>1, <1>2, <2>3, <3>2
      <4>2. s[R] = t[R] BY <2>1, <4>1
      <4>3. t[S] = f[first(S)] + s[R] /\ Adding(f, t)[S] = f[first(S)] + t[R]
        BY <1>3, <3>2
      <4> QED BY <4>2, <4>3
    <3> QED BY <3>1, <3>2
  <2> HIDE DEF t
  <2> QED BY <2>2, <2>3
<1>8. \E s : s = Adding(f, s)
  <2>1. Nat \subseteq N
    <3> HIDE DEF N
    <3> QED BY <1>6, <1>7, EveryNumber
  <2>2. Cardinality(D) + 1 \in N
    <3>1. Cardinality(D) + 1 \in Nat BY <1>1
    <3> HIDE DEF N
    <3> QED BY <2>1, <3>1
  <2>3. PICK s \in [SUBSET D -> Nat] :
          \A S \in SUBSET D : Cardinality(S) < Cardinality(D) + 1 => s[S] = Adding(f, s)[S]
    BY <2>2
  <2>4. ASSUME NEW S \in SUBSET D PROVE s[S] = Adding(f, s)[S]
    <3>1. Cardinality(S) <= Cardinality(D) BY FS_Subset
    <3> QED BY <1>1, <2>3, <3>1
  <2>5. s = [S \in SUBSET D |-> Adding(f, s)[S]] BY <2>4
  <2> QED BY <1>4, <2>5
<1> DEFINE sums == CHOOSE s : s = Adding(f, s)
<1>9. sums = Adding(f, sums) BY <1>8
<1>10. SumFunction(f) = sums[D]
  BY DEF SumFunction, SumFunctionOnSet, FoldFunctionOnSet, MapThenFoldSet, Adding
<1> HIDE DEF sums
<1>11. sums \in [SUBSET D -> Nat]
  <2> DEFINE M == {S \in SUBSET D : sums[S] \in Nat}
  <2>1. {} \in M
    <3>1. sums[{}] = 0 BY <1>3, <1>9
    <3> QED BY <3>1
  <2>2. ASSUME NEW S \in SUBSET D, S # {}, S \ {first(S)} \in M PROVE S \in M
    <3>1. sums[S] = f[first(S)] + sums[S \ {first(S)}] BY <1>3, <1>9, <2>2
    <3> QED BY <1>2, <2>2, <3>1
  <2>3. SUBSET D \subseteq M
    <3> HIDE DEF M
    <3> QED BY <2>1, <2>2, EverySubset DEF first
  <2>4. \A S \in SUBSET D : sums[S] \in Nat BY <2>3
  <2>5. sums = [S \in SUBSET D |-> sums[S]]
    <3>1. \A S \in SUBSET D : Adding(f, sums)[S] = sums[S] BY <1>9
    <3>2. Adding(f, sums) = [S \in SUBSET D |-> sums[S]] BY <1>4, <3>1
    <3> QED BY <1>9, <3>2
  <2> HIDE DEF M
  <2> QED BY <2>4, <2>5
<1> QED BY <1>9, <1>10, <1>11

\* Larger terms have a larger sum.
LEMMA SumMonotone ==
  ASSUME NEW D, IsFiniteSet(D), NEW f \in [D -> Nat], NEW g \in [D -> Nat],
         \A x \in D : f[x] <= g[x]
  PROVE  SumFunction(f) \in Nat /\ SumFunction(g) \in Nat /\ SumFunction(f) <= SumFunction(g)
<1> DEFINE first(S) == CHOOSE x \in S : TRUE
<1>1. PICK s \in [SUBSET D -> Nat] : s = Adding(f, s) /\ SumFunction(f) = s[D]
  BY SumLaw
<1>2. PICK t \in [SUBSET D -> Nat] : t = Adding(g, t) /\ SumFunction(g) = t[D]
  BY SumLaw
<1> DEFINE M == {S \in SUBSET D : s[S] <= t[S]}
<1>3. {} \in M
  <2>1. s[{}] = 0 /\ t[{}] = 0 BY <1>1, <1>2 DEF Adding
  <2> QED BY <2>1
<1>4. ASSUME NEW S \in SUBSET D, S # {}, S \ {first(S)} \in M PROVE S \in M
  <2>1. first(S) \in S BY <1>4
  <2>2. /\ s[S] = f[first(S)] + s[S \ {first(S)}]
        /\ t[S] = g[first(S)] + t[S \ {first(S)}]
    BY <1>1, <1>2, <1>4 DEF Adding
  <2> HIDE DEF first
  <2>3. /\ f[first(S)] \in Nat /\ g[first(S)] \in Nat /\ f[first(S)] <= g[first(S)]
        /\ s[S \ {first(S)}] \in Nat /\ t[S \ {first(S)}] \in Nat
        /\ s[S \ {first(S)}] <= t[S \ {first(S)}]
    BY <1>4, <2>1
  <2> QED BY <2>2, <2>3
<1>5. SUBSET D \subseteq M
  <2> HIDE DEF M
  <2> QED BY <1>3, <1>4, EverySubset DEF first
<1> QED BY <1>1, <1>2, <1>5

-----------------------------------------------------------------------------
(* The signers.                                                            *)

LEMMA RequestFacts ==
  \A r \in Request : /\ r.kid \in Str /\ r.model \in Str /\ r.model_hash \in {None} \cup Hash
                     /\ r.dim \in Nat /\ r.extra \in Seq(Str \X Str) /\ r.ts \in Str
BY WireAssumption DEF WireAssumption, Requests

LEMMA SignedHeaderFacts ==
  ASSUME NEW r \in Request, CanSign(r), r.ts \in Stamp
  PROVE  LET h == SignedHeader(r) IN h \in Headers /\ ~Raises(h) /\ h.v = 2 /\ Normal(h)
<1> DEFINE h == SignedHeader(r)
           e == SignedExtra(r.extra)
<1>1. h = [v |-> 2, kid |-> Nfc[r.kid], model |-> Nfc[r.model], model_hash |-> r.model_hash,
           source_hash |-> "sha256:h1", vec_hash |-> "sha256:h1", dim |-> r.dim, ts |-> r.ts,
           extra |-> e]
  BY DEF SignedHeader
<1>2. PICK D \in SUBSET Str :
        /\ e \in [D -> Str]
        /\ \A k \in D : \E m, n \in DOMAIN r.extra :
             k = Nfc[r.extra[m][1]] /\ e[k] = Nfc[r.extra[n][2]]
  BY RequestFacts, SignedExtraFacts
<1> HIDE DEF h, e
<1>3. \A n \in DOMAIN r.extra : /\ r.extra[n][1] \in Str /\ r.extra[n][2] \in Str
                                /\ Safe(r.extra[n][1]) /\ Safe(r.extra[n][2])
  <2>1. r.extra \in Seq(Str \X Str) BY RequestFacts
  <2>2. \A n \in DOMAIN r.extra : r.extra[n][1] \in Str /\ r.extra[n][2] \in Str BY <2>1
  <2> QED BY <2>2 DEF CanSign
<1>4. \A k \in D : /\ Nfc[k] = k /\ Nfc[e[k]] = e[k]
                   /\ k \notin Surrogates /\ e[k] \notin Surrogates
  BY <1>2, <1>3, NfcFacts
<1>5. /\ Nfc[r.kid] \in Str /\ Nfc[r.model] \in Str
      /\ Nfc[Nfc[r.kid]] = Nfc[r.kid] /\ Nfc[Nfc[r.model]] = Nfc[r.model]
      /\ Nfc[r.kid] \notin Surrogates /\ Nfc[r.model] \notin Surrogates
  BY RequestFacts, NfcFacts DEF CanSign
<1>6. /\ h.v = 2 /\ h.kid = Nfc[r.kid] /\ h.model = Nfc[r.model] /\ h.extra = e
      /\ h.ts = r.ts
  BY <1>1
<1>10. r.ts \in Str /\ r.ts \notin Surrogates /\ Nfc[r.ts] = r.ts
  BY WireAssumption DEF WireAssumption, CanSign
<1>7. h \in Headers
  <2>1. e \in Extras
    <3>1. e \in [D -> Free] BY <1>2 DEF Free
    <3> QED BY <3>1 DEF Extras
  <2>2. "sha256:h1" \in Hash BY DEF Hash, HashMatches, StrictHash
  <2>3. Nfc[r.kid] \in Free /\ Nfc[r.model] \in Free /\ r.ts \in Free BY <1>5, <1>10 DEF Free
  <2> QED BY <1>1, <2>1, <2>2, <2>3, RequestFacts DEF Headers
<1>8. Normal(h) BY <1>2, <1>4, <1>5, <1>6, <1>10 DEF Normal
<1>9. ~Raises(h)
  <2>1. DOMAIN h.extra = D BY <1>2, <1>6
  <2>2. \A s \in Encoded(h) : s \notin Surrogates
    BY <1>4, <1>5, <1>6, <1>10, <2>1 DEF Encoded
  <2> QED BY <1>5, <1>6, <2>2 DEF Raises
<1> QED BY <1>6, <1>7, <1>8, <1>9 DEF h

V1Header(r) ==
  [SignedHeader(r) EXCEPT !.v = 1, !.kid = r.kid, !.model = r.model,
                          !.extra = RawExtra(r.extra)]

LEMMA V1HeaderFields ==
  ASSUME NEW r
  PROVE  LET h == V1Header(r) IN
         /\ h = [v |-> 1, kid |-> r.kid, model |-> r.model, model_hash |-> r.model_hash,
                 source_hash |-> "sha256:h1", vec_hash |-> "sha256:h1", dim |-> r.dim,
                 ts |-> r.ts, extra |-> RawExtra(r.extra)]
         /\ h.kid = r.kid /\ h.model = r.model /\ h.extra = RawExtra(r.extra)
<1> DEFINE h == V1Header(r)
           f == RawExtra(r.extra)
           g == SignedExtra(r.extra)
           s == SignedHeader(r)
<1>1. s = [v |-> 2, kid |-> Nfc[r.kid], model |-> Nfc[r.model],
           model_hash |-> r.model_hash, source_hash |-> "sha256:h1",
           vec_hash |-> "sha256:h1", dim |-> r.dim, ts |-> r.ts, extra |-> g]
  BY DEF SignedHeader
<1>2. h = [s EXCEPT !.v = 1, !.kid = r.kid, !.model = r.model, !.extra = f]
  BY DEF V1Header
<1> HIDE DEF f, g, s, h
<1>3. h = [v |-> 1, kid |-> r.kid, model |-> r.model, model_hash |-> r.model_hash,
           source_hash |-> "sha256:h1", vec_hash |-> "sha256:h1", dim |-> r.dim,
           ts |-> r.ts, extra |-> f]
  BY <1>1, <1>2
<1>4. h.kid = r.kid /\ h.model = r.model /\ h.extra = f BY <1>3
<1> QED BY <1>3, <1>4 DEF h, f

LEMMA V1HeaderFacts ==
  ASSUME NEW r \in Request
  PROVE  /\ V1Header(r) \in Headers /\ V1Header(r).v = 1 /\ V1Header(r).kid = r.kid
<1> DEFINE h == V1Header(r)
<1>1. h = [v |-> 1, kid |-> r.kid, model |-> r.model, model_hash |-> r.model_hash,
           source_hash |-> "sha256:h1", vec_hash |-> "sha256:h1", dim |-> r.dim, ts |-> r.ts,
           extra |-> RawExtra(r.extra)]
  BY V1HeaderFields
<1> HIDE DEF h
<1>2. h.v = 1 /\ h.kid = r.kid BY <1>1
<1>3. h \in Headers
  <2>1. RawExtra(r.extra) \in Extras BY RequestFacts, RawExtraFacts
  <2>2. "sha256:h1" \in Hash BY DEF Hash, HashMatches, StrictHash
  <2>3. r.kid \in Free /\ r.model \in Free /\ r.ts \in Free BY RequestFacts DEF Free
  <2> QED BY <1>1, <2>1, <2>2, <2>3, RequestFacts DEF Headers
<1> QED BY <1>2, <1>3 DEF h

-----------------------------------------------------------------------------
(* Headers and dicts.                                                      *)

\* The header of a dict, field by field.
LEMMA HeaderFields ==
  ASSUME NEW d \in Dicts, d.extra # Wrong
  PROVE  LET h == HeaderOf(d) IN
         /\ h = [v |-> d.v, kid |-> d.kid, model |-> d.model,
                 model_hash |-> IF d.model_hash = Null THEN None ELSE d.model_hash,
                 source_hash |-> d.source_hash, vec_hash |-> d.vec_hash, dim |-> d.dim,
                 ts |-> d.ts, extra |-> Extra(d)]
         /\ h.v = d.v /\ h.kid = d.kid /\ h.model = d.model /\ h.ts = d.ts
         /\ h.extra = Extra(d) /\ h \in Headers
<1> DEFINE e == Extra(d)
           g == IF d.model_hash = Null THEN None ELSE d.model_hash
           h == HeaderOf(d)
<1>1. e \in Extras
  <2>1. CASE d.extra = None
    <3> DEFINE D == {}
    <3>1. e = NoExtra BY <2>1 DEF Extra
    <3>2. NoExtra \in [D -> Free] BY DEF NoExtra
    <3>3. D \in SUBSET Str OBVIOUS
    <3> HIDE DEF D
    <3> QED BY <3>1, <3>2, <3>3 DEF Extras
  <2>2. CASE d.extra # None BY <2>2 DEF Extra, Dicts
  <2> QED BY <2>1, <2>2
<1>2. g \in Hash \cup {None} BY DEF Dicts
<1>3. h = [d EXCEPT !.model_hash = g, !.extra = e] BY DEF HeaderOf
<1> HIDE DEF e, g, h
<1>4. h = [v |-> d.v, kid |-> d.kid, model |-> d.model, model_hash |-> g,
           source_hash |-> d.source_hash, vec_hash |-> d.vec_hash, dim |-> d.dim,
           ts |-> d.ts, extra |-> e]
  BY <1>3 DEF Dicts
<1>5. h \in Headers BY <1>1, <1>2, <1>4 DEF Headers, Dicts
<1>6. /\ h.v = d.v /\ h.kid = d.kid /\ h.model = d.model /\ h.ts = d.ts /\ h.extra = e
  BY <1>4
<1> QED BY <1>4, <1>5, <1>6 DEF e, g, h

\* Reading what was written.
LEMMA DictFacts ==
  ASSUME NEW h \in Headers
  PROVE  /\ ToDict(h) = [h EXCEPT !.extra = IF h.extra = NoExtra THEN None ELSE h.extra]
         /\ ToDict(h) \in Dicts /\ ToDict(h).extra # Wrong
         /\ Extra(ToDict(h)) = h.extra /\ HeaderOf(ToDict(h)) = h
<1> DEFINE x == IF h.extra = NoExtra THEN None ELSE h.extra
           d == ToDict(h)
<1>1. h.extra \notin {Wrong, None}
  <2>1. PICK D \in SUBSET Str : h.extra \in [D -> Free] BY DEF Headers, Extras
  <2> QED BY <2>1, WireAssumption DEF WireAssumption, Free
<1>2. x \in Extras \cup {None} /\ x # Wrong
  BY <1>1, WireAssumption DEF Headers, WireAssumption
<1>3. d = [h EXCEPT !.extra = x] BY DEF ToDict
<1> HIDE DEF x, d
<1>4. d \in Dicts /\ d.extra = x /\ d.model_hash = h.model_hash
  BY <1>2, <1>3 DEF Headers, Dicts
<1>5. Extra(d) = h.extra BY <1>1, <1>4 DEF Extra, x
<1>6. d.model_hash # Null BY <1>4, WireAssumption DEF WireAssumption, Headers
<1>7. HeaderOf(d) = [d EXCEPT !.model_hash = d.model_hash, !.extra = h.extra]
  BY <1>5, <1>6 DEF HeaderOf
<1>8. HeaderOf(d) = h BY <1>3, <1>7 DEF Headers
<1> QED BY <1>2, <1>3, <1>4, <1>5, <1>8 DEF d, x

\* A dict is one of the spellings of its header.
LEMMA SpellingFacts ==
  ASSUME NEW d \in Dicts, d.extra # Wrong
  PROVE  d \in Spellings(HeaderOf(d))
<1> DEFINE h == HeaderOf(d)
           g == IF d.model_hash = Null THEN None ELSE d.model_hash
           e == Extra(d)
<1>1. h = [d EXCEPT !.model_hash = g, !.extra = e] BY DEF HeaderOf
<1>2. /\ d.model_hash # g => g = None /\ d.model_hash = Null
      /\ d.extra # e => e = NoExtra /\ d.extra = None
  BY DEF Extra
<1> HIDE DEF g, e, h
<1>3. h.model_hash = g /\ h.extra = e BY <1>1 DEF Dicts
<1>4. d = [h EXCEPT !.model_hash = d.model_hash, !.extra = d.extra] BY <1>1 DEF Dicts
<1>5. /\ d.model_hash \in {h.model_hash} \cup (IF h.model_hash = None THEN {Null} ELSE {})
      /\ d.extra \in {h.extra} \cup (IF h.extra = NoExtra THEN {None} ELSE {})
  BY <1>2, <1>3
<1>6. d \in Spellings(h)
  <2> DEFINE G == {h.model_hash} \cup (IF h.model_hash = None THEN {Null} ELSE {})
             E == {h.extra} \cup (IF h.extra = NoExtra THEN {None} ELSE {})
             put(x, y) == [h EXCEPT !.model_hash = x, !.extra = y]
  <2>1. Spellings(h) = {put(x, y) : x \in G, y \in E} BY DEF Spellings
  <2>2. d = put(d.model_hash, d.extra) /\ d.model_hash \in G /\ d.extra \in E
    BY <1>4, <1>5
  <2> HIDE DEF G, E, put
  <2> QED BY <2>1, <2>2
<1> QED BY <1>6 DEF h

-----------------------------------------------------------------------------
(* Edits.                                                                  *)

LEMMA FieldEditFacts ==
  ASSUME NEW h \in Dicts, NEW x \in FieldEdits(h)
  PROVE  x \in Dicts
<1>1. ASSUME NEW v \in {0, 1, 2}, x = [h EXCEPT !.v = v] PROVE x \in Dicts
  BY <1>1 DEF Dicts
<1>2. ASSUME NEW s \in Free, x = [h EXCEPT !.kid = s] PROVE x \in Dicts
  BY <1>2 DEF Dicts
<1>3. ASSUME NEW s \in Free, x = [h EXCEPT !.model = s] PROVE x \in Dicts
  BY <1>3 DEF Dicts
<1>4. ASSUME NEW g \in Hash \cup {None, Null}, x = [h EXCEPT !.model_hash = g] PROVE x \in Dicts
  BY <1>4 DEF Dicts
<1>5. ASSUME NEW g \in Hash, x = [h EXCEPT !.source_hash = g] PROVE x \in Dicts
  BY <1>5 DEF Dicts
<1>6. ASSUME NEW n \in {0, 1, MaxDim, MaxDim + 1}, x = [h EXCEPT !.dim = n]
      PROVE  x \in Dicts
  <2>1. n \in Nat BY WireAssumption DEF WireAssumption
  <2> QED BY <1>6, <2>1 DEF Dicts
<1>7. ASSUME NEW t \in Free, x = [h EXCEPT !.ts = t] PROVE x \in Dicts
  BY <1>7 DEF Dicts
<1> QED BY <1>1, <1>2, <1>3, <1>4, <1>5, <1>6, <1>7 DEF FieldEdits, Free

LEMMA ExtraEditFacts ==
  ASSUME NEW e \in Extras \cup {Wrong, None}, NEW x \in ExtraEdits(e)
  PROVE  x \in Extras \cup {Wrong, None}
<1>1. Entries(e) \subseteq Str /\ \A j \in Entries(e) : e[j] \in Free
  BY DEF Entries, Extras
<1>7. NoExtra \in Extras
  <2> DEFINE D == {}
  <2>1. NoExtra \in [D -> Free] /\ D \in SUBSET Str BY DEF NoExtra
  <2> HIDE DEF D
  <2> QED BY <2>1 DEF Extras
<1>2. ASSUME NEW k \in Str, NEW s \in Free
      PROVE  [j \in Entries(e) \cup {k} |-> IF j = k THEN s ELSE e[j]] \in Extras
  <2> DEFINE D == Entries(e) \cup {k}
             f == [j \in D |-> IF j = k THEN s ELSE e[j]]
  <2>1. D \in SUBSET Str BY <1>1
  <2>2. f \in [D -> Free] BY <1>1
  <2> HIDE DEF f
  <2>3. f \in Extras BY <2>1, <2>2 DEF Extras
  <2> QED BY <2>3 DEF f
<1>3. ASSUME NEW k \in Entries(e)
      PROVE  [j \in Entries(e) \ {k} |-> e[j]] \in Extras
  <2> DEFINE D == Entries(e) \ {k}
             f == [j \in D |-> e[j]]
  <2>1. D \in SUBSET Str BY <1>1
  <2>2. f \in [D -> Free] BY <1>1
  <2> HIDE DEF f
  <2>3. f \in Extras BY <2>1, <2>2 DEF Extras
  <2> QED BY <2>3 DEF f
<1> DEFINE A == {Wrong, None, NoExtra}
           B == {[j \in Entries(e) \cup {k} |-> IF j = k THEN s ELSE e[j]]
                   : k \in Str, s \in Free}
           C == {[j \in Entries(e) \ {k} |-> e[j]] : k \in Entries(e)}
<1>4. CASE x \in A BY <1>4, <1>7
<1>5. CASE x \in B
  <2>1. PICK k \in Str, s \in Free :
          x = [j \in Entries(e) \cup {k} |-> IF j = k THEN s ELSE e[j]]
    BY <1>5
  <2> QED BY <1>2, <2>1
<1>6. CASE x \in C
  <2>1. PICK k \in Entries(e) : x = [j \in Entries(e) \ {k} |-> e[j]]
    BY <1>6
  <2> QED BY <1>3, <2>1
<1>8. ExtraEdits(e) = A \cup B \cup C BY DEF ExtraEdits, Free
<1> HIDE DEF A, B, C
<1> QED BY <1>4, <1>5, <1>6, <1>8

\* An edit of a wire leaves a wire, with the signature's bytes as they were.
LEMMA EditFacts ==
  ASSUME NEW h, NEW w \in Wires(h), NEW x \in Changed(w)
  PROVE  x \in Wires(h)
<1>1. /\ w.unknown \in BOOLEAN /\ w.dict \in Dicts
      /\ w.dict.extra \in Extras \cup {Wrong, None}
      /\ w.sig \in [form : Encoding, over : {Canonicalize(h)}]
  BY DEF Wires, Dicts
<1>2. ASSUME NEW y \in Dicts, x = [w EXCEPT !.dict = y] PROVE x \in Wires(h)
  BY <1>2 DEF Wires
<1>3. CASE x = [w EXCEPT !.unknown = TRUE] BY <1>3 DEF Wires
<1>4. ASSUME NEW y \in FieldEdits(w.dict), x = [w EXCEPT !.dict = y]
      PROVE  x \in Wires(h)
  BY <1>1, <1>2, <1>4, FieldEditFacts
<1>5. ASSUME NEW e \in ExtraEdits(w.dict.extra), x = [w EXCEPT !.dict.extra = e]
      PROVE  x \in Wires(h)
  <2>1. e \in Extras \cup {Wrong, None} BY <1>1, ExtraEditFacts
  <2>2. [w.dict EXCEPT !.extra = e] \in Dicts BY <1>1, <2>1 DEF Dicts
  <2> QED BY <1>2, <1>5, <2>2
<1>6. ASSUME NEW f \in Encoding, x = [w EXCEPT !.sig.form = f] PROVE x \in Wires(h)
  <2>1. [w.sig EXCEPT !.form = f] \in [form : Encoding, over : {Canonicalize(h)}] BY <1>1
  <2>2. x = [w EXCEPT !.sig = [w.sig EXCEPT !.form = f]] BY <1>6
  <2> QED BY <1>1, <2>1, <2>2 DEF Wires
<1> QED BY <1>3, <1>4, <1>5, <1>6 DEF Changed

-----------------------------------------------------------------------------
(* The parser.                                                             *)

\* A parsed header is of a version the reader takes, and its strings pass the rules.
LEMMA ParsedFacts ==
  ASSUME NEW h, NEW w \in Wires(h), FromDict(w, {2}) \/ FromDict(w, {1, 2})
  PROVE  LET g == HeaderOf(w.dict) IN
         /\ ~w.unknown /\ w.sig.form = "canonical"
         /\ w.dict \in Dicts /\ w.dict.extra # Wrong /\ g \in Headers
         /\ g.v \in {1, 2} /\ ~Raises(g)
         /\ g.v = 2 => Normal(g)
<1> DEFINE d == w.dict
           g == HeaderOf(d)
<1>1. /\ ~w.unknown /\ w.sig.form = "canonical" /\ d.v \in {1, 2}
      /\ StringOk(d.kid, MaxKid, d.v) /\ StringOk(d.model, MaxModel, d.v)
      /\ ExtraOk(d) /\ TsOk(d)
  BY DEF FromDict
<1>2. d \in Dicts BY DEF Wires
<1>3. d.extra # Wrong
  <2>1. Extra(d) # Wrong BY <1>1 DEF ExtraOk
  <2>2. Wrong # None BY WireAssumption DEF WireAssumption
  <2> QED BY <2>1, <2>2 DEF Extra
<1> HIDE DEF d
<1>4. /\ g \in Headers /\ g.v = d.v /\ g.kid = d.kid /\ g.model = d.model /\ g.ts = d.ts
      /\ g.extra = Extra(d)
  BY <1>2, <1>3, HeaderFields
<1> HIDE DEF g
<1>5. PICK D \in SUBSET Str : g.extra \in [D -> Free] BY <1>4 DEF Headers, Extras
<1>6. /\ g.kid \in Str /\ g.kid \notin Surrogates /\ (g.v = 2 => Nfc[g.kid] = g.kid)
      /\ g.model \in Str /\ g.model \notin Surrogates /\ (g.v = 2 => Nfc[g.model] = g.model)
  BY <1>1, <1>2, <1>4 DEF StringOk, Dicts, Free
<1>7. g.ts \in Str /\ g.ts \notin Surrogates /\ (g.v = 2 => Nfc[g.ts] = g.ts)
  BY <1>1, <1>2, <1>4 DEF TsOk, Safe, Dicts, Free
<1>8. \A k \in D : /\ g.extra[k] \in Str
                   /\ k \notin Surrogates /\ g.extra[k] \notin Surrogates
                   /\ g.v = 2 => Nfc[k] = k /\ Nfc[g.extra[k]] = g.extra[k]
  <2>1. DOMAIN g.extra = D /\ \A k \in D : g.extra[k] \in Free BY <1>5
  <2>2. \A k \in D : /\ ExtraStringOk(k, MaxKey, g.v)
                     /\ ExtraStringOk(g.extra[k], MaxValue, g.v)
    BY <1>1, <1>4, <2>1 DEF ExtraOk
  <2> QED BY <2>1, <2>2 DEF ExtraStringOk, Free
<1>9. ~Raises(g)
  <2>1. DOMAIN g.extra = D BY <1>5
  <2>2. \A s \in Encoded(g) : s \notin Surrogates BY <1>6, <1>7, <1>8, <2>1 DEF Encoded
  <2> QED BY <1>6, <2>2 DEF Raises
<1>10. g.v = 2 => Normal(g)
  <2> SUFFICES ASSUME g.v = 2 PROVE Normal(g)
    OBVIOUS
  <2>1. g.extra \in [D -> Str] BY <1>5, <1>8
  <2> QED BY <1>6, <1>7, <1>8, <2>1 DEF Normal
<1> QED BY <1>1, <1>2, <1>3, <1>4, <1>9, <1>10 DEF d, g

-----------------------------------------------------------------------------
(* The invariant.                                                          *)

LEMMA InitInvariant == Init => IInv
<1> SUFFICES ASSUME Init PROVE IInv
  OBVIOUS
<1>1. MaxEdits \in Nat BY WireAssumption DEF WireAssumption
<1>2. /\ stage = "new" /\ request \in Request
      /\ signed = None /\ wire = None /\ path = None /\ legacy = FALSE
      /\ verdict = None /\ edits = 0
  BY DEF Init
<1>3. Types
  <2>1. edits \in 0..MaxEdits BY <1>1, <1>2
  <2>2. path \in {None, "dict", "json"} /\ legacy \in BOOLEAN BY <1>2
  <2> QED BY <1>2, <2>1, <2>2 DEF Types
<1>4. Signed /\ Wired BY <1>2 DEF Signed, Wired
<1>5. Accepted /\ Judged BY <1>2 DEF Accepted, Judged
<1> QED BY <1>3, <1>4, <1>5 DEF IInv

LEMMA SignKeeps == ASSUME IInv, Sign PROVE IInv'
<1>1. /\ stage = "new" /\ request \in Request /\ request.ts \in Stamp
      /\ UNCHANGED <<request, wire, path, legacy, verdict, edits>>
  BY DEF Sign, IInv, Types
<1>2. wire = None /\ verdict = None BY <1>1 DEF IInv, Wired, Judged
<1>3. CASE CanSign(request)
  <2>1. stage' = "signed" /\ signed' = SignedHeader(request) BY <1>3 DEF Sign
  <2>2. /\ signed' \in Headers /\ ~Raises(signed') /\ signed'.v = 2 /\ Normal(signed')
    BY <1>1, <1>3, <2>1, SignedHeaderFacts
  <2>3. Signed' BY <2>1, <2>2 DEF Signed
  <2>4. Wired' /\ Accepted' /\ Judged' BY <1>1, <1>2, <2>1 DEF Wired, Accepted, Judged
  <2> QED BY <1>1, <2>1, <2>3, <2>4 DEF IInv, Types
<1>4. CASE ~CanSign(request)
  <2>1. stage' = "refused" /\ signed' = None BY <1>4 DEF Sign
  <2> QED BY <1>1, <1>2, <2>1 DEF IInv, Types, Signed, Wired, Accepted, Judged
<1> QED BY <1>3, <1>4

LEMMA SignV1Keeps == ASSUME IInv, SignV1 PROVE IInv'
<1>1. /\ stage = "new" /\ request \in Request /\ stage' = "signed"
      /\ signed' = V1Header(request) /\ ~Raises(V1Header(request))
      /\ UNCHANGED <<request, wire, path, legacy, verdict, edits>>
  BY DEF SignV1, V1Header, IInv, Types
<1>2. wire = None /\ verdict = None BY <1>1 DEF IInv, Wired, Judged
<1>3. /\ signed' \in Headers /\ ~Raises(signed') /\ signed'.v = 1
      /\ signed'.kid = request'.kid
  BY <1>1, V1HeaderFacts
<1>4. Signed' BY <1>1, <1>3 DEF Signed
<1>5. Wired' /\ Accepted' /\ Judged' BY <1>1, <1>2 DEF Wired, Accepted, Judged
<1> QED BY <1>1, <1>4, <1>5 DEF IInv, Types

LEMMA StoreKeeps == ASSUME IInv, NEW p \in {"dict", "json"}, Store(p) PROVE IInv'
<1>1. /\ stage = "signed" /\ stage' = "stored" /\ path' = p
      /\ wire' = [unknown |-> FALSE, dict |-> ToDict(signed),
                  sig |-> [form |-> "canonical", over |-> Canonicalize(signed)]]
      /\ UNCHANGED <<request, signed, legacy, verdict, edits>>
  BY DEF Store
<1>2. verdict = None /\ signed \in Headers BY <1>1 DEF IInv, Signed, Judged
<1>3. wire' \in Wires(signed)
  <2>1. "canonical" \in Encoding BY DEF Encoding
  <2>2. ToDict(signed) \in Dicts BY <1>2, DictFacts
  <2> QED BY <1>1, <2>1, <2>2 DEF Wires
<1>4. Signed' BY <1>1 DEF IInv, Signed
<1>5. Wired' BY <1>1, <1>3 DEF Wired
<1>6. Accepted' /\ Judged' BY <1>1, <1>2 DEF Accepted, Judged
<1> QED BY <1>1, <1>4, <1>5, <1>6 DEF IInv, Types

LEMMA EditKeeps == ASSUME IInv, Edit PROVE IInv'
<1>1. /\ stage = "stored" /\ wire' \in Changed(wire) /\ edits' = edits + 1
      /\ edits < MaxEdits
      /\ UNCHANGED <<stage, request, signed, path, legacy, verdict>>
  BY DEF Edit
<1>2. wire' \in Wires(signed) BY <1>1, EditFacts DEF IInv, Wired
<1>3. edits' \in 0..MaxEdits
  BY <1>1, WireAssumption DEF IInv, Types, WireAssumption
<1>4. Signed' BY <1>1 DEF IInv, Signed
<1>5. Wired' BY <1>1, <1>2 DEF Wired
<1>6. Accepted' /\ Judged' BY <1>1 DEF IInv, Accepted, Judged
<1> QED BY <1>1, <1>3, <1>4, <1>5, <1>6 DEF IInv, Types

LEMMA ParseKeeps == ASSUME IInv, NEW old \in BOOLEAN, Parse(old) PROVE IInv'
<1>1. /\ stage = "stored" /\ stage' \in {"parsed", "rejected"} /\ legacy' = old
      /\ UNCHANGED <<request, signed, wire, path, verdict, edits>>
  BY DEF Parse
<1>2. stage' = "parsed" => FromDict(wire, {2}) \/ FromDict(wire, {1, 2})
  <2> DEFINE versions == IF old THEN {1, 2} ELSE {2}
  <2>1. stage' = "parsed" => FromDict(wire, versions) BY DEF Parse, FromJson
  <2>2. versions = {2} \/ versions = {1, 2} OBVIOUS
  <2> HIDE DEF versions
  <2> QED BY <2>1, <2>2
<1>3. Signed' BY <1>1 DEF IInv, Signed
<1>4. Wired' BY <1>1 DEF IInv, Wired
<1>5. Accepted' BY <1>1, <1>2 DEF Accepted
<1>6. Judged' BY <1>1 DEF IInv, Judged
<1> QED BY <1>1, <1>3, <1>4, <1>5, <1>6 DEF IInv, Types

LEMMA VerifyKeeps == ASSUME IInv, Verify PROVE IInv'
<1>1. /\ stage = "parsed" /\ stage' = "judged"
      /\ verdict' = Judge(HeaderOf(wire.dict), wire.sig, request)
      /\ UNCHANGED <<request, signed, wire, path, legacy, edits>>
  BY DEF Verify
<1>2. Signed' BY <1>1 DEF IInv, Signed
<1>3. Wired' BY <1>1 DEF IInv, Wired
<1>4. Accepted' BY <1>1 DEF IInv, Accepted
<1>5. Judged' BY <1>1 DEF Judged
<1> QED BY <1>1, <1>2, <1>3, <1>4, <1>5 DEF IInv, Types

LEMMA StepInvariant == IInv /\ [Next]_vars => IInv'
<1> SUFFICES ASSUME IInv, [Next]_vars PROVE IInv'
  OBVIOUS
<1>1. CASE UNCHANGED vars
  BY <1>1 DEF vars, IInv, Types, Signed, Wired, Accepted, Judged
<1> QED BY <1>1, SignKeeps, SignV1Keeps, StoreKeeps, EditKeeps, ParseKeeps, VerifyKeeps
        DEF Next

\* The inductive invariant holds always.
THEOREM Invariant == Spec => []IInv
BY InitInvariant, StepInvariant, PTL DEF Spec

-----------------------------------------------------------------------------
(* The honest pin.                                                         *)

\* What Store makes of a header, and what a reader of versions V asks of it.
Stored(h) ==
  [unknown |-> FALSE, dict |-> ToDict(h),
   sig |-> [form |-> "canonical", over |-> Canonicalize(h)]]

Refused(w) ==
  \E V \in {{2}, {1, 2}} : IF path = "json" THEN ~FromJson(w, V) ELSE ~FromDict(w, V)

\* Where the signed header comes from, and what is stored until somebody edits it.
Made ==
  stage \notin {"new", "refused"} =>
    \/ CanSign(request) /\ signed = SignedHeader(request)
    \/ signed = V1Header(request)

Untouched ==
  edits = 0 /\ stage \in {"stored", "parsed", "rejected", "judged"} => wire = Stored(signed)

HInv == Made /\ Untouched /\ (stage = "rejected" => Refused(wire))

\* The extra that the signer makes is finite, normal and safe.
LEMMA HonestExtra ==
  ASSUME NEW r \in Request, CanSign(r)
  PROVE  LET e == SignedExtra(r.extra) IN
         \E D \in SUBSET Str :
           /\ e \in [D -> Str] /\ IsFiniteSet(D) /\ e # Wrong
           /\ \A k \in D : /\ Nfc[k] = k /\ Nfc[e[k]] = e[k]
                           /\ k \notin Unsafe \cup Surrogates
                           /\ e[k] \notin Unsafe \cup Surrogates
<1> DEFINE e == SignedExtra(r.extra)
<1>1. r.extra \in Seq(Str \X Str) BY RequestFacts
<1>2. PICK D \in SUBSET Str :
        /\ e \in [D -> Str]
        /\ \A k \in D : \E m, n \in DOMAIN r.extra :
             k = Nfc[r.extra[m][1]] /\ e[k] = Nfc[r.extra[n][2]]
  BY <1>1, SignedExtraFacts
<1>3. IsFiniteSet(D)
  <2>1. DOMAIN e = {Nfc[r.extra[n][1]] : n \in DOMAIN r.extra} BY DEF SignedExtra
  <2>2. D = {Nfc[r.extra[n][1]] : n \in DOMAIN r.extra} BY <1>2, <2>1
  <2>3. DOMAIN r.extra = 1..Len(r.extra) /\ Len(r.extra) \in Nat BY <1>1
  <2>4. IsFiniteSet(DOMAIN r.extra) BY <2>3, FS_Interval
  <2> DEFINE keys == [n \in DOMAIN r.extra |-> Nfc[r.extra[n][1]]]
  <2>5. keys \in Surjection(DOMAIN r.extra, D) BY <2>2 DEF Surjection
  <2> HIDE DEF e, keys
  <2> QED BY <2>4, <2>5, FS_Surjection
<1> HIDE DEF e
<1>4. \A n \in DOMAIN r.extra : r.extra[n][1] \in Str /\ r.extra[n][2] \in Str BY <1>1
<1>5. \A s \in Str : Safe(s) => /\ Nfc[s] \notin Unsafe \cup Surrogates
                                /\ Nfc[Nfc[s]] = Nfc[s]
  BY WireAssumption DEF WireAssumption, Safe
<1>6. \A n \in DOMAIN r.extra : Safe(r.extra[n][1]) /\ Safe(r.extra[n][2]) BY DEF CanSign
<1>7. \A k \in D : /\ Nfc[k] = k /\ Nfc[e[k]] = e[k]
                   /\ k \notin Unsafe \cup Surrogates
                   /\ e[k] \notin Unsafe \cup Surrogates
  BY <1>2, <1>4, <1>5, <1>6
<1>8. e # Wrong BY <1>2, WireAssumption DEF WireAssumption
<1> QED BY <1>2, <1>3, <1>7, <1>8 DEF e

\* In code points a dict is no longer than in escaped bytes.
LEMMA PointsWithinEscaped ==
  ASSUME NEW h, h.kid \in Str, h.model \in Str, h.ts \in Str, h.extra # Wrong,
         NEW D \in SUBSET Str, IsFiniteSet(D), Entries(h.extra) = D,
         \A k \in D : h.extra[k] \in Str
  PROVE  /\ Total(h, Points) \in Nat /\ Total(h, Escaped) \in Nat
         /\ Total(h, Points) <= Total(h, Escaped)
<1>1. \A s \in Str : /\ Points[s] \in Nat /\ Escaped[s] \in Nat /\ Points[s] <= Escaped[s]
                     /\ s # Wrong
  <2>1. /\ Points \in [Str -> Nat] /\ Bytes \in [Str -> Nat] /\ Escaped \in [Str -> Nat]
        /\ \A s \in Str : Points[s] <= Bytes[s] /\ Bytes[s] <= Escaped[s]
        /\ Wrong \notin Str
    BY WireAssumption DEF WireAssumption
  <2> SUFFICES ASSUME NEW s \in Str
               PROVE  /\ Points[s] \in Nat /\ Escaped[s] \in Nat /\ Points[s] <= Escaped[s]
                      /\ s # Wrong
    OBVIOUS
  <2>2. Points[s] \in Nat /\ Bytes[s] \in Nat /\ Escaped[s] \in Nat BY <2>1
  <2> QED BY <2>1, <2>2
<1> DEFINE terms(length) ==
             [k \in D |-> length[k] + IF h.extra[k] = Wrong THEN 0 ELSE length[h.extra[k]]]
<1>2. \A length : Total(h, length) = length[h.kid] + length[h.model] + length[h.ts]
                                     + SumFunction(terms(length))
  <2>1. h.kid # Wrong /\ h.model # Wrong /\ h.ts # Wrong BY <1>1
  <2> QED BY <2>1 DEF Total
<1>3. \A k \in D : k \in Str /\ h.extra[k] \in Str OBVIOUS
<1>4. /\ terms(Points) \in [D -> Nat] /\ terms(Escaped) \in [D -> Nat]
      /\ \A k \in D : terms(Points)[k] <= terms(Escaped)[k]
  BY <1>1, <1>3
<1> HIDE DEF terms
<1>5. /\ SumFunction(terms(Points)) \in Nat /\ SumFunction(terms(Escaped)) \in Nat
      /\ SumFunction(terms(Points)) <= SumFunction(terms(Escaped))
  BY <1>4, SumMonotone
<1>6. /\ Points[h.kid] \in Nat /\ Escaped[h.kid] \in Nat /\ Points[h.kid] <= Escaped[h.kid]
      /\ Points[h.model] \in Nat /\ Escaped[h.model] \in Nat
      /\ Points[h.model] <= Escaped[h.model]
      /\ Points[h.ts] \in Nat /\ Escaped[h.ts] \in Nat /\ Points[h.ts] <= Escaped[h.ts]
  BY <1>1
<1> QED BY <1>2, <1>5, <1>6

\* Within the caps and in normal form, the parser takes what the signer made.
LEMMA HonestParses ==
  ASSUME NEW r \in Request, CanSign(r), WithinCaps(r), Composed(r), NEW V, 2 \in V
  PROVE  LET w == Stored(SignedHeader(r)) IN FromDict(w, V) /\ FromJson(w, V)
<1> DEFINE h == SignedHeader(r)
           w == Stored(h)
           d == ToDict(h)
           e == SignedExtra(r.extra)
<1>1. h = [v |-> 2, kid |-> Nfc[r.kid], model |-> Nfc[r.model], model_hash |-> r.model_hash,
           source_hash |-> "sha256:h1", vec_hash |-> "sha256:h1", dim |-> r.dim, ts |-> r.ts,
           extra |-> e]
  BY DEF SignedHeader
<1>2. PICK D \in SUBSET Str :
        /\ e \in [D -> Str] /\ IsFiniteSet(D) /\ e # Wrong
        /\ \A k \in D : /\ Nfc[k] = k /\ Nfc[e[k]] = e[k]
                        /\ k \notin Unsafe \cup Surrogates /\ e[k] \notin Unsafe \cup Surrogates
  BY HonestExtra
<1>3. /\ Bytes[h.kid] <= MaxKid /\ Bytes[h.model] <= MaxModel
      /\ Cardinality(DOMAIN h.extra) <= MaxEntries
      /\ \A k \in DOMAIN h.extra : Bytes[k] <= MaxKey /\ Bytes[h.extra[k]] <= MaxValue
      /\ Total(d, Escaped) <= MaxPin
      /\ r.dim <= MaxDim /\ r.ts \in Instant /\ r.model_hash \in StrictHash \cup {None}
  BY DEF WithinCaps
<1>4. w.unknown = FALSE /\ w.dict = d /\ w.sig.form = "canonical" BY DEF Stored
<1>5. /\ Nfc[r.kid] = r.kid /\ r.kid \in Str /\ r.kid # Empty /\ r.kid \notin Unsafe \cup Surrogates
      /\ Nfc[r.model] = r.model /\ r.model \in Str /\ r.model # Empty
      /\ r.model \notin Unsafe \cup Surrogates
  BY RequestFacts DEF Composed, CanSign, Safe
<1>6. r.dim \in Nat \ {0} BY WireAssumption DEF WireAssumption, Requests
<1>7. Wrong \notin Str /\ MaxDim \in Nat /\ MaxPin \in Nat
  BY WireAssumption DEF WireAssumption
<1>16. /\ r.ts \in Str /\ r.ts # Empty /\ Safe(r.ts) /\ Nfc[r.ts] = r.ts
  BY <1>3, WireAssumption DEF WireAssumption, Safe
<1>17. h \in Headers
  <2>1. e \in Extras
    <3>1. e \in [D -> Free] BY <1>2 DEF Free
    <3> QED BY <3>1 DEF Extras
  <2>2. "sha256:h1" \in Hash BY DEF Hash, HashMatches, StrictHash
  <2>3. Nfc[r.kid] \in Free /\ Nfc[r.model] \in Free /\ r.ts \in Free
    BY <1>5, <1>16 DEF Free
  <2> HIDE DEF h, e
  <2> QED BY <1>1, <2>1, <2>2, <2>3, RequestFacts DEF Headers
<1>18. /\ d = [h EXCEPT !.extra = IF h.extra = NoExtra THEN None ELSE h.extra]
       /\ d.extra # Wrong /\ Extra(d) = h.extra
  BY <1>17, DictFacts
<1> DEFINE x == IF h.extra = NoExtra THEN None ELSE h.extra
<1>19. d = [h EXCEPT !.extra = x] BY <1>18
<1> HIDE DEF h, e, w, d, x
<1>20. d = [v |-> 2, kid |-> Nfc[r.kid], model |-> Nfc[r.model], model_hash |-> r.model_hash,
           source_hash |-> "sha256:h1", vec_hash |-> "sha256:h1", dim |-> r.dim, ts |-> r.ts,
           extra |-> x]
  BY <1>1, <1>19
<1>8. /\ d.v = 2 /\ d.kid = r.kid /\ d.model = r.model /\ d.dim = r.dim
      /\ d.ts = r.ts /\ d.model_hash = r.model_hash
      /\ d.source_hash = "sha256:h1" /\ d.vec_hash = "sha256:h1"
  BY <1>5, <1>20
<1>21. h.kid = r.kid /\ h.model = r.model /\ h.extra = e BY <1>1, <1>5
<1>22. Extra(d) = e /\ DOMAIN e = D /\ Entries(d.extra) = D
  <2>1. Extra(d) = e /\ DOMAIN e = D BY <1>2, <1>18, <1>21
  <2>2. CASE d.extra = None
    <3>1. D = {} BY <2>1, <2>2 DEF Extra, NoExtra
    <3> QED BY <2>1, <2>2, <3>1 DEF Entries
  <2>3. CASE d.extra # None BY <1>18, <2>1, <2>3 DEF Extra, Entries
  <2> QED BY <2>1, <2>2, <2>3
<1>23. \A k \in D : d.extra[k] \in Str
  <2>1. CASE d.extra = None
    <3>1. D = {} BY <1>22, <2>1 DEF Extra, NoExtra
    <3> QED BY <3>1
  <2>2. CASE d.extra # None
    <3>1. d.extra = e BY <1>22, <2>2 DEF Extra
    <3> QED BY <1>2, <3>1
  <2> QED BY <2>1, <2>2
<1>9. Total(d, Points) <= MaxPin
  <2>1. /\ Total(d, Points) \in Nat /\ Total(d, Escaped) \in Nat
        /\ Total(d, Points) <= Total(d, Escaped)
    <3>1. d.kid \in Str /\ d.model \in Str /\ d.ts \in Str BY <1>5, <1>8, <1>16
    <3> QED BY <1>2, <1>18, <1>22, <1>23, <3>1, PointsWithinEscaped
  <2> QED BY <1>3, <1>7, <2>1
<1>10. StringOk(d.model, MaxModel, d.v) /\ StringOk(d.kid, MaxKid, d.v)
  BY <1>3, <1>5, <1>7, <1>8, <1>21 DEF StringOk
<1>11. d.dim \in 1..MaxDim BY <1>3, <1>6, <1>7, <1>8
<1>12. HashesOk(d) /\ TsOk(d)
  <2>1. HashesOk(d) BY <1>3, <1>8 DEF HashesOk, HashMatches, StrictHash
  <2>2. TsOk(d) BY <1>3, <1>7, <1>8, <1>16 DEF TsOk
  <2> QED BY <2>1, <2>2
<1>13. ExtraOk(d)
  <2>1. \A k \in D : /\ ExtraStringOk(k, MaxKey, d.v)
                     /\ ExtraStringOk(e[k], MaxValue, d.v)
    BY <1>2, <1>3, <1>7, <1>8, <1>21, <1>22 DEF ExtraStringOk
  <2>2. e # Wrong /\ Cardinality(D) <= MaxEntries BY <1>2, <1>3, <1>21, <1>22
  <2> QED BY <1>22, <2>1, <2>2 DEF ExtraOk
<1>14. FromDict(w, V)
  BY <1>4, <1>8, <1>9, <1>10, <1>11, <1>12, <1>13 DEF FromDict
<1>15. FromJson(w, V) BY <1>3, <1>4, <1>14 DEF FromJson
<1> QED BY <1>14, <1>15 DEF w, h

\* The record id under the signature is the caller's own.
LEMMA HonestRecordId ==
  ASSUME NEW r \in Request, Composed(r), RecordId \in DOMAIN RawExtra(r.extra)
  PROVE  /\ RecordId \in DOMAIN SignedExtra(r.extra)
         /\ SignedExtra(r.extra)[RecordId] = RawExtra(r.extra)[RecordId]
<1> DEFINE p == r.extra
           at == {n \in DOMAIN p : Nfc[p[n][1]] = RecordId}
           first == CHOOSE n \in DOMAIN p : p[n][1] = RecordId
           last == Max(at)
<1>1. p \in Seq(Str \X Str) /\ DOMAIN p = 1..Len(p) /\ Len(p) \in Nat BY RequestFacts
<1>2. first \in DOMAIN p /\ p[first][1] = RecordId
  <2>1. \E n \in DOMAIN p : p[n][1] = RecordId BY DEF RawExtra
  <2> QED BY <2>1
<1>3. first \in at BY <1>2, WireAssumption DEF WireAssumption
<1>4. last \in at
  <2>1. at \in SUBSET (1..Len(p)) /\ at # {} BY <1>1, <1>3
  <2> HIDE DEF at
  <2> QED BY <1>1, <2>1, MaxFacts
<1>5. last \in DOMAIN p /\ Nfc[p[last][1]] = RecordId BY <1>4
<1>6. RawExtra(p)[RecordId] = p[first][2] BY DEF RawExtra
<1>7. /\ RecordId \in DOMAIN SignedExtra(p)
      /\ SignedExtra(p)[RecordId] = Nfc[p[last][2]]
  BY <1>2, <1>3 DEF SignedExtra
<1> HIDE DEF first, last, at
<1>8. p[last][1] = RecordId /\ p[last][2] = Nfc[p[last][2]]
  <2>1. p[last] = <<RecordId, Nfc[p[last][2]]>> BY <1>5 DEF Composed
  <2> DEFINE x == Nfc[p[last][2]]
  <2>2. p[last] = <<RecordId, x>> BY <2>1
  <2> HIDE DEF x
  <2>3. p[last][1] = RecordId /\ p[last][2] = x BY <2>2
  <2> QED BY <2>3 DEF x
<1>9. last = first BY <1>2, <1>5, <1>8, WireAssumption DEF WireAssumption
<1> QED BY <1>6, <1>7, <1>8, <1>9

\* An unedited pin in normal form, v1 or v2, is judged to be the caller's.
LEMMA HonestJudged ==
  ASSUME NEW r \in Request, Composed(r), NEW h, h = SignedHeader(r) \/ h = V1Header(r)
  PROVE  Judge(h, Stored(h).sig, r) = "OK"
<1>1. Stored(h).sig.over = Canonicalize(h) BY DEF Stored
<1>2. h.kid = r.kid /\ h.model = r.model
      /\ (h.extra = SignedExtra(r.extra) \/ h.extra = RawExtra(r.extra))
  <2>1. Nfc[r.kid] = r.kid /\ Nfc[r.model] = r.model BY DEF Composed
  <2>2. CASE h = SignedHeader(r)
    <3> DEFINE e == SignedExtra(r.extra)
    <3>1. h = [v |-> 2, kid |-> Nfc[r.kid], model |-> Nfc[r.model],
               model_hash |-> r.model_hash, source_hash |-> "sha256:h1",
               vec_hash |-> "sha256:h1", dim |-> r.dim, ts |-> r.ts, extra |-> e]
      BY <2>2 DEF SignedHeader
    <3> HIDE DEF e
    <3>2. h.kid = Nfc[r.kid] /\ h.model = Nfc[r.model] /\ h.extra = e BY <3>1
    <3> QED BY <2>1, <3>2 DEF e
  <2>3. CASE h = V1Header(r) BY <2>3, V1HeaderFields
  <2> QED BY <2>2, <2>3
<1>3. RecordId \in DOMAIN RawExtra(r.extra) =>
        RecordId \in DOMAIN h.extra /\ h.extra[RecordId] = RawExtra(r.extra)[RecordId]
  BY <1>2, HonestRecordId
<1> QED BY <1>1, <1>2, <1>3 DEF Judge

LEMMA HonestInit == Init => HInv
BY DEF Init, HInv, Made, Untouched

LEMMA HonestStep ==
  ASSUME IInv, HInv, [Next]_vars
  PROVE  HInv'
<1>1. edits \in Nat BY WireAssumption DEF IInv, Types, WireAssumption
<1>2. CASE Sign
  <2>1. /\ request' = request /\ stage' \in {"signed", "refused"}
        /\ stage' = "signed" => CanSign(request) /\ signed' = SignedHeader(request)
    BY <1>2 DEF Sign
  <2> QED BY <2>1 DEF HInv, Made, Untouched
<1>3. CASE SignV1
  <2>1. stage' = "signed" /\ signed' = V1Header(request) /\ request' = request
    BY <1>3 DEF SignV1, V1Header
  <2> QED BY <2>1 DEF HInv, Made, Untouched
<1>4. ASSUME NEW p \in {"dict", "json"}, Store(p) PROVE HInv'
  <2>1. /\ stage = "signed" /\ stage' = "stored" /\ wire' = Stored(signed)
        /\ UNCHANGED <<request, signed>>
    BY <1>4 DEF Store, Stored
  <2> QED BY <2>1 DEF HInv, Made, Untouched
<1>5. CASE Edit
  <2>1. /\ stage = "stored" /\ edits' = edits + 1
        /\ UNCHANGED <<stage, request, signed>>
    BY <1>5 DEF Edit
  <2>2. edits' # 0 BY <1>1, <2>1
  <2> QED BY <2>1, <2>2 DEF HInv, Made, Untouched
<1>6. ASSUME NEW old \in BOOLEAN, Parse(old) PROVE HInv'
  <2> DEFINE V == IF old THEN {1, 2} ELSE {2}
  <2>1. /\ stage = "stored" /\ stage' \in {"parsed", "rejected"}
        /\ UNCHANGED <<request, signed, wire, path, edits>>
        /\ stage' = "rejected" =>
             IF path = "json" THEN ~FromJson(wire, V) ELSE ~FromDict(wire, V)
    BY <1>6 DEF Parse
  <2>2. V \in {{2}, {1, 2}} OBVIOUS
  <2> HIDE DEF V
  <2>3. stage' = "rejected" => Refused(wire)' BY <2>1, <2>2 DEF Refused
  <2> QED BY <2>1, <2>3 DEF HInv, Made, Untouched
<1>7. CASE Verify
  <2>1. /\ stage = "parsed" /\ stage' = "judged"
        /\ UNCHANGED <<request, signed, wire, edits>>
    BY <1>7 DEF Verify
  <2> QED BY <2>1 DEF HInv, Made, Untouched
<1>8. CASE UNCHANGED vars
  BY <1>8 DEF vars, HInv, Made, Untouched, Refused
<1> QED BY <1>2, <1>3, <1>4, <1>5, <1>6, <1>7, <1>8 DEF Next

-----------------------------------------------------------------------------
(* The properties.                                                         *)

\* What is signed, stored and judged keeps its types, and every header that is signed
\* has bytes to sign (Signer.pin, _normalize_str).
THEOREM TypeCorrect == Spec => []TypeOK
<1>1. \A d \in Dicts : IsDict(d)
  <2> SUFFICES ASSUME NEW d \in Dicts PROVE IsDict(d)
    OBVIOUS
  <2>1. d.extra \notin {Wrong, None} => /\ DOMAIN d.extra \subseteq Str
                                       /\ \A k \in DOMAIN d.extra : d.extra[k] \in Free
    BY DEF Dicts, Extras
  <2> QED BY <2>1 DEF Dicts, IsDict, Free
<1>3. \A h \in Headers : IsHeader(h)
  <2> SUFFICES ASSUME NEW h \in Headers PROVE IsHeader(h)
    OBVIOUS
  <2>1. h \in Dicts BY DEF Headers, Dicts
  <2>2. h.model_hash # Null BY WireAssumption DEF WireAssumption, Headers
  <2>3. h.extra \notin {Wrong, None}
    <3>1. PICK D \in SUBSET Str : h.extra \in [D -> Free] BY DEF Headers, Extras
    <3> QED BY <3>1, WireAssumption DEF WireAssumption, Free
  <2> QED BY <1>1, <2>1, <2>2, <2>3 DEF IsHeader
<1>2. IInv => TypeOK
  <2> SUFFICES ASSUME IInv PROVE TypeOK
    OBVIOUS
  <2>1. signed # None => IsHeader(signed) /\ ~Raises(signed) BY <1>3 DEF IInv, Signed
  <2>2. wire # None => IsDict(wire.dict) /\ wire.sig.form \in Encoding
    BY <1>1 DEF IInv, Wired, Wires
  <2>3. verdict \in {None, "OK", "UNKNOWN_KEY", "SIGNATURE_INVALID", "MODEL_MISMATCH",
                     "RECORD_MISMATCH"}
    BY DEF IInv, Judged, Judge
  <2> QED BY <2>1, <2>2, <2>3 DEF IInv, Types, TypeOK
<1> QED BY <1>2, Invariant, PTL

\* Whatever was edited, every string of a header that the parser lets through, the ts
\* of v1 included, has signed bytes (Pin.from_dict, _check_surrogates,
\* _check_string_safe).
THEOREM ParsedAlwaysCanonicalizes == Spec => []ParsedCanonicalizes
<1>1. IInv => ParsedCanonicalizes
  <2> SUFFICES ASSUME IInv, stage \in {"parsed", "judged"} PROVE ~Raises(HeaderOf(wire.dict))
    BY DEF ParsedCanonicalizes
  <2>1. wire \in Wires(signed) BY DEF IInv, Wired
  <2> QED BY <2>1, ParsedFacts DEF IInv, Accepted
<1> QED BY <1>1, Invariant, PTL

\* Every pin that verifies is the signer's own, and spelled as the signer did but for
\* optional fields that are empty (Pin.from_dict, Verifier.verify).
THEOREM OnlyEmptyFieldsEverVary == Spec => []OnlyEmptyFieldsVary
<1>1. IInv => OnlyEmptyFieldsVary
  <2> SUFFICES ASSUME IInv, verdict = "OK"
               PROVE  /\ ~wire.unknown /\ wire.dict \in Spellings(signed)
                      /\ wire.sig = [form |-> "canonical", over |-> Canonicalize(signed)]
    BY DEF OnlyEmptyFieldsVary
  <2> DEFINE h == HeaderOf(wire.dict)
  <2>1. stage = "judged" /\ Judge(h, wire.sig, request) = "OK"
    BY WireAssumption DEF IInv, Judged, WireAssumption
  <2>2. /\ wire \in Wires(signed) /\ signed \in Headers
        /\ \/ signed.v = 2 /\ Normal(signed)
           \/ signed.v = 1 /\ signed.kid = request.kid
    BY <2>1 DEF IInv, Wired, Signed
  <2>3. /\ ~wire.unknown /\ wire.sig.form = "canonical"
        /\ wire.dict \in Dicts /\ wire.dict.extra # Wrong /\ h \in Headers
        /\ h.v \in {1, 2} /\ (h.v = 2 => Normal(h))
    BY <2>1, <2>2, ParsedFacts DEF IInv, Accepted
  <2>4. h.kid = request.kid /\ Canonicalize(h) = Canonicalize(signed)
    <3>1. wire.sig.over = Canonicalize(signed) BY <2>2 DEF Wires
    <3> QED BY <2>1, <3>1 DEF Judge
  <2>5. \A g \in Headers : Canonicalize(g).v = g.v
    BY DEF Canonicalize, CanonicalizeV1, CanonicalizeV2, Headers
  <2>6. wire.dict \in Spellings(h) BY <2>3, SpellingFacts
  <2> HIDE DEF h
  <2>7. h.v = signed.v BY <2>2, <2>3, <2>4, <2>5
  <2>8. CASE signed.v = 2
    <3>1. Normal(h) /\ Normal(signed) BY <2>2, <2>3, <2>7, <2>8
    <3>2. Canonicalize(h) = h /\ Canonicalize(signed) = signed
      BY <2>2, <2>3, <2>7, <2>8, <3>1, NormalHeader DEF Canonicalize
    <3> QED BY <2>2, <2>3, <2>4, <2>6, <3>2 DEF Wires
  <2>9. CASE signed.v = 1
    <3>1. [h EXCEPT !.kid = None] = [signed EXCEPT !.kid = None]
      BY <2>4, <2>7, <2>9 DEF Canonicalize, CanonicalizeV1
    <3>2. h.kid = signed.kid BY <2>2, <2>4, <2>9
    <3>3. \A f \in {"v", "kid", "model", "model_hash", "source_hash", "vec_hash", "dim",
                    "ts", "extra"} : h[f] = signed[f]
      BY <2>2, <2>3, <3>1, <3>2 DEF Headers
    <3>4. h = signed BY <2>2, <2>3, <3>3 DEF Headers
    <3> QED BY <2>2, <2>3, <2>6, <3>4 DEF Wires
  <2> QED BY <2>2, <2>8, <2>9
<1> QED BY <1>1, Invariant, PTL

\* A caller within the documented caps, whose kid, model and record id are in normal
\* form, gets a pin that parses on either path and verifies while nobody edits it; a v1
\* pin may be refused by a reader, and when it is not it verifies (Signer.pin,
\* Pin.to_json, Pin.from_dict, Verifier.verify).
THEOREM HonestPinAlwaysVerifies == Spec => []HonestPinVerifies
<1>1. ASSUME IInv, HInv PROVE HonestPinVerifies
  <2> SUFFICES ASSUME edits = 0, WithinCaps(request), Composed(request)
               PROVE  /\ stage = "rejected" => signed.v = 1
                      /\ stage = "judged" => verdict = "OK"
    BY DEF HonestPinVerifies
  <2>1. request \in Request BY <1>1 DEF IInv, Types
  <2>2. stage \in {"rejected", "judged"} =>
          /\ wire = Stored(signed)
          /\ \/ CanSign(request) /\ signed = SignedHeader(request)
             \/ signed = V1Header(request)
    BY <1>1 DEF HInv, Made, Untouched
  <2>3. ASSUME stage = "rejected" PROVE signed.v = 1
    <3>1. CASE CanSign(request) /\ signed = SignedHeader(request)
      <4>1. \A V \in {{2}, {1, 2}} : FromDict(wire, V) /\ FromJson(wire, V)
        BY <2>1, <2>2, <2>3, <3>1, HonestParses
      <4>2. Refused(wire) BY <1>1, <2>3 DEF HInv
      <4> QED BY <4>1, <4>2 DEF Refused
    <3>2. CASE signed = V1Header(request) BY <2>1, <3>2, V1HeaderFacts
    <3> QED BY <2>2, <2>3, <3>1, <3>2
  <2>4. ASSUME stage = "judged" PROVE verdict = "OK"
    <3>1. verdict = Judge(HeaderOf(wire.dict), wire.sig, request)
      BY <1>1, <2>4 DEF IInv, Judged
    <3>2. HeaderOf(wire.dict) = signed /\ wire.sig = Stored(signed).sig
      <4>1. signed \in Headers BY <1>1, <2>4 DEF IInv, Signed
      <4>2. HeaderOf(ToDict(signed)) = signed BY <4>1, DictFacts
      <4>3. wire.dict = ToDict(signed) /\ wire.sig = Stored(signed).sig
        BY <2>2, <2>4 DEF Stored
      <4> QED BY <4>2, <4>3
    <3>3. Judge(signed, Stored(signed).sig, request) = "OK"
      BY <2>1, <2>2, <2>4, HonestJudged
    <3> QED BY <3>1, <3>2, <3>3
  <2> QED BY <2>3, <2>4
<1>2. Spec => []HInv
  <2>1. IInv /\ HInv /\ [Next]_vars => HInv' BY HonestStep
  <2> QED BY <2>1, HonestInit, Invariant, PTL DEF Spec
<1> QED BY <1>1, <1>2, Invariant, PTL
=============================================================================
