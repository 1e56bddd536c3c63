----------------------------- MODULE KeyProofs -----------------------------
(***************************************************************************)
(* Theorems about keys.                                                    *)
(*                                                                         *)
(* First KeyRotation, for every number of kids, pins and ticks.  Its       *)
(* invariant dates what the properties only see the effect of: when an     *)
(* honest pin was signed relative to its key's window and cutover (Dated), *)
(* and that a forged one came after the leak (Late).                       *)
(*                                                                         *)
(* Then Keygen, for any number of keygens and key files of any length,     *)
(* from what the place of a keygen says of the two files (FileInv).        *)
(***************************************************************************)
EXTENDS KeyRotation, Keygen, TLAPS

\* p is the pin the honest signer made with kid k at instant t.
Dated(p, k, t) ==
  /\ p = PinFor(k, KeyOf[k], Truncate(t))
  /\ registry[k] # None
  /\ registry[k].from # None =>
       /\ registry[k].from <= t
       /\ WholeFrom => registry[k].from <= Truncate(t)
  /\ cutover[k] # None => t < cutover[k]

SoundDraft(d) == d.signed < now /\ \E k \in Kid : Dated(d.pin, k, d.signed)
SoundRecord(s) == s.at < now /\ \E t \in Nat : t < s.at /\ Dated(s.pin, s.by, t)
Late(s) ==
  /\ leaked[s.by] # None /\ leaked[s.by] < s.at
  /\ \E j \in Kid, ts \in Nat : s.pin = PinFor(j, KeyOf[s.by], ts)

Drafts == \A d \in drafts : SoundDraft(d)
Records == \A s \in stored : IF s.honest THEN SoundRecord(s) ELSE Late(s)

\* The registry: who is in it, with which key, since when and until when.
InRegistry ==
  /\ registry[inUse] # None /\ cutover[inUse] = None
  /\ \A k \in Kid : cutover[k] # None => registry[k] # None /\ cutover[k] < now
  /\ \A k \in Kid : leaked[k] # None => registry[k] # None /\ leaked[k] < now
  /\ \A k \in revoked : leaked[k] # None

FromPast(e) == e.from # None =>
  \E f \in Nat : f < now /\ e.from <= f /\ (WholeFrom => e.from = Truncate(f))

Windows ==
  \A k \in Kid : registry[k] # None =>
    /\ registry[k].key = KeyOf[k]
    /\ FromPast(registry[k])
    /\ k \notin revoked => registry[k].until = None \/ registry[k].until = cutover[k]
    /\ k \in revoked => registry[k].until # None /\ registry[k].until <= leaked[k]

TInv == TypeOK /\ InRegistry
IInv == TInv /\ Windows /\ Drafts /\ Records

-----------------------------------------------------------------------------
(* Whole seconds. *)

LEMMA TruncateFacts == \A t \in Nat : Truncate(t) \in Nat /\ Truncate(t) <= t
BY RotationAssumption DEF RotationAssumption, Truncate

LEMMA TruncateMonotone == \A m, n \in Nat : m <= n => Truncate(m) <= Truncate(n)
<1> SUFFICES ASSUME NEW m \in Nat, NEW n \in Nat, m <= n
             PROVE  Truncate(m) <= Truncate(n)
  OBVIOUS
<1>s. Second \in Nat \ {0}
  BY RotationAssumption DEF RotationAssumption
<1>1. PICK a \in Nat : a = m \div Second
  BY <1>s
<1>2. PICK b \in Nat : b = n \div Second
  BY <1>s
<1>3. Truncate(m) = Second * a /\ Truncate(n) = Second * b
  BY <1>1, <1>2, <1>s DEF Truncate
<1>4. Second * a <= m /\ n < Second * b + Second
  BY <1>1, <1>2, <1>s
<1>5. a <= b
  <2> SUFFICES ASSUME b + 1 <= a PROVE FALSE
    OBVIOUS
  <2>1. PICK c \in Nat : a = b + 1 + c
    <3>1. a - b - 1 \in Nat
      OBVIOUS
    <3> WITNESS a - b - 1 \in Nat
    <3> QED
      OBVIOUS
  <2>2. Second * a = Second * b + Second + Second * c
    BY <2>1, <1>s
  <2>3. Second * c >= 0
    BY <1>s
  <2> QED
    BY <2>2, <2>3, <1>4, <1>s
<1>6. PICK d \in Nat : b = a + d
  BY <1>5
<1>7. Second * b = Second * a + Second * d /\ Second * d >= 0
  BY <1>6, <1>s
<1> QED
  BY <1>3, <1>7, <1>s

-----------------------------------------------------------------------------
(* Pins and verdicts. *)

LEMMA CanonicalType == \A h \in Body : h.v = 2 => Canonical(h) \in Message
<1> SUFFICES ASSUME NEW h \in Body, h.v = 2 PROVE Canonical(h) \in Message
  OBVIOUS
<1>1. Canonical(h) = [tag |-> "vectorpin/v2", body |-> h]
  BY DEF Canonical, CanonicalV2
<1> QED
  BY <1>1 DEF Message

LEMMA PinForFacts ==
  ASSUME NEW k \in Kid, NEW key \in Key, NEW ts \in Nat
  PROVE  /\ PinFor(k, key, ts) \in Pin
         /\ PinFor(k, key, ts).header.kid = k /\ PinFor(k, key, ts).header.ts = ts
<1> DEFINE h == [v |-> 2, kid |-> k, model |-> TheModel, model_hash |-> None,
                 source_hash |-> TheText, vec_hash |-> TheDigest,
                 vec_dtype |-> TheDigest.dtype, vec_dim |-> TheDigest.dim,
                 ts |-> ts, extra |-> NoExtra]
<1>1. NoExtra \in [Reserved -> Opt(Name)]
  BY RotationAssumption DEF RotationAssumption, Opt
<1>2. /\ TheText \in Text /\ TheModel \in Model
      /\ TheDigest \in Digest /\ TheDigest.dtype \in Dtypes /\ TheDigest.dim \in Nat
  BY RotationAssumption DEF RotationAssumption, Digest
<1>3. h \in Header /\ h \in Body
  BY <1>1, <1>2 DEF Header, Body, Opt
<1>4. h.v = 2
  OBVIOUS
<1>5. Canonical(h) \in Message
  BY <1>3, <1>4, CanonicalType
<1>6. PinFor(k, key, ts) = [header |-> h, sig |-> [key |-> key, msg |-> Canonical(h)]]
  BY DEF PinFor, SignPin
<1>7. [key |-> key, msg |-> Canonical(h)] \in Opt(Signature)
  BY <1>5 DEF Signature, Opt
<1> HIDE DEF h
<1>8. PinFor(k, key, ts) \in Pin
  BY <1>3, <1>6, <1>7 DEF Pin
<1>9. PinFor(k, key, ts).header = h
  BY <1>6
<1> QED
  BY <1>8, <1>9 DEF h

\* Without ground truth, the verdict is the registry's, the window's and the
\* signature's.
LEMMA VerdictFacts ==
  ASSUME NEW reg \in Registry, NEW k \in Kid, NEW key \in Key, NEW ts \in Nat, NEW t
  PROVE  Verify(reg, {2}, PinFor(k, key, ts), At(t)) =
           IF reg[k] = None THEN "UNKNOWN_KEY"
           ELSE IF WindowStage(reg[k], ts, t) # "OK" THEN WindowStage(reg[k], ts, t)
           ELSE IF key = reg[k].key THEN "OK" ELSE "SIGNATURE_INVALID"
<1> DEFINE p == PinFor(k, key, ts)
           h == p.header
<1>1. h.v = 2 /\ h.kid = k /\ h.ts = ts
  BY DEF PinFor, SignPin
<1>2. p.sig = [key |-> key, msg |-> Canonical(h)]
  BY DEF PinFor, SignPin
<1>3. p.sig # None
  <2>1. p \in Pin
    BY PinForFacts
  <2>2. Canonical(h) \in Message
    <3>1. NoExtra \in [Reserved -> Opt(Name)]
      BY RotationAssumption DEF RotationAssumption, Opt
    <3>2. /\ TheText \in Text /\ TheModel \in Model
          /\ TheDigest \in Digest /\ TheDigest.dtype \in Dtypes /\ TheDigest.dim \in Nat
      BY RotationAssumption DEF RotationAssumption, Digest
    <3>3. h \in Body
      BY <3>1, <3>2 DEF Body, Opt, PinFor, SignPin
    <3> QED
      BY <3>3, <1>1, CanonicalType
  <2>3. [key |-> key, msg |-> Canonical(h)] \in Signature
    BY <2>2 DEF Signature
  <2> QED
    BY <1>2, <2>3, NoneAssumption DEF NoneAssumption
<1> HIDE DEF p
<1>4. KeyStage(reg, {2}, p, t) =
        IF reg[k] = None THEN "UNKNOWN_KEY" ELSE WindowStage(reg[k], ts, t)
  BY <1>1, <1>3 DEF KeyStage
<1>5. SignatureStage(reg, p) =
        IF key = reg[k].key THEN "OK" ELSE "SIGNATURE_INVALID"
  <2>1. p.sig = [key |-> reg[k].key, msg |-> Canonical(h)] <=> key = reg[k].key
    BY <1>2
  <2> QED
    BY <1>1, <2>1 DEF SignatureStage
<1>6. /\ SourceStage(h, None) = "OK" /\ VectorStage(h, None) = "OK"
      /\ ModelStage(h, None, None) = "OK" /\ ReplayStage(h, NoExtra) = "OK"
  BY RotationAssumption
    DEF RotationAssumption, SourceStage, VectorStage, ModelStage, ReplayStage, Reserved
<1>7. /\ At(t).source = None /\ At(t).vector = None /\ At(t).model = None
      /\ At(t).model_hash = None /\ At(t).ids = NoExtra /\ At(t).now = t
  BY DEF At
<1>8. Verify(reg, {2}, p, At(t)) =
        IF KeyStage(reg, {2}, p, t) # "OK" THEN KeyStage(reg, {2}, p, t)
        ELSE IF SignatureStage(reg, p) # "OK" THEN "SIGNATURE_INVALID" ELSE "OK"
  BY <1>6, <1>7 DEF Verify
<1> QED
  BY <1>4, <1>5, <1>8 DEF p

-----------------------------------------------------------------------------
(* The registry's operations. *)

\* add_key replaces the entry of its kid and no other.
LEMMA AddKeyFacts ==
  \A reg \in Registry, k \in Kid, e \in KeyEntry, from, until \in Opt(Nat) :
    /\ AddKey(reg, k, e, from, until) \in Registry
    /\ AddKey(reg, k, e, from, until)[k] # None
    /\ \A j \in Kid : j # k => AddKey(reg, k, e, from, until)[j] = reg[j]
<1> SUFFICES ASSUME NEW reg \in Registry, NEW k \in Kid, NEW e \in KeyEntry,
                    NEW from \in Opt(Nat), NEW until \in Opt(Nat)
             PROVE  /\ AddKey(reg, k, e, from, until) \in Registry
                    /\ AddKey(reg, k, e, from, until)[k] # None
                    /\ \A j \in Kid : j # k => AddKey(reg, k, e, from, until)[j] = reg[j]
  OBVIOUS
<1> DEFINE new == [key |-> e.key, from |-> IF from # None THEN from ELSE e.from,
                   until |-> IF until # None THEN until ELSE e.until]
<1>1. new \in KeyEntry
  BY DEF KeyEntry
<1>2. AddKey(reg, k, e, from, until) = [reg EXCEPT ![k] = new]
  BY DEF AddKey
<1>3. new # None
  BY <1>1, NoneAssumption DEF NoneAssumption
<1> HIDE DEF new
<1>4. reg \in [Kid -> Opt(KeyEntry)]
  BY DEF Registry
<1>5. [reg EXCEPT ![k] = new] \in Registry
  BY <1>1, <1>4 DEF Opt, Registry
<1>6. [reg EXCEPT ![k] = new][k] = new
  BY <1>4
<1>7. \A j \in Kid : j # k => [reg EXCEPT ![k] = new][j] = reg[j]
  BY <1>4
<1> QED
  BY <1>2, <1>3, <1>5, <1>6, <1>7

\* A bound that is passed wins over the entry's own.
LEMMA AddKeyEntry ==
  \A reg \in Registry, k \in Kid, e \in KeyEntry, from, until \in Opt(Nat) :
    /\ AddKey(reg, k, e, from, until)[k].key = e.key
    /\ AddKey(reg, k, e, from, until)[k].from = IF from # None THEN from ELSE e.from
    /\ AddKey(reg, k, e, from, until)[k].until = IF until # None THEN until ELSE e.until
BY DEF AddKey, Registry

LEMMA BytesFacts ==
  \A k \in Kid : /\ Bytes(k) \in KeyEntry /\ Bytes(k).key = KeyOf[k]
                 /\ Bytes(k).from = None /\ Bytes(k).until = None
BY RotationAssumption DEF RotationAssumption, Bytes, KeyEntry, Opt

LEMMA EntryFacts ==
  ASSUME TypeOK, NEW k \in Kid, registry[k] # None
  PROVE  registry[k] \in KeyEntry
BY DEF TypeOK, Registry, Opt

-----------------------------------------------------------------------------
(* Types. *)

LEMMA TypeInit == Init => TInv
<1> SUFFICES ASSUME Init PROVE TInv
  OBVIOUS
<1>1. First \in Kid
  BY RotationAssumption DEF RotationAssumption
<1>2. Bytes(First) \in KeyEntry /\ Bytes(First) # None
  BY <1>1, BytesFacts, NoneAssumption DEF NoneAssumption
<1>3. registry \in Registry /\ registry[First] # None
  BY <1>1, <1>2 DEF Init, Registry, Opt
<1>4. TypeOK
  BY <1>1, <1>3, RotationAssumption DEF Init, TypeOK, Opt, RotationAssumption
<1>5. InRegistry
  BY <1>1, <1>3 DEF Init, InRegistry
<1> QED
  BY <1>4, <1>5 DEF TInv

LEMMA TypeNext == TInv /\ [Next]_vars => TInv'
<1> SUFFICES ASSUME TInv, [Next]_vars PROVE TInv'
  OBVIOUS
<1> USE DEF TInv
<1>a. /\ now \in Nat /\ MaxTime \in Nat /\ Second \in Nat \ {0} /\ registry \in Registry
      /\ inUse \in Kid /\ cutover \in [Kid -> Opt(Nat)] /\ leaked \in [Kid -> Opt(Nat)]
      /\ revoked \subseteq Kid /\ drafts \subseteq Draft /\ stored \subseteq Ingested
      /\ KeyOf \in [Kid -> Key] /\ now \in 0..MaxTime
  BY RotationAssumption DEF TypeOK, RotationAssumption
<1>b. ASSUME now < MaxTime, now' = now + 1 PROVE now' \in 0..MaxTime
  BY <1>a, <1>b
<1>1. CASE Tick
  <2>1. TypeOK'
    BY <1>1, <1>a, <1>b DEF Tick, TypeOK
  <2>2. InRegistry'
    BY <1>1, <1>a DEF Tick, InRegistry, Opt
  <2> QED
    BY <2>1, <2>2
<1>2. ASSUME NEW k \in Kid, Introduce(k) PROVE TInv'
  <2> DEFINE from == IF WholeFrom THEN now - (now % Second) ELSE now
  <2>1. from \in Opt(Nat) /\ None \in Opt(Nat)
    BY <1>a, TruncateFacts DEF Opt, Truncate
  <2>2. registry' = AddKey(registry, k, Bytes(k), from, None)
    BY <1>2 DEF Introduce
  <2> HIDE DEF from
  <2>3. /\ registry' \in Registry /\ registry'[k] # None
        /\ \A j \in Kid : j # k => registry'[j] = registry[j]
    <3>1. registry \in Registry /\ Bytes(k) \in KeyEntry
      BY <1>a, BytesFacts
    <3> QED
      BY <2>1, <2>2, <3>1, AddKeyFacts
  <2>4. TypeOK'
    BY <1>2, <1>a, <1>b, <2>3 DEF Introduce, TypeOK
  <2>5. InRegistry'
    BY <1>2, <1>a, <2>3 DEF Introduce, InRegistry, Opt
  <2> QED
    BY <2>4, <2>5
<1>3. ASSUME NEW k \in Kid, Switch(k) PROVE TInv'
  <2>1. cutover' \in [Kid -> Opt(Nat)]
    BY <1>3, <1>a DEF Switch, Opt
  <2>2. TypeOK'
    BY <1>3, <1>a, <1>b, <2>1 DEF Switch, TypeOK
  <2>3. \A j \in Kid : cutover'[j] = IF j = inUse THEN now ELSE cutover[j]
    BY <1>3, <1>a DEF Switch
  <2>4. InRegistry'
    BY <1>3, <1>a, <2>3 DEF Switch, InRegistry, Opt
  <2> QED
    BY <2>2, <2>4
<1>4. ASSUME NEW k \in Kid, Leak(k) PROVE TInv'
  <2>1. leaked' \in [Kid -> Opt(Nat)]
    BY <1>4, <1>a DEF Leak, Opt
  <2>2. TypeOK'
    BY <1>4, <1>a, <1>b, <2>1 DEF Leak, TypeOK
  <2>3. \A j \in Kid : leaked'[j] = IF j = k THEN now ELSE leaked[j]
    BY <1>4, <1>a DEF Leak
  <2>4. now # None
    BY <1>a, NoneAssumption DEF NoneAssumption
  <2>5. InRegistry'
    BY <1>4, <1>a, <2>3, <2>4 DEF Leak, InRegistry, Opt
  <2> QED
    BY <2>2, <2>5
<1>5. ASSUME NEW k \in Kid, NEW form \in Forms, Retire(k, form) PROVE TInv'
  <2>1. registry[k] # None /\ cutover[k] \in Opt(Nat) /\ None \in Opt(Nat)
    BY <1>5, <1>a DEF Retire, InRegistry, Opt
  <2>2. Passed(k, form) \in KeyEntry
    BY <2>1, EntryFacts, BytesFacts DEF Passed
  <2>3. registry' = AddKey(registry, k, Passed(k, form), None, cutover[k])
    BY <1>5 DEF Retire
  <2>4. /\ registry' \in Registry /\ registry'[k] # None
        /\ \A j \in Kid : j # k => registry'[j] = registry[j]
    <3>1. registry \in Registry
      BY <1>a
    <3> QED
      BY <2>1, <2>2, <2>3, <3>1, AddKeyFacts
  <2>5. TypeOK'
    BY <1>5, <1>a, <1>b, <2>4 DEF Retire, TypeOK
  <2>6. InRegistry'
    BY <1>5, <1>a, <2>4 DEF Retire, InRegistry, Opt
  <2> QED
    BY <2>5, <2>6
<1>6. CASE Sign
  <2>1. PinFor(inUse, KeyOf[inUse], Truncate(now)) \in Pin
    BY <1>a, PinForFacts, TruncateFacts
  <2>2. drafts' \subseteq Draft
    BY <1>6, <1>a, <2>1 DEF Sign, Draft
  <2>3. TypeOK'
    BY <1>6, <1>a, <1>b, <2>2 DEF Sign, TypeOK
  <2>4. InRegistry'
    BY <1>6, <1>a DEF Sign, InRegistry, Opt
  <2> QED
    BY <2>3, <2>4
<1>7. ASSUME NEW d \in drafts, Store(d) PROVE TInv'
  <2>1. d.pin \in Pin
    BY <1>a DEF Draft
  <2>2. d.pin.header.kid \in Kid
    BY <2>1 DEF Pin, Header
  <2>3. drafts' \subseteq Draft /\ stored' \subseteq Ingested
    <3>1. [pin |-> d.pin, at |-> now, honest |-> TRUE, by |-> d.pin.header.kid] \in Ingested
      BY <1>a, <2>1, <2>2 DEF Ingested
    <3> QED
      BY <1>7, <1>a, <3>1 DEF Store
  <2>4. TypeOK'
    BY <1>7, <1>a, <1>b, <2>3 DEF Store, TypeOK
  <2>5. InRegistry'
    BY <1>7, <1>a DEF Store, InRegistry, Opt
  <2> QED
    BY <2>4, <2>5
<1>8. ASSUME NEW j \in Kid, NEW k \in Kid, NEW ts \in 0..MaxTime, Forge(k, j, ts)
      PROVE TInv'
  <2>1. PinFor(j, KeyOf[k], ts) \in Pin
    BY <1>a, PinForFacts
  <2>2. stored' \subseteq Ingested
    <3>1. [pin |-> PinFor(j, KeyOf[k], ts), at |-> now, honest |-> FALSE, by |-> k]
            \in Ingested
      BY <1>a, <2>1 DEF Ingested
    <3> QED
      BY <1>8, <1>a, <3>1 DEF Forge
  <2>3. TypeOK'
    BY <1>8, <1>a, <1>b, <2>2 DEF Forge, TypeOK
  <2>4. InRegistry'
    BY <1>8, <1>a DEF Forge, InRegistry, Opt
  <2> QED
    BY <2>3, <2>4
<1>9. ASSUME NEW k \in Kid, NEW t \in 0..MaxTime, Revoke(k, t) PROVE TInv'
  <2>1. registry[k] # None /\ t \in Opt(Nat) /\ None \in Opt(Nat)
    BY <1>9, <1>a DEF Revoke, InRegistry, Opt
  <2>2. registry' = AddKey(registry, k, registry[k], None, t)
    BY <1>9 DEF Revoke
  <2>3. /\ registry' \in Registry /\ registry'[k] # None
        /\ \A j \in Kid : j # k => registry'[j] = registry[j]
    <3>1. registry \in Registry /\ registry[k] \in KeyEntry
      BY <1>a, <2>1, EntryFacts
    <3> QED
      BY <2>1, <2>2, <3>1, AddKeyFacts
  <2>4. TypeOK'
    BY <1>9, <1>a, <1>b, <2>3 DEF Revoke, TypeOK
  <2>5. InRegistry'
    BY <1>9, <1>a, <2>3 DEF Revoke, InRegistry, Opt
  <2> QED
    BY <2>4, <2>5
<1>10. CASE UNCHANGED vars
  BY <1>10 DEF vars, TypeOK, InRegistry
<1> QED
  BY <1>1, <1>2, <1>3, <1>4, <1>5, <1>6, <1>7, <1>8, <1>9, <1>10 DEF Next

\* Every variable keeps its type (add_key never stores a key without an entry
\* around it, a `ts` is never before the epoch).
THEOREM TypeCorrect == Spec => []TypeOK
<1>1. TInv => TypeOK
  BY DEF TInv
<1> QED
  BY <1>1, TypeInit, TypeNext, PTL DEF Spec

-----------------------------------------------------------------------------
(* What was dated stays dated. *)

\* What every step does to the clock and to what is recorded of the past.
Onward ==
  /\ now \in Nat /\ now' = now + 1
  /\ \A k \in Kid : registry[k] # None =>
       /\ registry'[k] # None
       /\ registry'[k].from = None \/ registry'[k].from = registry[k].from
  /\ \A k \in Kid : cutover'[k] = cutover[k] \/ cutover'[k] = now
  /\ \A k \in Kid : leaked[k] # None => leaked'[k] = leaked[k]

LEMMA StepOnward == TInv /\ Next => Onward
<1> SUFFICES ASSUME TInv, Next PROVE Onward
  OBVIOUS
<1>a. /\ now \in Nat /\ registry \in Registry /\ inUse \in Kid
      /\ cutover \in [Kid -> Opt(Nat)] /\ leaked \in [Kid -> Opt(Nat)] /\ None \in Opt(Nat)
  BY RotationAssumption DEF TInv, TypeOK, RotationAssumption, Opt
<1>b. registry \in Registry /\ None \in Opt(Nat)
  BY <1>a
<1>1. CASE Tick
  BY <1>1, <1>a DEF Tick, Onward
<1>2. ASSUME NEW k \in Kid, Introduce(k) PROVE Onward
  <2> DEFINE from == IF WholeFrom THEN now - (now % Second) ELSE now
  <2>1. from \in Opt(Nat) /\ Bytes(k) \in KeyEntry
    BY <1>a, TruncateFacts, BytesFacts DEF Opt, Truncate
  <2>2. registry' = AddKey(registry, k, Bytes(k), from, None) /\ registry[k] = None
    BY <1>2 DEF Introduce
  <2> HIDE DEF from
  <2>3. registry' \in Registry /\ \A j \in Kid : j # k => registry'[j] = registry[j]
    BY <1>b, <2>1, <2>2, AddKeyFacts
  <2> QED
    BY <1>2, <1>a, <2>2, <2>3 DEF Introduce, Onward
<1>3. ASSUME NEW k \in Kid, Switch(k) PROVE Onward
  <2>1. \A j \in Kid : cutover'[j] = IF j = inUse THEN now ELSE cutover[j]
    BY <1>3, <1>a DEF Switch
  <2> QED
    BY <1>3, <1>a, <2>1 DEF Switch, Onward
<1>4. ASSUME NEW k \in Kid, Leak(k) PROVE Onward
  <2>1. \A j \in Kid : j # k => leaked'[j] = leaked[j]
    BY <1>4, <1>a DEF Leak
  <2> QED
    BY <1>4, <1>a, <2>1 DEF Leak, Onward
<1>5. ASSUME NEW k \in Kid, NEW form \in Forms, Retire(k, form) PROVE Onward
  <2>1. registry[k] # None /\ cutover[k] \in Opt(Nat)
    BY <1>5, <1>a DEF Retire, TInv, InRegistry
  <2>2. Passed(k, form) \in KeyEntry
    BY <2>1, EntryFacts, BytesFacts DEF Passed, TInv
  <2>3. registry' = AddKey(registry, k, Passed(k, form), None, cutover[k])
    BY <1>5 DEF Retire
  <2>4. /\ registry' \in Registry /\ registry'[k] # None
        /\ \A j \in Kid : j # k => registry'[j] = registry[j]
    BY <1>b, <2>1, <2>2, <2>3, AddKeyFacts
  <2>5. registry'[k].from = Passed(k, form).from
    BY <1>b, <2>1, <2>2, <2>3, AddKeyEntry
  <2>6. Passed(k, form).from = None \/ Passed(k, form).from = registry[k].from
    BY BytesFacts DEF Passed
  <2> QED
    BY <1>5, <1>a, <2>4, <2>5, <2>6 DEF Retire, Onward
<1>6. CASE Sign
  BY <1>6, <1>a DEF Sign, Onward
<1>7. ASSUME NEW d \in drafts, Store(d) PROVE Onward
  BY <1>7, <1>a DEF Store, Onward
<1>8. ASSUME NEW j \in Kid, NEW k \in Kid, NEW ts \in 0..MaxTime, Forge(k, j, ts)
      PROVE Onward
  BY <1>8, <1>a DEF Forge, Onward
<1>9. ASSUME NEW k \in Kid, NEW t \in 0..MaxTime, Revoke(k, t) PROVE Onward
  <2>1. registry[k] # None /\ t \in Opt(Nat)
    BY <1>9, <1>a DEF Revoke, TInv, InRegistry, Opt
  <2>2. registry' = AddKey(registry, k, registry[k], None, t)
    BY <1>9 DEF Revoke
  <2>3. registry[k] \in KeyEntry
    BY <2>1, EntryFacts DEF TInv
  <2>4. /\ registry' \in Registry /\ registry'[k] # None
        /\ \A j \in Kid : j # k => registry'[j] = registry[j]
    BY <1>b, <2>1, <2>2, <2>3, AddKeyFacts
  <2>5. registry'[k].from = registry[k].from
    BY <1>b, <2>1, <2>2, <2>3, AddKeyEntry
  <2> QED
    BY <1>9, <1>a, <2>4, <2>5 DEF Revoke, Onward
<1> QED
  BY <1>1, <1>2, <1>3, <1>4, <1>5, <1>6, <1>7, <1>8, <1>9 DEF Next

LEMMA DatedStays ==
  ASSUME Onward, NEW p, NEW k \in Kid, NEW t \in Nat, t < now, Dated(p, k, t)
  PROVE  Dated(p, k, t)'
BY DEF Onward, Dated

LEMMA DraftStays ==
  ASSUME TInv, Onward, NEW d \in drafts, SoundDraft(d) PROVE SoundDraft(d)'
<1>1. d.signed \in Nat /\ d.signed < now /\ now' = now + 1 /\ now \in Nat
  BY DEF TInv, TypeOK, Draft, SoundDraft, Onward
<1>2. PICK k \in Kid : Dated(d.pin, k, d.signed)
  BY DEF SoundDraft
<1>3. Dated(d.pin, k, d.signed)'
  BY <1>1, <1>2, DatedStays
<1> QED
  BY <1>1, <1>3 DEF SoundDraft

LEMMA RecordStays ==
  ASSUME TInv, Onward, NEW s \in stored, SoundRecord(s) PROVE SoundRecord(s)'
<1>1. s.at \in Nat /\ s.by \in Kid /\ s.at < now /\ now' = now + 1 /\ now \in Nat
  BY DEF TInv, TypeOK, Ingested, SoundRecord, Onward
<1>2. PICK t \in Nat : t < s.at /\ Dated(s.pin, s.by, t)
  BY DEF SoundRecord
<1>3. Dated(s.pin, s.by, t)'
  BY <1>1, <1>2, DatedStays
<1> QED
  BY <1>1, <1>2, <1>3 DEF SoundRecord

LEMMA LateStays ==
  ASSUME TInv, Onward, NEW s \in stored, Late(s) PROVE Late(s)'
<1>1. s.by \in Kid
  BY DEF TInv, TypeOK, Ingested
<1>2. leaked[s.by] # None /\ leaked'[s.by] = leaked[s.by]
  BY <1>1 DEF Late, Onward
<1> QED
  BY <1>1, <1>2 DEF Late

\* A step that neither signs nor ingests keeps both promises.
LEMMA PinsStay ==
  ASSUME TInv, Onward, Drafts, Records, drafts' \subseteq drafts, stored' = stored
  PROVE  Drafts' /\ Records'
<1>1. Drafts'
  <2> SUFFICES ASSUME NEW d \in drafts' PROVE SoundDraft(d)'
    BY DEF Drafts
  <2> QED
    BY DraftStays DEF Drafts
<1>2. Records'
  <2> SUFFICES ASSUME NEW s \in stored'
               PROVE  IF s.honest THEN SoundRecord(s)' ELSE Late(s)'
    BY DEF Records
  <2>1. CASE s.honest
    BY <2>1, RecordStays DEF Records
  <2>2. CASE ~s.honest
    BY <2>2, LateStays DEF Records
  <2> QED
    BY <2>1, <2>2
<1> QED
  BY <1>1, <1>2
-----------------------------------------------------------------------------
(* The registry's windows. *)

LEMMA PastStays ==
  ASSUME NEW e \in KeyEntry, FromPast(e), now \in Nat, now' = now + 1
  PROVE  FromPast(e)'
BY DEF FromPast

\* A step that leaves the registry's bookkeeping alone leaves the windows alone.
LEMMA WindowsStay ==
  ASSUME TInv, Onward, Windows, UNCHANGED <<registry, cutover, leaked, revoked>>
  PROVE  Windows'
<1> SUFFICES ASSUME NEW k \in Kid, registry[k] # None
             PROVE  FromPast(registry[k])'
  BY DEF Windows
<1>1. registry[k] \in KeyEntry /\ FromPast(registry[k])
  BY EntryFacts DEF TInv, Windows
<1> QED
  BY <1>1, PastStays DEF Onward, FromPast

LEMMA WindowsNext == TInv /\ Windows /\ Next => Windows'
<1> SUFFICES ASSUME TInv, Windows, Next PROVE Windows'
  OBVIOUS
<1>a. /\ now \in Nat /\ registry \in Registry /\ inUse \in Kid
      /\ cutover \in [Kid -> Opt(Nat)] /\ leaked \in [Kid -> Opt(Nat)]
  BY RotationAssumption DEF TInv, TypeOK, RotationAssumption
<1>b. registry \in Registry /\ None \in Opt(Nat)
  BY <1>a DEF Opt
<1>c. Onward /\ now' = now + 1
  BY StepOnward DEF Onward
<1>d. ASSUME NEW j \in Kid, registry[j] # None, registry'[j] = registry[j]
      PROVE  FromPast(registry[j])'
  <2>1. registry[j] \in KeyEntry /\ FromPast(registry[j])
    BY <1>d, EntryFacts DEF TInv, Windows
  <2> QED
    BY <1>d, <2>1, <1>a, <1>c, PastStays DEF FromPast
<1>1. CASE Tick
  BY <1>1, <1>c, WindowsStay DEF Tick
<1>2. ASSUME NEW k \in Kid, Introduce(k) PROVE Windows'
  <2> DEFINE from == IF WholeFrom THEN now - (now % Second) ELSE now
  <2>1. from \in Opt(Nat) /\ from # None /\ from <= now /\ (WholeFrom => from = Truncate(now))
    BY <1>a, TruncateFacts, NoneAssumption DEF Opt, Truncate, NoneAssumption
  <2>2. registry' = AddKey(registry, k, Bytes(k), from, None) /\ registry[k] = None
    BY <1>2 DEF Introduce
  <2> HIDE DEF from
  <2>3. registry' \in Registry /\ \A j \in Kid : j # k => registry'[j] = registry[j]
    BY <1>b, <2>1, <2>2, BytesFacts, AddKeyFacts
  <2>4. /\ registry'[k].key = KeyOf[k]
        /\ registry'[k].from = from
        /\ registry'[k].until = None
    BY <1>b, <2>1, <2>2, BytesFacts, AddKeyEntry
  <2>5. FromPast(registry[k])'
    BY <2>1, <2>4, <1>a, <1>c DEF FromPast
  <2>6. k \notin revoked /\ revoked' = revoked /\ cutover' = cutover /\ leaked' = leaked
    BY <1>2, <2>2 DEF Introduce, TInv, InRegistry
  <2> QED
    BY <2>3, <2>4, <2>5, <2>6, <1>d DEF Windows
<1>3. ASSUME NEW k \in Kid, Switch(k) PROVE Windows'
  <2>1. \A j \in Kid : cutover'[j] = IF j = inUse THEN now ELSE cutover[j]
    BY <1>3, <1>a DEF Switch
  <2>2. registry' = registry /\ revoked' = revoked /\ leaked' = leaked
    BY <1>3 DEF Switch
  <2>3. inUse \notin revoked => registry[inUse].until = None
    BY <1>a DEF Windows, TInv, InRegistry
  <2> QED
    BY <2>1, <2>2, <2>3, <1>d DEF Windows
<1>4. ASSUME NEW k \in Kid, Leak(k) PROVE Windows'
  <2>1. \A j \in Kid : j # k => leaked'[j] = leaked[j]
    BY <1>4, <1>a DEF Leak
  <2>2. k \notin revoked /\ registry' = registry /\ revoked' = revoked /\ cutover' = cutover
    BY <1>4 DEF Leak, TInv, InRegistry
  <2> QED
    BY <2>1, <2>2, <1>d DEF Windows
<1>5. ASSUME NEW k \in Kid, NEW form \in Forms, Retire(k, form) PROVE Windows'
  <2>1. registry[k] # None /\ cutover[k] \in Opt(Nat) /\ cutover[k] # None
    BY <1>5, <1>a DEF Retire, TInv, InRegistry
  <2>2. registry[k] \in KeyEntry /\ registry[k].key = KeyOf[k]
    BY <2>1, EntryFacts DEF TInv, Windows
  <2>3. /\ Passed(k, form) \in KeyEntry /\ Passed(k, form).key = KeyOf[k]
        /\ Passed(k, form).from = None \/ Passed(k, form).from = registry[k].from
    BY <2>2, BytesFacts DEF Passed
  <2>4. registry' = AddKey(registry, k, Passed(k, form), None, cutover[k])
    BY <1>5 DEF Retire
  <2>5. registry' \in Registry /\ \A j \in Kid : j # k => registry'[j] = registry[j]
    BY <1>b, <2>1, <2>3, <2>4, AddKeyFacts
  <2>6. /\ registry'[k].key = KeyOf[k]
        /\ registry'[k].from = Passed(k, form).from
        /\ registry'[k].until = cutover[k]
    BY <1>b, <2>1, <2>3, <2>4, AddKeyEntry
  <2>7. FromPast(registry[k])'
    <3>1. FromPast(registry[k])
      BY <2>1 DEF Windows
    <3>2. CASE registry'[k].from = None
      BY <3>2 DEF FromPast
    <3>3. CASE registry'[k].from = registry[k].from
      BY <3>1, <3>3, <1>a, <1>c DEF FromPast
    <3> QED
      BY <3>2, <3>3, <2>3, <2>6
  <2>8. k \notin revoked /\ revoked' = revoked /\ cutover' = cutover /\ leaked' = leaked
    BY <1>5 DEF Retire
  <2> QED
    BY <2>5, <2>6, <2>7, <2>8, <1>d DEF Windows
<1>6. CASE Sign
  BY <1>6, <1>c, WindowsStay DEF Sign
<1>7. ASSUME NEW d \in drafts, Store(d) PROVE Windows'
  BY <1>7, <1>c, WindowsStay DEF Store
<1>8. ASSUME NEW j \in Kid, NEW k \in Kid, NEW ts \in 0..MaxTime, Forge(k, j, ts)
      PROVE Windows'
  BY <1>8, <1>c, WindowsStay DEF Forge
<1>9. ASSUME NEW k \in Kid, NEW t \in 0..MaxTime, Revoke(k, t) PROVE Windows'
  <2>1. registry[k] # None /\ t \in Opt(Nat) /\ t # None
    BY <1>9, <1>a, NoneAssumption DEF Revoke, TInv, InRegistry, Opt, NoneAssumption
  <2>2. registry' = AddKey(registry, k, registry[k], None, t)
    BY <1>9 DEF Revoke
  <2>3. registry[k] \in KeyEntry /\ registry[k].key = KeyOf[k]
    BY <2>1, EntryFacts DEF TInv, Windows
  <2>4. registry' \in Registry /\ \A j \in Kid : j # k => registry'[j] = registry[j]
    BY <1>b, <2>1, <2>2, <2>3, AddKeyFacts
  <2>5. /\ registry'[k].key = KeyOf[k]
        /\ registry'[k].from = registry[k].from
        /\ registry'[k].until = t
    BY <1>b, <2>1, <2>2, <2>3, AddKeyEntry
  <2>6. FromPast(registry[k])'
    BY <2>1, <2>5, <1>a, <1>c DEF FromPast, Windows
  <2>7. /\ t <= leaked[k] /\ revoked' = revoked \cup {k}
        /\ cutover' = cutover /\ leaked' = leaked
    BY <1>9 DEF Revoke
  <2> QED
    BY <2>1, <2>4, <2>5, <2>6, <2>7, <1>d DEF Windows
<1> QED
  BY <1>1, <1>2, <1>3, <1>4, <1>5, <1>6, <1>7, <1>8, <1>9 DEF Next
-----------------------------------------------------------------------------
(* The inductive invariant. *)

LEMMA SafeInit == Init => IInv
<1> SUFFICES ASSUME Init PROVE IInv
  OBVIOUS
<1>1. TInv
  BY TypeInit
<1>2. Windows
  <2>1. \A k \in Kid : registry[k] # None => registry[k] = Bytes(k)
    BY DEF Init
  <2> QED
    BY <2>1, BytesFacts DEF Init, Windows, FromPast
<1>3. Drafts /\ Records
  BY DEF Init, Drafts, Records
<1> QED
  BY <1>1, <1>2, <1>3 DEF IInv

\* A fresh signature is dated by the window and the cutover of the kid in use.
LEMMA SignKeeps == IInv /\ Onward /\ Sign => Drafts' /\ Records'
<1> SUFFICES ASSUME IInv, Onward, Sign PROVE Drafts' /\ Records'
  OBVIOUS
<1>a. /\ now \in Nat /\ now' = now + 1 /\ inUse \in Kid
      /\ registry[inUse] # None /\ cutover[inUse] = None
      /\ registry' = registry /\ cutover' = cutover /\ stored' = stored
  BY DEF IInv, TInv, TypeOK, InRegistry, Onward, Sign
<1>k. PICK k \in Kid : k = inUse
  BY <1>a
<1>t. PICK t \in Nat : t = now
  BY <1>a
<1>n. PICK new : new = [pin |-> PinFor(k, KeyOf[k], Truncate(t)), signed |-> t]
  OBVIOUS
<1>1. registry[k].from # None =>
        /\ registry[k].from <= t
        /\ WholeFrom => registry[k].from <= Truncate(t)
  <2> SUFFICES ASSUME registry[k].from # None
               PROVE  /\ registry[k].from <= t
                      /\ WholeFrom => registry[k].from <= Truncate(t)
    OBVIOUS
  <2>1. registry[k].from \in Nat
    BY <1>a, <1>k, EntryFacts DEF IInv, TInv, KeyEntry, Opt
  <2>2. PICK f \in Nat : /\ f < t /\ registry[k].from <= f
                         /\ WholeFrom => registry[k].from = Truncate(f)
    BY <1>a, <1>k, <1>t DEF IInv, Windows, FromPast
  <2>3. Truncate(f) <= Truncate(t)
    BY <2>2, TruncateMonotone
  <2> QED
    BY <2>1, <2>2, <2>3
<1>2. new.pin = PinFor(k, KeyOf[k], Truncate(t)) /\ new.signed = t
  BY <1>n
<1>3. Dated(new.pin, k, t)'
  BY <1>a, <1>k, <1>1, <1>2 DEF Dated
<1>4. SoundDraft(new)'
  BY <1>a, <1>t, <1>2, <1>3 DEF SoundDraft
<1>5. drafts' = drafts \cup {new}
  BY <1>k, <1>t, <1>n DEF Sign
<1>6. Drafts'
  <2> SUFFICES ASSUME NEW d \in drafts' PROVE SoundDraft(d)'
    BY DEF Drafts
  <2>1. CASE d \in drafts
    BY <2>1, DraftStays DEF IInv, Drafts
  <2>2. CASE d = new
    BY <2>2, <1>4
  <2> QED
    BY <2>1, <2>2, <1>5
<1>7. Records'
  <2> SUFFICES ASSUME NEW s \in stored'
               PROVE  IF s.honest THEN SoundRecord(s)' ELSE Late(s)'
    BY DEF Records
  <2> QED
    BY <1>a, RecordStays, LateStays DEF IInv, Records
<1> QED
  BY <1>6, <1>7

\* What is ingested keeps the date of its signature.
LEMMA StoreKeeps ==
  ASSUME IInv, Onward, NEW d \in drafts, Store(d) PROVE Drafts' /\ Records'
<1>n. PICK new : new = [pin |-> d.pin, at |-> now, honest |-> TRUE,
                        by |-> d.pin.header.kid]
  OBVIOUS
<1>a. /\ now \in Nat /\ now' = now + 1 /\ d.signed \in Nat
      /\ stored' = stored \cup {new} /\ drafts' \subseteq drafts
  BY <1>n DEF IInv, TInv, TypeOK, Draft, Onward, Store
<1>1. PICK k \in Kid : d.signed < now /\ Dated(d.pin, k, d.signed)
  BY DEF IInv, Drafts, SoundDraft
<1>2. d.pin.header.kid = k
  BY <1>1, <1>a, PinForFacts, TruncateFacts, RotationAssumption
    DEF Dated, RotationAssumption
<1>3. new.pin = d.pin /\ new.at = now /\ new.honest = TRUE /\ new.by = k
  BY <1>2, <1>n
<1>4. Dated(d.pin, k, d.signed)'
  BY <1>1, <1>a, DatedStays
<1>5. SoundRecord(new)'
  BY <1>1, <1>3, <1>4, <1>a DEF SoundRecord
<1>6. Drafts'
  <2> SUFFICES ASSUME NEW c \in drafts' PROVE SoundDraft(c)'
    BY DEF Drafts
  <2> QED
    BY <1>a, DraftStays DEF IInv, Drafts
<1>7. Records'
  <2> SUFFICES ASSUME NEW s \in stored'
               PROVE  IF s.honest THEN SoundRecord(s)' ELSE Late(s)'
    BY DEF Records
  <2>1. CASE s \in stored
    BY <2>1, RecordStays, LateStays DEF IInv, Records
  <2>2. CASE s = new
    BY <2>2, <1>3, <1>5
  <2> QED
    BY <2>1, <2>2, <1>a
<1> QED
  BY <1>6, <1>7

\* What is made with a stolen key comes after the theft.
LEMMA ForgeKeeps ==
  ASSUME IInv, Onward, NEW j \in Kid, NEW k \in Kid, NEW ts \in 0..MaxTime, Forge(k, j, ts)
  PROVE  Drafts' /\ Records'
<1>n. PICK new : new = [pin |-> PinFor(j, KeyOf[k], ts), at |-> now,
                        honest |-> FALSE, by |-> k]
  OBVIOUS
<1>a. /\ stored' = stored \cup {new} /\ drafts' = drafts
      /\ leaked[k] # None /\ leaked[k] < now /\ leaked' = leaked
  BY <1>n DEF IInv, TInv, InRegistry, Forge
<1>1. new.pin = PinFor(j, KeyOf[k], ts) /\ new.at = now /\ new.honest = FALSE /\ new.by = k
  BY <1>n
<1>2. Late(new)'
  <2>1. ts \in Nat
    BY RotationAssumption DEF RotationAssumption
  <2> QED
    BY <1>1, <1>a, <2>1 DEF Late
<1>3. Drafts'
  <2> SUFFICES ASSUME NEW c \in drafts' PROVE SoundDraft(c)'
    BY DEF Drafts
  <2> QED
    BY <1>a, DraftStays DEF IInv, Drafts
<1>4. Records'
  <2> SUFFICES ASSUME NEW s \in stored'
               PROVE  IF s.honest THEN SoundRecord(s)' ELSE Late(s)'
    BY DEF Records
  <2>1. CASE s \in stored
    BY <2>1, RecordStays, LateStays DEF IInv, Records
  <2>2. CASE s = new
    BY <2>2, <1>1, <1>2
  <2> QED
    BY <2>1, <2>2, <1>a
<1> QED
  BY <1>3, <1>4

LEMMA SafeNext == IInv /\ [Next]_vars => IInv'
<1> SUFFICES ASSUME IInv, [Next]_vars PROVE IInv'
  OBVIOUS
<1>1. CASE UNCHANGED vars
  BY <1>1 DEF vars, IInv, TInv, TypeOK, InRegistry, Windows, FromPast, Drafts, Records,
              SoundDraft, SoundRecord, Late, Dated
<1>2. CASE Next
  <2>1. TInv' /\ Windows' /\ Onward
    BY <1>2, TypeNext, WindowsNext, StepOnward DEF IInv
  <2>2. Drafts' /\ Records'
    <3>1. CASE \/ Tick
               \/ \E k \in Kid : Introduce(k) \/ Switch(k) \/ Leak(k)
               \/ \E k \in Kid, form \in Forms : Retire(k, form)
               \/ \E k \in Kid, t \in 0..MaxTime : Revoke(k, t)
      <4>1. drafts' = drafts /\ stored' = stored
        BY <3>1 DEF Tick, Introduce, Switch, Leak, Retire, Revoke
      <4> QED
        BY <2>1, <4>1, PinsStay DEF IInv
    <3>2. CASE Sign
      BY <3>2, <2>1, SignKeeps
    <3>3. CASE \E d \in drafts : Store(d)
      BY <3>3, <2>1, StoreKeeps
    <3>4. CASE \E j, k \in Kid, ts \in 0..MaxTime : Truncate(ts) = ts /\ Forge(k, j, ts)
      BY <3>4, <2>1, ForgeKeeps
    <3> QED
      BY <1>2, <3>1, <3>2, <3>3, <3>4 DEF Next
  <2> QED
    BY <2>1, <2>2 DEF IInv
<1> QED
  BY <1>1, <1>2

-----------------------------------------------------------------------------
(* The properties. *)

LEMMA StolenSafe == IInv => StolenKeyStopped
<1> SUFFICES ASSUME IInv, NEW s \in stored, ~s.honest, s.by \in revoked,
                    TrustedVerdict(s) = "OK"
             PROVE  FALSE
  BY DEF StolenKeyStopped
<1>1. s.at \in Nat /\ s.by \in Kid /\ registry \in Registry /\ s.at # None
  BY NoneAssumption DEF IInv, TInv, TypeOK, Ingested, NoneAssumption
<1>2. PICK j \in Kid, ts \in Nat : s.pin = PinFor(j, KeyOf[s.by], ts)
  BY DEF IInv, Records, Late
<1>3. KeyOf \in [Kid -> Key] /\ \A m, n \in Kid : KeyOf[m] = KeyOf[n] => m = n
  BY RotationAssumption DEF RotationAssumption
<1>4. /\ registry[j] # None /\ WindowStage(registry[j], ts, s.at) = "OK"
      /\ KeyOf[s.by] = registry[j].key
  <2>1. Verify(registry, {2}, PinFor(j, KeyOf[s.by], ts), At(s.at)) = "OK"
    BY <1>2 DEF TrustedVerdict
  <2>2. KeyOf[s.by] \in Key
    BY <1>1, <1>3
  <2> QED
    BY <2>1, <2>2, <1>1, VerdictFacts
<1>5. j = s.by
  BY <1>1, <1>3, <1>4 DEF IInv, Windows
<1>6. registry[j].until # None /\ registry[j].until <= leaked[j] /\ leaked[j] < s.at
  BY <1>4, <1>5 DEF IInv, Windows, Records, Late
<1>7. registry[j].until \in Nat /\ leaked[j] \in Nat
  <2>1. registry[j] \in KeyEntry
    BY <1>4, EntryFacts DEF IInv, TInv
  <2>2. leaked[j] \in Opt(Nat) /\ leaked[j] # None
    BY <1>5 DEF IInv, TInv, TypeOK, Records, Late
  <2> QED
    BY <2>1, <2>2, <1>6 DEF KeyEntry, Opt
<1>8. s.at >= registry[j].until
  BY <1>1, <1>6, <1>7
<1>9. ts # BadTs /\ ts # NaiveTs
  BY NoneAssumption DEF NoneAssumption
<1> QED
  BY <1>1, <1>4, <1>6, <1>8, <1>9 DEF WindowStage

\* What an honest record says of its window, for both kinds of verdict.
LEMMA HonestFacts ==
  ASSUME IInv, NEW s \in stored, s.honest
  PROVE  /\ registry[s.by] # None /\ registry[s.by].key = KeyOf[s.by]
         /\ registry[s.by].from \in Opt(Nat) /\ registry[s.by].until \in Opt(Nat)
         /\ s.by \in Kid /\ s.at \in Nat
         /\ \E t \in Nat : t < s.at /\ Dated(s.pin, s.by, t)
<1>1. s.by \in Kid /\ s.at \in Nat
  BY DEF IInv, TInv, TypeOK, Ingested
<1>2. PICK t \in Nat : t < s.at /\ Dated(s.pin, s.by, t)
  BY DEF IInv, Records, SoundRecord
<1>3. registry[s.by] # None
  BY <1>2 DEF Dated
<1>4. registry[s.by] \in KeyEntry
  BY <1>1, <1>3, EntryFacts DEF IInv, TInv
<1> QED
  BY <1>1, <1>2, <1>3, <1>4 DEF IInv, Windows, KeyEntry

LEMMA InWindowSafe == IInv => IngestedInWindowVerifies
<1> SUFFICES ASSUME IInv, NEW s \in stored, s.honest,
                    registry[s.by].until # None => s.at < registry[s.by].until
             PROVE  TrustedVerdict(s) = "OK"
  BY DEF IngestedInWindowVerifies, Until
<1> DEFINE e == registry[s.by]
<1>1. /\ e # None /\ e.key = KeyOf[s.by] /\ e.from \in Opt(Nat) /\ e.until \in Opt(Nat)
      /\ s.by \in Kid /\ s.at \in Nat
  BY HonestFacts
<1>2. PICK t \in Nat : t < s.at /\ Dated(s.pin, s.by, t)
  BY HonestFacts
<1> DEFINE ts == Truncate(t)
<1>3. ts \in Nat /\ ts <= t
  BY TruncateFacts
<1>4. s.pin = PinFor(s.by, KeyOf[s.by], ts) /\ (e.from # None => e.from <= t)
  BY <1>2 DEF Dated
<1> HIDE DEF ts, e
<1>5. ts # BadTs /\ ts # NaiveTs
  BY <1>3, NoneAssumption DEF NoneAssumption
<1>6. ~(s.at # None /\ ts > s.at)
  BY <1>1, <1>2, <1>3
<1>7. ~(e.from # None /\ s.at < e.from)
  BY <1>1, <1>2, <1>4 DEF Opt
<1>8. ~(e.until # None /\ s.at >= e.until)
  BY <1>1 DEF Opt, e
<1>9. s.at # None
  BY <1>1, NoneAssumption DEF NoneAssumption
<1>10. WindowStage(e, ts, s.at) = "OK"
  BY <1>5, <1>6, <1>7, <1>8, <1>9 DEF WindowStage
<1>11. registry \in Registry /\ KeyOf[s.by] \in Key
  BY <1>1, RotationAssumption DEF IInv, TInv, TypeOK, RotationAssumption
<1>12. Verify(registry, {2}, PinFor(s.by, KeyOf[s.by], ts), At(s.at)) = "OK"
  BY <1>1, <1>3, <1>10, <1>11, VerdictFacts DEF e
<1> QED
  BY <1>4, <1>12 DEF TrustedVerdict

LEMMA HistorySafe == WholeFrom /\ IInv => HistoryVerifies
<1> SUFFICES ASSUME WholeFrom, IInv, NEW s \in stored, s.honest,
                    s.by \in revoked => s.pin.header.ts < registry[s.by].until
             PROVE  Verdict(s) = "OK"
  BY DEF HistoryVerifies, Until
<1> DEFINE e == registry[s.by]
<1>1. /\ e # None /\ e.key = KeyOf[s.by] /\ e.from \in Opt(Nat) /\ e.until \in Opt(Nat)
      /\ s.by \in Kid /\ s.at \in Nat
  BY HonestFacts
<1>2. PICK t \in Nat : t < s.at /\ Dated(s.pin, s.by, t)
  BY HonestFacts
<1> DEFINE ts == Truncate(t)
<1>3. ts \in Nat /\ ts <= t
  BY TruncateFacts
<1>4. s.pin = PinFor(s.by, KeyOf[s.by], ts) /\ (e.from # None => e.from <= ts)
  BY <1>2 DEF Dated
<1>5. registry \in Registry /\ KeyOf[s.by] \in Key
  BY <1>1, RotationAssumption DEF IInv, TInv, TypeOK, RotationAssumption
<1> HIDE DEF ts
<1>6. s.pin.header.ts = ts
  BY <1>1, <1>3, <1>4, <1>5, PinForFacts
<1>7. e.until # None => ts < e.until
  <2>1. CASE s.by \in revoked
    BY <2>1, <1>6
  <2>2. CASE s.by \notin revoked
    <3>1. e.until = None \/ e.until = cutover[s.by]
      BY <2>2, <1>1 DEF IInv, Windows
    <3>2. cutover[s.by] # None => t < cutover[s.by]
      BY <1>2 DEF Dated
    <3> QED
      BY <3>1, <3>2, <1>1, <1>3 DEF Opt
  <2> QED
    BY <2>1, <2>2
<1> HIDE DEF e
<1>8. ts # BadTs /\ ts # NaiveTs
  BY <1>3, NoneAssumption DEF NoneAssumption
<1>9. ~(e.from # None /\ ts < e.from) /\ ~(e.until # None /\ ts >= e.until)
  BY <1>1, <1>3, <1>4, <1>7 DEF Opt
<1>10. WindowStage(e, ts, None) = "OK"
  BY <1>8, <1>9 DEF WindowStage
<1>11. Verify(registry, {2}, PinFor(s.by, KeyOf[s.by], ts), At(None)) = "OK"
  BY <1>1, <1>3, <1>5, <1>10, VerdictFacts DEF e
<1> QED
  BY <1>4, <1>11 DEF Verdict

\* A revoked key never works again for its thief: whatever they sign with it
\* after the theft, under any kid and with any `ts`, trusted time refuses.
THEOREM StolenKeyAlwaysStopped == Spec => []StolenKeyStopped
BY SafeInit, SafeNext, StolenSafe, PTL DEF Spec

\* Trusted time never rejects an honest record ingested inside its key's window.
THEOREM IngestedInWindowAlwaysVerifies == Spec => []IngestedInWindowVerifies
BY SafeInit, SafeNext, InWindowSafe, PTL DEF Spec

\* When valid_from is written in whole seconds, as `ts` is, rotation and
\* revocation leave every honest pin before the bound verifiable for ever.
THEOREM HistoryAlwaysVerifies == WholeFrom => (Spec => []HistoryVerifies)
<1>1. SUFFICES ASSUME WholeFrom PROVE Spec => []HistoryVerifies
  OBVIOUS
<1>2. IInv => HistoryVerifies
  BY <1>1, HistorySafe
<1> QED
  BY <1>2, SafeInit, SafeNext, PTL DEF Spec

-----------------------------------------------------------------------------
(* Windows only narrow.                                                    *)

\* e2 has e1's beginning, and an end if e1 has, not later.
Narrower(e1, e2) ==
  /\ e2.from = e1.from
  /\ e1.until # None => e2.until # None /\ e2.until <= e1.until

LEMMA StepNarrows ==
  ASSUME TInv, Next, \A k \in Kid : ~Retire(k, "bytes"), NEW k \in Kid, registry[k] # None
  PROVE  registry' \in Registry /\ registry'[k] # None /\ Narrower(registry[k], registry'[k])
<1>a. /\ now \in Nat /\ registry \in Registry /\ None \in Opt(Nat)
      /\ cutover \in [Kid -> Opt(Nat)] /\ registry[k] \in KeyEntry
  BY EntryFacts, RotationAssumption DEF TInv, TypeOK, RotationAssumption, Opt
<1>d. registry \in Registry /\ None \in Opt(Nat)
  BY <1>a
<1>b. registry[k].until # None => registry[k].until \in Nat
  BY <1>a DEF KeyEntry, Opt
<1>c. ASSUME registry' = registry
      PROVE  registry' \in Registry /\ registry'[k] # None /\ Narrower(registry[k], registry'[k])
  BY <1>a, <1>b, <1>c DEF Narrower
<1>1. ASSUME NEW j \in Kid, Introduce(j)
      PROVE  registry' \in Registry /\ registry'[k] # None /\ Narrower(registry[k], registry'[k])
  <2> DEFINE from == IF WholeFrom THEN now - (now % Second) ELSE now
  <2>1. from \in Opt(Nat) /\ Bytes(j) \in KeyEntry
    BY <1>a, TruncateFacts, BytesFacts DEF Opt, Truncate
  <2>2. registry' = AddKey(registry, j, Bytes(j), from, None) /\ registry[j] = None
    BY <1>1 DEF Introduce
  <2> HIDE DEF from
  <2>3. registry' \in Registry /\ \A i \in Kid : i # j => registry'[i] = registry[i]
    BY <1>d, <2>1, <2>2, AddKeyFacts
  <2>4. registry'[k] = registry[k]
    BY <2>2, <2>3
  <2> QED BY <1>a, <1>b, <2>3, <2>4 DEF Narrower
<1>2. ASSUME NEW j \in Kid, NEW form \in Forms, Retire(j, form)
      PROVE  registry' \in Registry /\ registry'[k] # None /\ Narrower(registry[k], registry'[k])
  <2>1. registry[j] # None /\ cutover[j] \in Opt(Nat) /\ registry[j].until = None
    BY <1>2, <1>a DEF Retire, TInv, InRegistry
  <2>2. Passed(j, form) = registry[j] /\ registry[j] \in KeyEntry
    BY <1>2, <2>1, EntryFacts DEF Passed, TInv
  <2>3. registry' = AddKey(registry, j, registry[j], None, cutover[j])
    BY <1>2, <2>2 DEF Retire
  <2>4. /\ registry' \in Registry /\ registry'[j] # None
        /\ \A i \in Kid : i # j => registry'[i] = registry[i]
    BY <1>d, <2>1, <2>2, <2>3, AddKeyFacts
  <2>5. registry'[j].from = registry[j].from
    BY <1>d, <2>1, <2>2, <2>3, AddKeyEntry
  <2>6. CASE j = k BY <2>1, <2>4, <2>5, <2>6 DEF Narrower
  <2>7. CASE j # k BY <1>a, <1>b, <2>4, <2>7 DEF Narrower
  <2> QED BY <2>6, <2>7
<1>3. ASSUME NEW j \in Kid, NEW t \in 0..MaxTime, Revoke(j, t)
      PROVE  registry' \in Registry /\ registry'[k] # None /\ Narrower(registry[k], registry'[k])
  <2>1. registry[j] # None /\ t \in Opt(Nat) /\ t # None /\ t \in Nat
    BY <1>3, <1>a, RotationAssumption, NoneAssumption
       DEF Revoke, TInv, InRegistry, Opt, RotationAssumption, NoneAssumption
  <2>2. registry[j] \in KeyEntry /\ registry' = AddKey(registry, j, registry[j], None, t)
    BY <1>3, <2>1, EntryFacts DEF TInv, Revoke
  <2>3. /\ registry' \in Registry /\ registry'[j] # None
        /\ \A i \in Kid : i # j => registry'[i] = registry[i]
    BY <1>d, <2>1, <2>2, AddKeyFacts
  <2>4. registry'[j].from = registry[j].from /\ registry'[j].until = t
    BY <1>d, <2>1, <2>2, AddKeyEntry
  <2>5. registry[j].until # None => t <= registry[j].until
    BY <1>3 DEF Revoke
  <2>6. CASE j = k BY <2>1, <2>3, <2>4, <2>5, <2>6 DEF Narrower
  <2>7. CASE j # k BY <1>a, <1>b, <2>3, <2>7 DEF Narrower
  <2> QED BY <2>6, <2>7
<1>4. CASE Tick \/ Sign \/ (\E d \in drafts : Store(d))
  BY <1>4, <1>c DEF Tick, Sign, Store
<1>5. ASSUME NEW j \in Kid, Switch(j) \/ Leak(j) PROVE registry' = registry
  BY <1>5 DEF Switch, Leak
<1>6. ASSUME NEW i \in Kid, NEW j \in Kid, NEW ts \in 0..MaxTime, Forge(j, i, ts)
      PROVE  registry' = registry
  BY <1>6 DEF Forge
<1> QED BY <1>c, <1>1, <1>2, <1>3, <1>4, <1>5, <1>6 DEF Next

\* What a stored pin is.
LEMMA StoredFacts ==
  ASSUME IInv, NEW s \in stored
  PROVE  \E k \in Kid, key \in Key, ts \in Nat : s.pin = PinFor(k, key, ts)
<1>1. s.by \in Kid BY DEF IInv, TInv, TypeOK, Ingested
<1>2. KeyOf[s.by] \in Key BY <1>1, RotationAssumption DEF RotationAssumption
<1>3. CASE s.honest
  <2>1. PICK t \in Nat : Dated(s.pin, s.by, t) BY <1>3 DEF IInv, Records, SoundRecord
  <2>2. Truncate(t) \in Nat BY TruncateFacts
  <2> QED BY <1>1, <1>2, <2>1, <2>2 DEF Dated
<1>4. CASE ~s.honest
  <2>1. PICK j \in Kid, ts \in Nat : s.pin = PinFor(j, KeyOf[s.by], ts)
    BY <1>4 DEF IInv, Records, Late
  <2> QED BY <1>2, <2>1
<1> QED BY <1>3, <1>4

\* A pin outside a window is outside every narrower one.
LEMMA ExpiredStays ==
  ASSUME IInv, Next, \A k \in Kid : ~Retire(k, "bytes"), NEW s \in stored,
         Verdict(s) = "KEY_EXPIRED"
  PROVE  Verdict(s)' = "KEY_EXPIRED"
<1>1. PICK k \in Kid, key \in Key, ts \in Nat : s.pin = PinFor(k, key, ts)
  BY StoredFacts
<1>2. registry \in Registry BY DEF IInv, TInv, TypeOK
<1>3. Verify(registry, {2}, PinFor(k, key, ts), At(None)) = "KEY_EXPIRED"
  BY <1>1 DEF Verdict
<1>4. registry[k] # None /\ WindowStage(registry[k], ts, None) = "KEY_EXPIRED"
  BY <1>2, <1>3, VerdictFacts
<1>5. /\ registry' \in Registry /\ registry'[k] # None
      /\ Narrower(registry[k], registry'[k])
  BY <1>4, StepNarrows DEF IInv
<1>6. registry[k] \in KeyEntry /\ registry'[k] \in KeyEntry
  BY <1>2, <1>4, <1>5 DEF Registry, Opt
<1>7. ts # BadTs /\ ts # NaiveTs BY NoneAssumption DEF NoneAssumption
<1>8. \/ registry[k].from # None /\ ts < registry[k].from
      \/ registry[k].until # None /\ ts >= registry[k].until
  BY <1>4, <1>7 DEF WindowStage
<1>9. \/ registry'[k].from # None /\ ts < registry'[k].from
      \/ registry'[k].until # None /\ ts >= registry'[k].until
  BY <1>5, <1>6, <1>8 DEF Narrower, KeyEntry, Opt
<1>10. WindowStage(registry'[k], ts, None) = "KEY_EXPIRED"
  BY <1>7, <1>9 DEF WindowStage
<1>11. Verify(registry', {2}, PinFor(k, key, ts), At(None)) = "KEY_EXPIRED"
  BY <1>5, <1>10, VerdictFacts
<1> QED BY <1>1, <1>11 DEF Verdict

\* Only a retirement with raw bytes can make a verifier accept a pin it refused as
\* expired (add_key: a bound that is passed replaces the entry's own).
THEOREM ExpiredAlwaysStaysExpired == Spec => ExpiredStaysExpired
<1> DEFINE A == (\A k \in Kid : ~Retire(k, "bytes")) =>
                  \A s \in stored : Verdict(s) = "KEY_EXPIRED" => Verdict(s)' = "KEY_EXPIRED"
<1>1. IInv /\ [Next]_vars => [A]_vars
  BY ExpiredStays
<1>2. [][A]_vars <=> ExpiredStaysExpired BY DEF ExpiredStaysExpired
<1> QED BY <1>1, <1>2, SafeInit, SafeNext, PTL DEF Spec

-----------------------------------------------------------------------------
(* The key files.                                                          *)

FileTypes ==
  /\ at \in [Proc -> Place]
  /\ priv \in Content \cup {NoFile} /\ pub \in Content \cup {NoFile}
  /\ made \subseteq Proc
  /\ verdicts \subseteq [pin : Proc, code : 0..2]
  /\ moved \in BOOLEAN

\* A keygen that is inside owns the private file, which is empty until it is written.
Owned == \A p \in Proc : at[p] \in Inside => priv # NoFile /\ priv.key = p
EmptyFirst == \A p \in Proc : at[p] = "created" => priv.len = 0

\* Until a private file is taken away, a public file stands next to the private file
\* of its key pair, and the key that was signed with is whole and still there.
PairedFiles == pub # NoFile /\ ~moved => priv # NoFile /\ pub.key = priv.key
KeptFiles == ~moved => \A k \in made : Whole(priv) /\ priv.key = k

\* A keygen that has written the public file finds its own pair until its private file goes.
DonePairs == \A p \in Proc :
  /\ at[p] = "public" => pub = [key |-> p, len |-> Size]
  /\ at[p] = "done" /\ priv # NoFile /\ priv.key = p => pub = [key |-> p, len |-> Size]

FileInv ==
  /\ FileTypes /\ Owned /\ EmptyFirst /\ PairedFiles /\ KeptFiles /\ DonePairs
  /\ OwnPinNotRefused

LEMMA FileFacts ==
  /\ \A c \in Content : c # NoFile /\ c.key \in Proc /\ c.len \in 0..Size
  /\ \A p \in Proc, n \in 0..Size : [key |-> p, len |-> n] \in Content
  /\ 0 \in 0..Size /\ Size \in 0..Size /\ Size # 0
BY KeygenAssumption DEF KeygenAssumption, Content

LEMMA FilesInit == KeygenInit => FileInv
BY DEF KeygenInit, FileInv, FileTypes, Owned, EmptyFirst, PairedFiles, KeptFiles,
       DonePairs, OwnPinNotRefused, Place, Inside

\* What a step of one keygen does to its place.
LEMMA StepPlace ==
  ASSUME at \in [Proc -> Place],
         NEW p \in Proc, NEW from \in Place, NEW to \in Place,
         Step(p, from, to)
  PROVE  /\ at' \in [Proc -> Place] /\ at[p] = from /\ at'[p] = to
         /\ \A q \in Proc : q # p => at'[q] = at[q]
BY DEF Step

LEMMA GenerateKeeps ==
  ASSUME FileInv, NEW p \in Proc, Generate(p)
  PROVE  FileInv'
<1>1. Step(p, "idle", "generated") BY DEF Generate
<1>2. /\ at' \in [Proc -> Place] /\ at'[p] = "generated"
      /\ \A q \in Proc : q # p => at'[q] = at[q]
  BY <1>1, StepPlace DEF FileInv, FileTypes, Place
<1>3. UNCHANGED <<priv, pub, made, verdicts, moved>> BY DEF Generate
<1> QED BY <1>2, <1>3
        DEF FileInv, FileTypes, Owned, EmptyFirst, PairedFiles, KeptFiles, DonePairs,
            OwnPinNotRefused, Inside, Whole

LEMMA CreatePrivateKeeps ==
  ASSUME FileInv, NEW p \in Proc, CreatePrivate(p)
  PROVE  FileInv'
<1>1. UNCHANGED <<pub, made, verdicts, moved>> BY DEF CreatePrivate
<1>2. CASE priv = NoFile
  <2>1. Step(p, "generated", "created") /\ priv' = [key |-> p, len |-> 0]
    BY <1>2 DEF CreatePrivate
  <2>2. /\ at' \in [Proc -> Place] /\ at'[p] = "created"
        /\ \A q \in Proc : q # p => at'[q] = at[q]
    BY <2>1, StepPlace DEF FileInv, FileTypes, Place
  <2>3. priv' \in Content /\ priv' # NoFile /\ priv'.key = p /\ priv'.len = 0
    BY <2>1, FileFacts
  <2>4. (\A q \in Proc : at[q] \notin Inside) /\ (~moved => pub = NoFile /\ made = {})
    BY <1>2 DEF FileInv, Owned, PairedFiles, KeptFiles, Whole
  <2> QED BY <1>1, <2>2, <2>3, <2>4
          DEF FileInv, FileTypes, Owned, EmptyFirst, PairedFiles, KeptFiles, DonePairs,
              OwnPinNotRefused, Inside
<1>3. CASE priv # NoFile
  <2>1. Step(p, "generated", "refused") /\ UNCHANGED priv
    BY <1>3 DEF CreatePrivate
  <2>2. /\ at' \in [Proc -> Place] /\ at'[p] = "refused"
        /\ \A q \in Proc : q # p => at'[q] = at[q]
    BY <2>1, StepPlace DEF FileInv, FileTypes, Place
  <2> QED BY <1>1, <2>1, <2>2
          DEF FileInv, FileTypes, Owned, EmptyFirst, PairedFiles, KeptFiles, DonePairs,
              OwnPinNotRefused, Inside, Whole
<1> QED BY <1>2, <1>3

LEMMA WritePrivateKeeps ==
  ASSUME FileInv, NEW p \in Proc, WritePrivate(p)
  PROVE  FileInv'
<1>1. Step(p, "created", "written") /\ UNCHANGED <<pub, made, verdicts, moved>>
  BY DEF WritePrivate
<1>2. /\ at' \in [Proc -> Place] /\ at[p] = "created" /\ at'[p] = "written"
      /\ \A q \in Proc : q # p => at'[q] = at[q]
  BY <1>1, StepPlace DEF FileInv, FileTypes, Place
<1>3. priv \in Content /\ priv # NoFile /\ priv.key = p /\ priv.len = 0
  BY <1>2 DEF FileInv, FileTypes, Owned, EmptyFirst, Inside
<1>4. PICK n \in 1..Size : priv' = [key |-> p, len |-> n]
  BY <1>1 DEF WritePrivate
<1>5. priv' \in Content /\ priv' # NoFile /\ priv'.key = p
  BY <1>4, FileFacts, KeygenAssumption DEF KeygenAssumption
<1>6. ~moved => made = {} BY <1>3, FileFacts DEF FileInv, KeptFiles, Whole
<1>7. \A q \in Proc : at'[q] # "created"
  BY <1>2, <1>3 DEF FileInv, Owned, Inside
<1> QED BY <1>1, <1>2, <1>3, <1>5, <1>6, <1>7
        DEF FileInv, FileTypes, Owned, EmptyFirst, PairedFiles, KeptFiles, DonePairs,
            OwnPinNotRefused, Inside

LEMMA PublicKeeps ==
  ASSUME FileInv, NEW p \in Proc, OpenPublic(p) \/ WritePublic(p)
  PROVE  FileInv'
<1>1. PICK from \in {"written", "opened"}, to \in {"opened", "public"}, n \in {0, Size} :
        /\ Step(p, from, to) /\ (to = "public" => n = Size)
        /\ pub' = [key |-> p, len |-> n]
        /\ UNCHANGED <<priv, made, verdicts, moved>>
  BY DEF OpenPublic, WritePublic
<1>2. /\ at' \in [Proc -> Place] /\ at[p] = from /\ at'[p] = to
      /\ \A q \in Proc : q # p => at'[q] = at[q]
  BY <1>1, StepPlace DEF FileInv, FileTypes, Place
<1>3. pub' \in Content /\ pub' # NoFile /\ pub'.key = p BY <1>1, FileFacts
<1>4. priv # NoFile /\ priv.key = p BY <1>2 DEF FileInv, Owned, Inside
<1>5. DonePairs'
  <2>1. \A q \in Proc : q # p => at'[q] # "public"
    BY <1>2, <1>4 DEF FileInv, Owned, Inside
  <2>2. at'[p] # "done" BY <1>1, <1>2
  <2> QED BY <1>1, <1>2, <1>4, <2>1, <2>2 DEF DonePairs
<1> QED BY <1>1, <1>2, <1>3, <1>4, <1>5
        DEF FileInv, FileTypes, Owned, EmptyFirst, PairedFiles, KeptFiles,
            OwnPinNotRefused, Inside, Whole

LEMMA LeaveKeeps ==
  ASSUME FileInv, NEW p \in Proc, Finish(p) \/ Kill(p)
  PROVE  FileInv'
<1>1. UNCHANGED <<priv, pub, made, verdicts, moved>> BY DEF Finish, Kill
<1>2. /\ at' \in [Proc -> Place] /\ at'[p] \in {"done", "killed"}
      /\ \A q \in Proc : q # p => at'[q] = at[q]
  BY DEF Finish, Kill, Step, FileInv, FileTypes, Place
<1>3. at'[p] = "done" => at[p] = "public"
  BY <1>2 DEF Finish, Kill, Step, FileInv, FileTypes
<1> QED BY <1>1, <1>2, <1>3
        DEF FileInv, FileTypes, Owned, EmptyFirst, PairedFiles, KeptFiles, DonePairs,
            OwnPinNotRefused, Inside, Whole

LEMMA PinCmdKeeps == ASSUME FileInv, PinCmd PROVE FileInv'
<1>1. priv \in Content /\ Whole(priv) /\ priv.key \in Proc
  BY FileFacts DEF PinCmd, Whole, FileInv, FileTypes
<1> QED BY <1>1
        DEF PinCmd, FileInv, FileTypes, Owned, EmptyFirst, PairedFiles, KeptFiles,
            DonePairs, OwnPinNotRefused, Inside, Whole

LEMMA VerifyPinCmdKeeps ==
  ASSUME FileInv, NEW k \in Proc, VerifyPinCmd(k)
  PROVE  FileInv'
<1> DEFINE code == IF ~Whole(pub) THEN 1 ELSE IF pub.key = k THEN 0 ELSE 2
           v == [pin |-> k, code |-> code]
<1>1. /\ k \in made /\ verdicts' = verdicts \cup {v}
      /\ UNCHANGED <<at, priv, pub, made, moved>>
  BY DEF VerifyPinCmd
<1>2. Whole(pub) /\ ~moved => pub.key = k
  BY <1>1 DEF FileInv, KeptFiles, PairedFiles, Whole
<1>3. v \in [pin : Proc, code : 0..2] /\ (~moved => v.code # 2) BY <1>2
<1> HIDE DEF v
<1> QED BY <1>1, <1>3
        DEF FileInv, FileTypes, Owned, EmptyFirst, PairedFiles, KeptFiles, DonePairs,
            OwnPinNotRefused, Inside, Whole

LEMMA ClearKeeps == ASSUME FileInv, Clear PROVE FileInv'
<1>1. ~moved => made = {} BY DEF Clear, FileInv, KeptFiles
<1> QED BY <1>1
        DEF Clear, Quiet, FileInv, FileTypes, Owned, EmptyFirst, PairedFiles,
            KeptFiles, DonePairs, OwnPinNotRefused,
            Inside, Whole

LEMMA MoveKeeps == ASSUME FileInv, Move PROVE FileInv'
BY DEF Move, Quiet, FileInv, FileTypes, Owned, EmptyFirst, PairedFiles,
       KeptFiles, DonePairs, OwnPinNotRefused, Inside

LEMMA FilesStep ==
  ASSUME FileInv, [KeygenNext]_keygenVars PROVE FileInv'
<1>1. CASE KeygenNext
  <2>1. ASSUME NEW p \in Proc,
               \/ Generate(p) \/ CreatePrivate(p) \/ WritePrivate(p)
               \/ OpenPublic(p) \/ WritePublic(p) \/ Finish(p) \/ Kill(p)
        PROVE  FileInv'
    BY <2>1, GenerateKeeps, CreatePrivateKeeps, WritePrivateKeeps, PublicKeeps, LeaveKeeps
  <2>2. CASE PinCmd BY <2>2, PinCmdKeeps
  <2>3. ASSUME NEW k \in Proc, VerifyPinCmd(k) PROVE FileInv'
    BY <2>3, VerifyPinCmdKeeps
  <2>4. CASE Clear BY <2>4, ClearKeeps
  <2>5. CASE Move BY <2>5, MoveKeeps
  <2> QED BY <1>1, <2>1, <2>2, <2>3, <2>4, <2>5 DEF KeygenNext
<1>2. CASE UNCHANGED keygenVars
  BY <1>2 DEF keygenVars, FileInv, FileTypes, Owned, EmptyFirst, PairedFiles, KeptFiles,
              DonePairs, OwnPinNotRefused, Inside, Whole
<1> QED BY <1>1, <1>2

\* Only an absent private file is created, and only its length is written.
LEMMA PrivateKeyStays ==
  ASSUME FileInv, [KeygenNext]_keygenVars, priv # NoFile, priv' # NoFile
  PROVE  priv'.key = priv.key
<1>1. priv \in Content BY DEF FileInv, FileTypes
<1>2. ASSUME NEW p \in Proc, WritePrivate(p) PROVE priv'.key = priv.key
  <2>1. priv.key = p
    BY <1>2 DEF WritePrivate, Step, FileInv, Owned, Inside
  <2> QED BY <1>2, <2>1 DEF WritePrivate
<1>3. (\E p \in Proc : WritePrivate(p)) \/ UNCHANGED priv
  BY DEF KeygenNext, keygenVars, Generate, CreatePrivate, OpenPublic,
         WritePublic, Finish, Kill,
         PinCmd, VerifyPinCmd, Clear, Move
<1> QED BY <1>2, <1>3

\* The inductive invariant holds always.
LEMMA FilesInvariant == KeygenSpec => []FileInv
<1>1. FileInv /\ [KeygenNext]_keygenVars => FileInv' BY FilesStep
<1> QED BY <1>1, FilesInit, PTL DEF KeygenSpec

\* Every file is the beginning of one key, every exit code is documented, and no two
\* keygens are past the creation of the private file (_write_private_key).
THEOREM FilesTypeCorrect == KeygenSpec => []KeygenTypeOK
<1>1. FileInv => KeygenTypeOK BY DEF FileInv, FileTypes, Owned, KeygenTypeOK
<1> QED BY <1>1, FilesInvariant, PTL

\* While nothing runs, two whole files are one pair, whichever keygens raced or died.
THEOREM PairAlwaysMatches == KeygenSpec => []PairMatches
<1>1. FileInv => PairMatches
  BY DEF FileInv, PairedFiles, Whole, PairMatches
<1> QED BY <1>1, FilesInvariant, PTL

\* verify-pin never reports tampering for a pin of the private file next to it.
THEOREM OwnPinNeverRefused == KeygenSpec => []OwnPinNotRefused
<1>1. FileInv => OwnPinNotRefused BY DEF FileInv
<1> QED BY <1>1, FilesInvariant, PTL

\* A keygen that ended well leaves its own pair, moved files or not.
THEOREM DonePairAlwaysMatches == KeygenSpec => []DonePairMatches
<1>1. FileInv => DonePairMatches BY DEF FileInv, DonePairs, DonePairMatches
<1> QED BY <1>1, FilesInvariant, PTL

\* Until a private file is moved, no keygen replaces a whole key of another, private or public.
THEOREM NoKeyEverReplaced == KeygenSpec => NoKeyReplaced
<1> DEFINE A == ~moved' => /\ Whole(pub) /\ pub' # NoFile => pub'.key = pub.key
                           /\ Whole(priv) /\ priv' # NoFile => priv'.key = priv.key
<1>1. ASSUME FileInv, FileInv', [KeygenNext]_keygenVars PROVE [A]_keygenVars
  <2>1. priv # NoFile /\ priv' # NoFile => priv'.key = priv.key BY <1>1, PrivateKeyStays
  <2>2. ~moved' => ~moved
    BY <1>1 DEF KeygenNext, keygenVars, Generate, CreatePrivate,
                WritePrivate, OpenPublic, WritePublic,
                Finish, Kill, PinCmd, VerifyPinCmd, Clear,
                Move, FileInv, FileTypes
  <2>3. ~moved' /\ pub # NoFile /\ pub' # NoFile => pub'.key = pub.key
    BY <1>1, <2>1, <2>2 DEF FileInv, PairedFiles
  <2> QED BY <2>1, <2>3 DEF Whole
<1>2. [][A]_keygenVars <=> NoKeyReplaced BY DEF NoKeyReplaced
<1> QED BY <1>1, <1>2, FilesInvariant, PTL DEF KeygenSpec
=============================================================================
