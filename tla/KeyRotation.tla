----------------------------- MODULE KeyRotation -----------------------------
(***************************************************************************)
(* Rotation and revocation of signing keys (docs/spec.md section 7) as the *)
(* registry of verifier.py carries them out: keys are introduced, taken    *)
(* into use, retired at the cutover, leaked and revoked, while the signer  *)
(* stamps pins with its clock and the store ingests them later.            *)
(*                                                                         *)
(* Time is counted in ticks, Second of them to a second: a `ts` is a whole *)
(* second, the bounds of a KeyEntry and a trusted time are any instant.    *)
(* No two events share an instant, so every step but Tick takes a tick.    *)
(***************************************************************************)
EXTENDS PinProtocol

CONSTANTS
  Second,     \* ticks in a second
  MaxTime,    \* bound: the clock stops here
  MaxPins,    \* bound: pins signed or forged
  MaxLeaks,   \* bound: private keys copied
  First,      \* the kid in use at the start, registered without a window
  KeyOf,      \* KeyOf[k] : the key pair behind the kid k
  WholeFrom,  \* operators write valid_from in whole seconds
  Forms,      \* how operators pass the key to add_key: "entry", "bytes"
  NoExtra, TheText, TheDigest, TheModel  \* what the pins say otherwise

RotationAssumption ==
  /\ Second \in Nat \ {0} /\ MaxTime \in Nat /\ MaxPins \in Nat /\ MaxLeaks \in Nat
  /\ First \in Kid /\ KeyOf \in [Kid -> Key]
  /\ \A j, k \in Kid : KeyOf[j] = KeyOf[k] => j = k
  /\ WholeFrom \in BOOLEAN /\ Forms \subseteq {"entry", "bytes"}
  /\ NoExtra = [k \in Reserved |-> None]
  /\ TheText \in Text /\ TheDigest \in Digest /\ TheModel \in Model
ASSUME RotationAssumption

VARIABLES
  now,       \* the instant
  registry,  \* the verifiers' registry: kid to KeyEntry or None
  inUse,     \* the kid production signs with
  cutover,   \* cutover[k] : the instant signing moved away from k, or None
  leaked,    \* leaked[k] : the instant k's private key was copied, or None
  revoked,   \* kids whose entry was marked after a compromise
  drafts,    \* pins signed and not ingested yet
  stored     \* ingested pins: [pin, at : the store's clock, honest, by : kid]

vars == <<now, registry, inUse, cutover, leaked, revoked, drafts, stored>>

-----------------------------------------------------------------------------
\* Mutant: the timestamp is the second before the one that runs.
TruncateBefore(t) == t - (t % Second) - Second
\* Mutant: it is the one after.
TruncateNext(t) == t - (t % Second) + Second

\* strftime("%Y-%m-%dT%H:%M:%SZ") drops the fraction of the second.
Truncate(t) == t - (t % Second)

PinFor(k, key, ts) ==
  SignPin(key, [v |-> 2, kid |-> k, model |-> TheModel, model_hash |-> None,
                source_hash |-> TheText, vec_hash |-> TheDigest,
                vec_dtype |-> TheDigest.dtype, vec_dim |-> TheDigest.dim,
                ts |-> ts, extra |-> NoExtra])

\* Mutant: a bound that is passed replaces the entry's whole window.
AddKeyForgetful(reg, k, e, from, until) ==
  [reg EXCEPT ![k] = [key |-> e.key, from |-> from, until |-> until]]

\* add_key: a bound that is passed replaces the entry's own; raw bytes have none.
AddKey(reg, k, e, from, until) ==
  [reg EXCEPT ![k] = [key |-> e.key,
                      from |-> IF from # None THEN from ELSE e.from,
                      until |-> IF until # None THEN until ELSE e.until]]

Bytes(k) == [key |-> KeyOf[k], from |-> None, until |-> None]
Passed(k, form) == IF form = "bytes" THEN Bytes(k) ELSE registry[k]

Made == Cardinality(drafts) + Cardinality(stored)

-----------------------------------------------------------------------------
Init ==
  /\ now = 0
  /\ registry = [k \in Kid |-> IF k = First THEN Bytes(First) ELSE None]
  /\ inUse = First
  /\ cutover = [k \in Kid |-> None]
  /\ leaked = [k \in Kid |-> None]
  /\ revoked = {}
  /\ drafts = {}
  /\ stored = {}

Tick ==
  /\ now < MaxTime
  /\ now' = now + 1
  /\ UNCHANGED <<registry, inUse, cutover, leaked, revoked, drafts, stored>>

\* Steps 1 and 2: a fresh kid is registered, valid from this moment.
Introduce(k) ==
  /\ now < MaxTime /\ now' = now + 1
  /\ registry[k] = None
  /\ registry' = AddKey(registry, k, Bytes(k),
                        IF WholeFrom THEN now - (now % Second) ELSE now, None)
  /\ UNCHANGED <<inUse, cutover, leaked, revoked, drafts, stored>>

\* Step 3: production signing moves to a registered kid never used before.
Switch(k) ==
  /\ now < MaxTime /\ now' = now + 1
  /\ registry[k] # None /\ k # inUse /\ cutover[k] = None /\ k \notin revoked
  /\ cutover' = [cutover EXCEPT ![inUse] = now]
  /\ inUse' = k
  /\ UNCHANGED <<registry, leaked, revoked, drafts, stored>>

\* Step 5: valid_until of the old entry becomes the cutover instant.
Retire(k, form) ==
  /\ now < MaxTime /\ now' = now + 1
  /\ cutover[k] # None /\ k \notin revoked /\ registry[k].until = None
  /\ registry' = AddKey(registry, k, Passed(k, form), None, cutover[k])
  /\ UNCHANGED <<inUse, cutover, leaked, revoked, drafts, stored>>

\* Signer.pin with the kid in use, under the host's clock.
Sign ==
  /\ now < MaxTime /\ now' = now + 1
  /\ Made < MaxPins
  /\ drafts' = drafts \cup {[pin |-> PinFor(inUse, KeyOf[inUse], Truncate(now)),
                             signed |-> now]}
  /\ UNCHANGED <<registry, inUse, cutover, leaked, revoked, stored>>

\* The store ingests a signed pin and records when.
Store(d) ==
  /\ now < MaxTime /\ now' = now + 1
  /\ d \in drafts
  /\ drafts' = drafts \ {d}
  /\ stored' = stored \cup {[pin |-> d.pin, at |-> now, honest |-> TRUE,
                             by |-> d.pin.header.kid]}
  /\ UNCHANGED <<registry, inUse, cutover, leaked, revoked>>

Leak(k) ==
  /\ now < MaxTime /\ now' = now + 1
  /\ registry[k] # None /\ leaked[k] = None
  /\ Cardinality({j \in Kid : leaked[j] # None}) < MaxLeaks
  /\ leaked' = [leaked EXCEPT ![k] = now]
  /\ UNCHANGED <<registry, inUse, cutover, revoked, drafts, stored>>

\* Whoever holds a leaked key signs what they like, with any `ts` and under any
\* kid, and gets it ingested.
Forge(k, j, ts) ==
  /\ now < MaxTime /\ now' = now + 1
  /\ Made < MaxPins
  /\ leaked[k] # None
  /\ stored' = stored \cup {[pin |-> PinFor(j, KeyOf[k], ts), at |-> now,
                             honest |-> FALSE, by |-> k]}
  /\ UNCHANGED <<registry, inUse, cutover, leaked, revoked, drafts>>

\* valid_until becomes an instant the key is believed uncompromised at; it is
\* never later than the leak, nor than the bound the entry already has.
Revoke(k, t) ==
  /\ now < MaxTime /\ now' = now + 1
  /\ leaked[k] # None /\ k \notin revoked
  /\ t <= leaked[k] /\ (registry[k].until # None => t <= registry[k].until)
  /\ registry' = AddKey(registry, k, registry[k], None, t)
  /\ revoked' = revoked \cup {k}
  /\ UNCHANGED <<inUse, cutover, leaked, drafts, stored>>

Next ==
  \/ Tick
  \/ \E k \in Kid : Introduce(k) \/ Switch(k) \/ Leak(k)
  \/ \E k \in Kid, form \in Forms : Retire(k, form)
  \/ Sign
  \/ \E d \in drafts : Store(d)
  \/ \E j, k \in Kid, ts \in 0..MaxTime : Truncate(ts) = ts /\ Forge(k, j, ts)
  \/ \E k \in Kid, t \in 0..MaxTime : Revoke(k, t)

Spec == Init /\ [][Next]_vars

-----------------------------------------------------------------------------
Draft == [pin : Pin, signed : Nat]
Ingested == [pin : Pin, at : Nat, honest : BOOLEAN, by : Kid]

\* Every variable holds what the code's types allow.
TypeOK ==
  /\ now \in 0..MaxTime
  /\ registry \in Registry
  /\ inUse \in Kid
  /\ cutover \in [Kid -> Opt(Nat)]
  /\ leaked \in [Kid -> Opt(Nat)]
  /\ revoked \subseteq Kid
  /\ drafts \subseteq Draft
  /\ stored \subseteq Ingested

At(t) == [source |-> None, vector |-> None, model |-> None, model_hash |-> None,
          ids |-> NoExtra, now |-> t]

\* The verdict on a stored pin from its own `ts`, and with the ingestion time.
Verdict(s) == Verify(registry, {2}, s.pin, At(None))
TrustedVerdict(s) == Verify(registry, {2}, s.pin, At(s.at))

Until(k) == registry[k].until

\* Rotation never strands a record: whatever the order of signing, cutover,
\* retirement and ingestion, every pin of an honest signer verifies, and after a
\* revocation every one whose `ts` precedes valid_until (spec section 7: historical
\* pins must continue to verify).
HistoryVerifies ==
  \A s \in stored :
    s.honest /\ (s.by \in revoked => s.pin.header.ts < Until(s.by))
      => Verdict(s) = "OK"

\* Once a stolen key is revoked, nothing made with it after the theft verifies
\* against the ingestion time, whatever `ts` and kid its holder wrote.
StolenKeyStopped ==
  \A s \in stored : ~s.honest /\ s.by \in revoked => TrustedVerdict(s) # "OK"

\* Trusted time raises no false alarm on a record ingested inside the window.
IngestedInWindowVerifies ==
  \A s \in stored :
    s.honest /\ (Until(s.by) # None => s.at < Until(s.by)) => TrustedVerdict(s) = "OK"

\* What a verifier refused as expired it accepts again only when an operator retires a
\* key with its raw bytes, which drops the window it was registered with: every other
\* rotation and every revocation, in any order, only narrows windows.
ExpiredStaysExpired ==
  [][(\A k \in Kid : ~Retire(k, "bytes")) =>
       \A s \in stored : Verdict(s) = "KEY_EXPIRED" => Verdict(s)' = "KEY_EXPIRED"]_vars
=============================================================================
