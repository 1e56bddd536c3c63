------------------------------- MODULE Keygen -------------------------------
(***************************************************************************)
(* One key id's two files in a key directory, and the commands that share  *)
(* them (cli.py): keygen processes that create the private file, write it, *)
(* and write the public one; `pin` reading the private file; `verify-pin`  *)
(* reading the public one; processes that are killed, and the operator who *)
(* clears up after them.  KeyProofs extends this module and KeyRotation,   *)
(* so the formulas of the specification carry the module's name.           *)
(***************************************************************************)
EXTENDS Integers, FiniteSets

CONSTANTS
  Proc,     \* keygen processes, each with the key pair it generates
  Size,     \* the length of a key file
  NoFile

Content == [key : Proc, len : 0..Size]   \* the first len bytes of p's key

KeygenAssumption ==
  /\ Size \in Nat \ {0}
  /\ NoFile \notin Content

ASSUME KeygenAssumption

Place == {"idle", "generated", "created", "written", "opened", "public", "done",
          "refused", "killed"}
Inside == {"created", "written", "opened", "public"}

VARIABLES
  at,        \* where each keygen stands in _cmd_keygen
  priv,      \* <kid>.priv, or NoFile
  pub,       \* <kid>.pub, or NoFile
  made,      \* key pairs `pin` has signed with
  verdicts,  \* what `verify-pin` said of those pins: [pin, code]
  moved      \* history: a private file has been taken to a vault

keygenVars == <<at, priv, pub, made, verdicts, moved>>

Whole(file) == file # NoFile /\ file.len = Size
Quiet == \A p \in Proc : at[p] \notin Inside

KeygenInit ==
  /\ at = [p \in Proc |-> "idle"]
  /\ priv = NoFile /\ pub = NoFile
  /\ made = {} /\ verdicts = {} /\ moved = FALSE

Step(p, from, to) == at[p] = from /\ at' = [at EXCEPT ![p] = to]

-----------------------------------------------------------------------------
\* Signer.generate, and mkdir if there is no directory yet.
Generate(p) == Step(p, "idle", "generated") /\ UNCHANGED <<priv, pub, made, verdicts, moved>>

\* Mutant: without O_EXCL.
CreatePrivateOver(p) ==
  /\ Step(p, "generated", "created") /\ priv' = [key |-> p, len |-> 0]
  /\ UNCHANGED <<pub, made, verdicts, moved>>

\* Mutant: an existing private file is kept, and keygen goes on.
CreatePrivateQuietly(p) ==
  /\ IF priv = NoFile
     THEN Step(p, "generated", "created") /\ priv' = [key |-> p, len |-> 0]
     ELSE Step(p, "generated", "written") /\ UNCHANGED priv
  /\ UNCHANGED <<pub, made, verdicts, moved>>

\* _write_private_key: O_CREAT | O_EXCL.
CreatePrivate(p) ==
  /\ IF priv = NoFile
     THEN Step(p, "generated", "created") /\ priv' = [key |-> p, len |-> 0]
     ELSE Step(p, "generated", "refused") /\ UNCHANGED priv
  /\ UNCHANGED <<pub, made, verdicts, moved>>

\* os.write may write less than it is given, and its count is not looked at.
WritePrivate(p) ==
  /\ Step(p, "created", "written")
  /\ \E n \in 1..Size : priv' = [key |-> p, len |-> n]
  /\ UNCHANGED <<pub, made, verdicts, moved>>

\* Path.write_bytes: the file is emptied, then filled.
OpenPublic(p) ==
  /\ Step(p, "written", "opened")
  /\ pub' = [key |-> p, len |-> 0]
  /\ UNCHANGED <<priv, made, verdicts, moved>>

WritePublic(p) ==
  /\ Step(p, "opened", "public")
  /\ pub' = [key |-> p, len |-> Size]
  /\ UNCHANGED <<priv, made, verdicts, moved>>

\* chmod 0644, and exit 0.
Finish(p) == Step(p, "public", "done") /\ UNCHANGED <<priv, pub, made, verdicts, moved>>

Kill(p) ==
  /\ at[p] \in Inside \cup {"generated"}
  /\ at' = [at EXCEPT ![p] = "killed"]
  /\ UNCHANGED <<priv, pub, made, verdicts, moved>>

\* `pin` refuses a seed that is not Size bytes long.
PinCmd ==
  /\ Whole(priv)
  /\ made' = made \cup {priv.key}
  /\ UNCHANGED <<at, priv, pub, verdicts, moved>>

\* `verify-pin` on a pin made earlier. A file that is missing or no key ends in a
\* traceback (exit code 1); another key's signature is code 2.
VerifyPinCmd(k) ==
  LET code == IF ~Whole(pub) THEN 1 ELSE IF pub.key = k THEN 0 ELSE 2 IN
  /\ k \in made
  /\ verdicts' = verdicts \cup {[pin |-> k, code |-> code]}
  /\ UNCHANGED <<at, priv, pub, made, moved>>

\* With nothing running, the operator removes both files of a broken pair.
Clear ==
  /\ Quiet /\ priv # NoFile /\ ~Whole(priv)
  /\ priv' = NoFile /\ pub' = NoFile
  /\ UNCHANGED <<at, made, verdicts, moved>>

\* The operator takes a private file away, to a vault, and leaves the public one.
Move ==
  /\ Quiet /\ Whole(priv)
  /\ priv' = NoFile /\ moved' = TRUE
  /\ UNCHANGED <<at, pub, made, verdicts>>

KeygenNext ==
  \/ \E p \in Proc :
       \/ Generate(p) \/ CreatePrivate(p) \/ WritePrivate(p)
       \/ OpenPublic(p) \/ WritePublic(p) \/ Finish(p) \/ Kill(p)
  \/ PinCmd \/ \E k \in Proc : VerifyPinCmd(k)
  \/ Clear \/ Move

KeygenSpec == KeygenInit /\ [][KeygenNext]_keygenVars

-----------------------------------------------------------------------------
\* Types, and at most one keygen at a time is past the creation of the private file.
KeygenTypeOK ==
  /\ at \in [Proc -> Place]
  /\ priv \in Content \cup {NoFile} /\ pub \in Content \cup {NoFile}
  /\ made \subseteq Proc
  /\ verdicts \subseteq [pin : Proc, code : 0..2]
  /\ \A p, q \in Proc : at[p] \in Inside /\ at[q] \in Inside => p = q

\* While no keygen is at work and no private file has been taken away, two whole
\* files in the directory are one key pair: whichever processes raced, were refused
\* or were killed.
PairMatches == ~moved /\ Quiet /\ Whole(priv) /\ Whole(pub) => priv.key = pub.key

\* A keygen that ended well leaves its own pair, even where older private files have
\* been taken away and older public ones have not.
DonePairMatches ==
  \A p \in Proc :
    Quiet /\ at[p] = "done" /\ priv # NoFile /\ priv.key = p => pub = [key |-> p, len |-> Size]

\* A pin that `pin` made is not refused by `verify-pin` with the public file of the
\* directory, unless a private file was moved: at worst the public file is not there yet.
OwnPinNotRefused == ~moved => \A v \in verdicts : v.code # 2

\* cli.py:60, "overwriting key material is almost always a bug, and a fresh keygen
\* against a populated directory should fail loudly": while both files are left where
\* they are, no keygen replaces a key. (O_EXCL guards the private file only: once that
\* is in a vault, the next keygen replaces the public one.)
NoKeyReplaced ==
  [][~moved' =>
       /\ Whole(pub) /\ pub' # NoFile => pub'.key = pub.key
       /\ Whole(priv) /\ priv' # NoFile => priv'.key = priv.key]_keygenVars
=============================================================================
