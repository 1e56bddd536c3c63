---------------------------- MODULE WalkContract ----------------------------
(***************************************************************************)
(* What a consumer of BaseAdapter.iter_records (the audit loop, a pinning  *)
(* pass) counts on, with no page, cursor or offset in it: rows are taken   *)
(* as they are in the collection at the moment they are read, an id is     *)
(* taken once, and the walk ends only when every id that was there since   *)
(* it began has been taken.  A walk that raises promises nothing more.     *)
(***************************************************************************)
CONSTANTS
  Id,   \* record ids
  Row,  \* what a record can be
  None  \* no record under this id

VARIABLES
  store,  \* store[i] : the row under i, or None
  phase,  \* "idle", "walking", "ended", "raised"
  taken,  \* the rows read so far: taken[i] is a Row, or None
  left    \* ids present since the walk began and not taken

vars == <<store, phase, taken, left>>

Present(s) == {i \in Id : s[i] # None}

Init ==
  /\ store \in [Id -> Row \cup {None}]
  /\ phase = "idle"
  /\ taken = [i \in Id |-> None]
  /\ left = {}

Change ==
  /\ store' \in [Id -> Row \cup {None}]
  /\ left' = left \cap Present(store')
  /\ UNCHANGED <<phase, taken>>

Begin ==
  /\ phase # "walking"
  /\ phase' = "walking"
  /\ taken' = [i \in Id |-> None]
  /\ left' = Present(store)
  /\ UNCHANGED store

Take(S) ==
  /\ phase = "walking"
  /\ S \subseteq Present(store)
  /\ \A i \in S : taken[i] = None
  /\ taken' = [i \in Id |-> IF i \in S THEN store[i] ELSE taken[i]]
  /\ left' = left \ S
  /\ UNCHANGED <<store, phase>>

End ==
  /\ phase = "walking" /\ left = {}
  /\ phase' = "ended"
  /\ UNCHANGED <<store, taken, left>>

Raise ==
  /\ phase = "walking"
  /\ phase' = "raised"
  /\ UNCHANGED <<store, taken, left>>

Next ==
  \/ Change \/ Begin \/ End \/ Raise
  \/ \E S \in SUBSET Id : Take(S)

Spec == Init /\ [][Next]_vars
=============================================================================
