-------------------------------- MODULE MCAudit --------------------------------
(* Constants of Audit for TLC: the command lines in use. *)
EXTENDS Audit, TLC

Opt(t, m, w, c) == [tolerant |-> t, manifest |-> m, write |-> w, expected |-> c,
                    key |-> "mk"]
AuditorSymmetry == Permutations(Auditor)

\* ingestion writes the manifest; later audits check it, strictly or not.
MCOptions == {Opt(TRUE, FALSE, TRUE, None), Opt(FALSE, TRUE, FALSE, "docs"),
              Opt(TRUE, TRUE, FALSE, None)}
\* two jobs on one manifest path: one checks the manifest and writes the new one,
\* one checks it under the collection's name; others write it under another name
\* or with a key the audits do not know.
MCOptionsPair == {Opt(FALSE, TRUE, TRUE, None), Opt(FALSE, TRUE, FALSE, "docs"),
  Opt(FALSE, FALSE, TRUE, "other"), [Opt(FALSE, FALSE, TRUE, "docs") EXCEPT !.key = "old"]}
=============================================================================
