----------------------------- MODULE MCJournals -----------------------------
(* Two refactorings beside each other and a doctor or a command that writes   *)
(* one note, or one of them beside a second doctor and either.                *)
EXTENDS Journals, TLC

CONSTANTS p, q, r, n, m

MCProcs == {p, q, r}
MCCommands == (p :> {"refactor"})
              @@ (q :> {"refactor", "rollback", "discard"})
              @@ (r :> {"rollback", "write"})
MCNotes == {n, m}
MCHits == (p :> {n, m}) @@ (q :> {n}) @@ (r :> {n})
=============================================================================
