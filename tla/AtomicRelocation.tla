-------------------------- MODULE AtomicRelocation --------------------------
(***************************************************************************)
(* What the journaled refactoring promises: the vault goes from before to  *)
(* after in one step, or stays as it was.  Only a user who discards a      *)
(* pending journal, and with it the backups, can keep part of a change.    *)
(*                                                                         *)
(* vault is not what a reader of the directory sees in the middle of an    *)
(* operation but what recovery would leave there.                          *)
(***************************************************************************)
EXTENDS Integers

CONSTANTS Notes, Src, Dest, Absent, Torn, MaxEdits

VARIABLES
  vault,    \* path -> bytes
  gaveUp    \* the user has discarded a pending journal

vars == <<vault, gaveUp>>

Paths == Notes \cup {Dest}

Rewritten(b) == [b EXCEPT !.links = "new"]

LinksHere(n) == vault[n] # Absent /\ vault[n].links = "old"

\* The vault with the notes of W rewritten and, if moved, the note at Dest.
Image(W, moved) ==
  LET text(n) == IF n \in W THEN Rewritten(vault[n]) ELSE vault[n]
  IN  [p \in Paths |->
         IF p = Dest THEN IF moved THEN text(Src) ELSE vault[Dest]
         ELSE IF p = Src /\ moved THEN Absent ELSE text(p)]

Movable == vault[Src] # Absent /\ vault[Dest] = Absent

Init ==
  /\ vault \in [Paths -> [ed : {0}, links : {"old", "none"}] \cup {Absent}]
  /\ \A n \in Notes : vault[n] # Absent
  /\ vault[Dest] = Absent
  /\ gaveUp = FALSE

Relocate ==
  /\ Movable
  /\ vault' = Image({n \in Notes : LinksHere(n)}, TRUE)
  /\ UNCHANGED gaveUp

Trash ==
  /\ Movable
  /\ vault' = Image({}, TRUE)
  /\ UNCHANGED gaveUp

GiveUp ==
  /\ gaveUp' = TRUE
  /\ \/ UNCHANGED vault
     \/ /\ Movable
        /\ \E W \in SUBSET {n \in Notes : LinksHere(n)}, moved \in BOOLEAN :
             vault' = Image(W, moved)

Next == Relocate \/ Trash \/ GiveUp

Spec == Init /\ [][Next]_vars

=============================================================================
