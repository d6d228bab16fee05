------------------------- MODULE RelocateRefinement -------------------------
(***************************************************************************)
(* The journaled refactoring implements the atomic one, where processes    *)
(* die and statements raise but nobody else writes: the vault is taken to  *)
(* be what `doctor --rollback` would make of the disk and the journal.     *)
(***************************************************************************)
EXTENDS Relocate

\* A restore in progress will end with the backup in place.
Settling ==
  IF run.pc = "restoring"
  THEN [disk EXCEPT ![run.cur] = journal.bak[run.cur]] ELSE disk

MovedHome ==
  IF Settling[Dest] # Absent /\ Settling[Src] = Absent
  THEN [Settling EXCEPT ![Src] = Settling[Dest], ![Dest] = Absent]
  ELSE Settling

\* Whether rollback would put back the backup of a file with bytes b.
Restorable(n, b) ==
  /\ n \in journal.files
  /\ b # journal.sha[n]
  /\ journal.logged =>
       journal.log[n] # Absent /\ (b = Absent \/ b = journal.log[n])

\* A journal without a manifest restores nothing, and one that is being
\* removed is settled.
InForce == journal.dir /\ journal.phase # "none" /\ run.pc # "clean"

Recovered ==
  IF InForce
  THEN [p \in Paths |->
          IF p \in Notes /\ Restorable(p, MovedHome[p])
          THEN journal.bak[p] ELSE MovedHome[p]]
  ELSE disk

Atomic == INSTANCE AtomicRelocation
            WITH vault <- Recovered, gaveUp <- hist.gaveUp

\* Every step of the code is a step of the atomic refactoring or leaves what
\* recovery would find unchanged: there is no moment, crash, error or retry
\* at which the journal stands for anything but all or nothing.
RefactoringIsAtomic == Atomic!Spec

-----------------------------------------------------------------------------
(* Fairness: a running process takes its next step; a user who finds the   *)
(* vault's writes blocked, however often the refused command is tried      *)
(* again in between, runs the doctor the refusal names, and discards where *)
(* the doctor's own message says so.                                       *)

DiscardAdvised == report = "no-manifest" /\ DoctorDiscard

FairSpec ==
  Spec /\ WF_vars(Step) /\ SF_vars(DoctorRollback) /\ SF_vars(DiscardAdvised)

\* Once processes stop dying, a pending journal does not block the vault's
\* writes for ever: the doctor and its advice always get rid of it.
Unwedged == <>[][~Kill]_vars => [](journal.dir => <>~journal.dir)

=============================================================================
