--------------------------- MODULE RelocateProofs ---------------------------
(***************************************************************************)
(* Proofs about the journaled refactoring, for every vault, every set of   *)
(* faults and every bound: the inductive invariant of RelocateInvariant    *)
(* and what follows from it; what a rollback spares, what "applied" and    *)
(* "rolled-back" mean for the vault, and why a rollback stops.  At the     *)
(* end, that it implements the atomic one, for every vault and any number  *)
(* of operations, where statements raise and processes die between two     *)
(* statements, but nobody else writes and no copy, cleanup, append or move *)
(* back is cut off.                                                        *)
(***************************************************************************)
EXTENDS RelocateInvariant, RelocateRefinement, TLAPS

USE DEF Paths, Links, Text, Bytes, Entries, Phases

LEMMA RewriteType ==
  ASSUME NEW b, LinksOf(b) = "old"
  PROVE  Rewrite(b) \in Text
BY DEF LinksOf, Rewrite

LEMMA LossType ==
  ASSUME NEW old, NEW new, NEW how \in Hows
  PROVE  Loss(old, new, how) \subseteq Losses
BY BoundsAssumption DEF Loss, Losses

LEMMA InitType == Init => TypeOK
<1> SUFFICES ASSUME Init PROVE TypeOK
  OBVIOUS
<1>1. disk \in [Paths -> Bytes \cup {Absent}]
  BY BoundsAssumption DEF Init
<1>2. journal \in Journals
  BY DEF Init, Journals, NoJournal, NoEntries
<1>3. run \in Runs
  BY NotesAssumption DEF Init, Runs, Idle, NoEntries, PCs, Ops, Endings
<1>4. hist \in Histories
  BY <1>1 DEF Init, Histories, NothingYet
<1> QED
  BY <1>1, <1>2, <1>3, <1>4, BoundsAssumption
  DEF Init, TypeOK, Reports, Endings

LEMMA IdleType == Idle \in Runs
BY NotesAssumption DEF Runs, Idle, NoEntries, PCs, Ops, Endings

LEMMA ExitType ==
  ASSUME NEW r \in Reports, Exit(r)
  PROVE  run' \in Runs /\ report' \in Reports
BY IdleType DEF Exit

LEMMA RememberedType ==
  ASSUME TypeOK
  PROVE  Remembered \in Runs
BY IdleType DEF TypeOK, Remembered, Runs

LEMMA MovedBackType ==
  ASSUME TypeOK, MovedBack
  PROVE  disk' \in [Paths -> Bytes \cup {Absent}] /\ hist' \in Histories
BY DEF TypeOK, MovedBack, MoveBack, Histories

LEMMA BeginClassifyType ==
  ASSUME TypeOK, NEW L \in SUBSET Notes, BeginClassify(L)
  PROVE  run' \in Runs
<1>1. (IF run.op = "relocate" THEN run.mem ELSE journal.log) \in Entries
  BY DEF TypeOK, Runs, Journals
<1>2. (run.op = "relocate" \/ journal.logged) \in BOOLEAN
  OBVIOUS
<1>3. journal.files \in SUBSET Notes /\ "classify" \in PCs
  BY DEF TypeOK, Journals, PCs
<1> QED
  BY <1>1, <1>2, <1>3 DEF TypeOK, BeginClassify, Runs

LEMMA TypeStep == TypeOK /\ [Next]_vars => TypeOK'
<1> SUFFICES ASSUME TypeOK, [Next]_vars PROVE TypeOK'
  OBVIOUS
<1> USE DEF TypeOK
<1>1. ASSUME NEW op \in {"relocate", "trash"}, Plan(op) PROVE TypeOK'
  <2>1. run' \in Runs
    <3> DEFINE H == IF op = "trash" THEN {}
                    ELSE {n \in Notes : LinksOf(disk[n]) = "old"}
    <3>1. H \in SUBSET Notes /\ "planned" \in PCs /\ op \in Ops
      BY DEF PCs, Ops
    <3>2. run' = [run EXCEPT !.pc = "planned", !.op = op, !.hits = H]
      BY <1>1 DEF Plan
    <3> HIDE DEF H
    <3> QED
      BY <3>1, <3>2 DEF Runs
  <2>2. hist' \in Histories
    BY <1>1 DEF Plan, Afresh, Histories
  <2> QED
    BY <1>1, <2>1, <2>2 DEF Plan, Reports, Endings
<1>2. CASE DirtyGate
  BY <1>2, ExitType DEF DirtyGate, Reports
<1>3. CASE MakeJournal
  <2>1. cmds' \in 0 .. MaxCmds
    BY <1>3, BoundsAssumption DEF MakeJournal
  <2>2. journal' \in Journals
    BY <1>3 DEF MakeJournal, NoJournal, NoEntries, Journals
  <2>3. run' \in Runs
    BY <1>3, NotesAssumption DEF MakeJournal, Targets, Runs, PCs
  <2> QED
    BY <1>3, <2>1, <2>2, <2>3 DEF MakeJournal
<1>4. ASSUME NEW n \in Notes, CopyBackup(n) PROVE TypeOK'
  BY <1>4 DEF CopyBackup, Exists, Journals, Runs, PCs
<1>5. CASE HashOriginal
  <2>1. journal' \in Journals
    BY <1>5 DEF HashOriginal, Exists, Journals, Runs
  <2>2. run' \in Runs
    <3> DEFINE rest == run.todo \ {run.cur}
               next == IF rest = {} THEN "manifest" ELSE "copy"
    <3>1. rest \in SUBSET Notes /\ next \in PCs
      BY DEF Runs, PCs
    <3>2. run' = [run EXCEPT !.todo = rest, !.pc = next]
      BY <1>5 DEF HashOriginal
    <3> HIDE DEF rest, next
    <3> QED
      BY <3>1, <3>2 DEF Runs
  <2> QED
    BY <1>5, <2>1, <2>2 DEF HashOriginal
<1>6. CASE WriteManifest
  <2>1. journal' \in Journals
    BY <1>6, NotesAssumption DEF WriteManifest, Targets, Journals, Runs
  <2>2. run' \in Runs
    <3> DEFINE next == IF run.hits = {} THEN "renaming" ELSE "read"
    <3>1. run.hits \in SUBSET Notes /\ next \in PCs
      BY DEF Runs, PCs
    <3>2. run' = [run EXCEPT !.todo = run.hits, !.pc = next]
      BY <1>6 DEF WriteManifest
    <3> HIDE DEF next
    <3> QED
      BY <3>1, <3>2 DEF Runs
  <2> QED
    BY <1>6, <2>1, <2>2 DEF WriteManifest
<1>7. ASSUME NEW n \in Notes, ReadAndRewrite(n) PROVE TypeOK'
  <2> DEFINE rest == run.todo \ {n}
             todo == IF rest = {} THEN run.hits ELSE rest
             next == IF rest = {} THEN "log" ELSE "read"
             text == [run.text EXCEPT ![n] = Rewrite(disk[n])]
  <2>1. todo \in SUBSET Notes /\ next \in PCs
    BY DEF Runs, PCs
  <2>2. text \in Entries
    BY <1>7, RewriteType DEF ReadAndRewrite, Runs
  <2>3. run' = [run EXCEPT !.text = text, !.todo = todo, !.pc = next]
    BY <1>7 DEF ReadAndRewrite
  <2> HIDE DEF todo, next, text
  <2>4. run' \in Runs
    BY <2>1, <2>2, <2>3 DEF Runs
  <2> QED
    BY <1>7, <2>4 DEF ReadAndRewrite
<1>8. ASSUME NEW n \in Notes, LogIntent(n) PROVE TypeOK'
  BY <1>8 DEF LogIntent, Journals, Runs, PCs
<1>9. ASSUME NEW n \in Notes, LogIntentFails(n) PROVE TypeOK'
  BY <1>9 DEF LogIntentFails, Histories, Runs, PCs
<1>10. CASE WriteNote
  <2>1. disk' \in [Paths -> Bytes \cup {Absent}]
    BY <1>10 DEF WriteNote, Runs
  <2>2. run' \in Runs
    BY <1>10 DEF WriteNote, Runs, PCs
  <2>3. hist' \in Histories
    <3>1. Loss(disk[run.cur], run.text[run.cur], "apply") \subseteq Losses
      BY LossType DEF Hows
    <3> QED
      BY <1>10, <3>1 DEF WriteNote, Histories, Runs
  <2> QED
    BY <1>10, <2>1, <2>2, <2>3 DEF WriteNote
<1>11. CASE RecordWritten
  <2> DEFINE rest == run.todo \ {run.cur}
             next == IF rest = {} THEN "renaming" ELSE "log"
             mem  == [run.mem EXCEPT ![run.cur] = run.text[run.cur]]
  <2>1. rest \in SUBSET Notes /\ next \in PCs /\ mem \in Entries
    BY DEF Runs, PCs
  <2>2. run' = [run EXCEPT !.mem = mem, !.todo = rest, !.pc = next]
    BY <1>11 DEF RecordWritten
  <2> HIDE DEF rest, next, mem
  <2>3. run' \in Runs
    BY <2>1, <2>2 DEF Runs
  <2> QED
    BY <1>11, <2>3 DEF RecordWritten
<1>12. CASE PhaseRenaming
  BY <1>12 DEF PhaseRenaming, Journals, Runs, PCs
<1>13. CASE RenameNote
  BY <1>13, LossType, NotesAssumption
  DEF RenameNote, Histories, Runs, PCs, Hows
<1>14. CASE FlagRenamed
  BY <1>14 DEF FlagRenamed, Runs, PCs
<1>15. CASE PhaseRenamed
  <2>1. journal' \in Journals
    BY <1>15 DEF PhaseRenamed, Journals
  <2>2. run' \in Runs
    <3>1. ASSUME Commit("trashed") PROVE run' \in Runs
      BY <3>1, RememberedType DEF Commit, Runs, PCs, Endings
    <3>2. ASSUME run' = [run EXCEPT !.pc = "verify"] PROVE run' \in Runs
      BY <3>2 DEF Runs, PCs
    <3> QED
      BY <1>15, <3>1, <3>2 DEF PhaseRenamed
  <2>3. hist' \in Histories
    BY <1>15 DEF PhaseRenamed, Commit, Histories
  <2> QED
    BY <1>15, <2>1, <2>2, <2>3 DEF PhaseRenamed
<1>16. CASE Verify
  BY <1>16, RememberedType
  DEF Verify, Commit, Histories, Runs, PCs, Endings
<1>17. CASE RemoveEntry
  <2>1. ASSUME NEW n \in Notes, journal' = [journal EXCEPT !.bak[n] = Absent]
        PROVE  journal' \in Journals
    BY <2>1 DEF Journals
  <2>2. ASSUME journal' = [journal EXCEPT !.phase = "none", !.files = {},
                             !.sha = NoEntries]
        PROVE  journal' \in Journals
    BY <2>2 DEF NoEntries, Journals
  <2>3. ASSUME journal' = [journal EXCEPT !.logged = FALSE, !.log = NoEntries]
        PROVE  journal' \in Journals
    BY <2>3 DEF NoEntries, Journals
  <2> QED
    BY <1>17, <2>1, <2>2, <2>3 DEF RemoveEntry
<1>18. CASE RemoveDirectory
  BY <1>18, ExitType
  DEF RemoveDirectory, NoJournal, NoEntries, Journals, Runs, Reports
<1>19. CASE StatementRaises
  BY <1>19, RememberedType DEF StatementRaises, ToHandler, Runs, PCs
<1>20. CASE SetupFails
  BY <1>20, ExitType DEF SetupFails, Reports
<1>21. CASE HandlerMovesBack
  BY <1>21, MovedBackType DEF HandlerMovesBack, Runs, PCs
<1>22. CASE HandlerMoveFails
  BY <1>22, ExitType DEF HandlerMoveFails, Reports
<1>23. CASE NoManifest
  BY <1>23, ExitType DEF NoManifest, Reports
<1>24. CASE RollbackMovesBack
  BY <1>24, MovedBackType, BeginClassifyType DEF RollbackMovesBack
<1>25. CASE RollbackMoveFails
  BY <1>25, NotesAssumption, BeginClassifyType
  DEF RollbackMoveFails, Histories
<1>26. ASSUME NEW n \in Notes, LeaveNote(n) PROVE TypeOK'
  BY <1>26 DEF LeaveNote, Histories, Runs
<1>27. ASSUME NEW n \in Notes, ReportForeign(n) PROVE TypeOK'
  BY <1>27 DEF ReportForeign, Runs
<1>28. ASSUME NEW n \in Notes, ChooseRestore(n) PROVE TypeOK'
  BY <1>28 DEF ChooseRestore, Runs, PCs
<1>29. CASE TruncateNote
  BY <1>29, LossType, SMTT(30)
  DEF TruncateNote, RestoreHow, Histories, Runs, PCs, Hows
<1>30. CASE BackupMissing
  BY <1>30, ExitType DEF BackupMissing, Reports
<1>31. CASE FillNote
  <2>1. disk' \in [Paths -> Bytes \cup {Absent}]
    BY <1>31 DEF FillNote, Exists, Journals, Runs
  <2>2. run' \in Runs
    BY <1>31 DEF FillNote, Runs, PCs
  <2>3. hist' \in Histories
    <3>1. Loss(disk[run.cur], journal.bak[run.cur], RestoreHow)
            \subseteq Losses
      BY LossType DEF RestoreHow, Hows
    <3>2. hist'.lost \subseteq hist.lost \cup Losses
          /\ hist' = [hist EXCEPT !.dirty = @ \ {run.cur}, !.lost = hist'.lost]
      BY <1>31, <3>1 DEF FillNote, Histories
    <3> QED
      BY <3>2 DEF Histories
  <2> QED
    BY <1>31, <2>1, <2>2, <2>3 DEF FillNote
<1>32. CASE EndRollback
  <2>1. CASE Exit("traceback") \/ Exit("conflict")
    BY <1>32, <2>1, ExitType DEF EndRollback, Reports
  <2>2. CASE /\ run' = [Idle EXCEPT !.op = run.op, !.pc = "clean",
                           !.ending = "rolled-back"]
             /\ UNCHANGED report
    <3>1. run' \in Runs
      BY <2>2, IdleType DEF Runs, PCs, Endings
    <3> QED
      BY <1>32, <2>2, <3>1 DEF EndRollback
  <2> QED
    BY <1>32, <2>1, <2>2 DEF EndRollback
<1>33. CASE DoctorRollback
  <2>1. run' \in Runs
    BY <1>33 DEF DoctorRollback, Runs, PCs, Ops
  <2> QED
    BY <1>33, <2>1 DEF DoctorRollback, Reports, Endings
<1>34. CASE DoctorDiscard
  <2>1. run' \in Runs
    BY <1>34 DEF DoctorDiscard, Runs, PCs, Ops, Endings
  <2>2. hist' \in Histories
    BY <1>34 DEF DoctorDiscard, Histories
  <2> QED
    BY <1>34, <2>1, <2>2 DEF DoctorDiscard, Reports, Endings
<1>35. CASE Interrupted
  <2>1. run' \in Runs
    BY <1>35, RememberedType DEF Interrupted, ToHandler, Runs, PCs
  <2>2. hist' \in Histories
    BY <1>35 DEF Interrupted, Histories, Runs
  <2> QED
    BY <1>35, <2>1, <2>2 DEF Interrupted
<1>36. CASE Kill
  <2>1. journal' \in Journals
    BY <1>36 DEF Kill, Journals
  <2>2. hist' \in Histories
    <3> DEFINE c == hist.cut \/ run.pc = "restoring"
    <3>1. c \in BOOLEAN
      OBVIOUS
    <3>2. hist' = [hist EXCEPT !.cut = c]
      BY <1>36 DEF Kill
    <3> HIDE DEF c
    <3> QED
      BY <3>1, <3>2 DEF Histories
  <2> QED
    BY <1>36, <2>1, <2>2, ExitType DEF Kill, Reports, Endings
<1>37. ASSUME NEW ps \in SUBSET Paths, NEW moved, External(ps, moved)
       PROVE  /\ edits' \in 0 .. MaxEdits /\ edits + 1 \in 1 .. MaxEdits
              /\ hist' \in Histories
              /\ UNCHANGED <<journal, run, report, cmds>>
  <2>1. edits' \in 0 .. MaxEdits /\ edits + 1 \in 1 .. MaxEdits
    BY <1>37, BoundsAssumption DEF External
  <2>2. hist' \in Histories
    <3> DEFINE D == hist.dirty \ UNION {Settled(p) : p \in ps}
               O == IF Busy THEN hist.offline \ moved ELSE hist.offline \cup {edits + 1}
    <3>1. D \in SUBSET Paths /\ O \in SUBSET (1 .. MaxEdits)
      BY <2>1 DEF Histories
    <3>2. hist' = [hist EXCEPT !.edited = @ \cup ps, !.dirty = D, !.offline = O]
      BY <1>37 DEF External
    <3> HIDE DEF D, O
    <3> QED
      BY <3>1, <3>2 DEF Histories
  <2> QED
    BY <1>37, <2>1, <2>2 DEF External
<1>38. ASSUME NEW p \in Paths, NEW l \in {"old", "none"}, EditorSaves(p, l)
       PROVE  TypeOK'
  <2>1. External({p}, {})
    BY <1>38 DEF EditorSaves
  <2> QED
    BY <2>1, <1>37, <1>38, BoundsAssumption DEF EditorSaves
<1>39. ASSUME NEW p \in Paths, EditorDeletes(p) PROVE TypeOK'
  BY <1>37, <1>39 DEF EditorDeletes
<1>40. ASSUME NEW p \in Paths, NEW q \in Paths, EditorRenames(p, q)
       PROVE  TypeOK'
  BY <1>37, <1>40 DEF EditorRenames
<1>41. CASE UNCHANGED vars
  BY <1>41 DEF vars
<1> QED
  BY <1>1, <1>2, <1>3, <1>4, <1>5, <1>6, <1>7, <1>8, <1>9, <1>10, <1>11,
     <1>12, <1>13, <1>14, <1>15, <1>16, <1>17, <1>18, <1>19, <1>20, <1>21,
     <1>22, <1>23, <1>24, <1>25, <1>26, <1>27, <1>28, <1>29, <1>30, <1>31,
     <1>32, <1>33, <1>34, <1>35, <1>36, <1>38, <1>39, <1>40, <1>41
  DEF Next, Step, User, Editor

\* Every variable keeps its type.
THEOREM TypeCorrect == Spec => []TypeOK
BY InitType, TypeStep, PTL DEF Spec

(* Lemmas about the steps that disturb several parts of the invariant. *)

LEMMA PlanInv ==
  ASSUME TypeOK, Inv, NEW op \in {"relocate", "trash"}, Plan(op)
  PROVE  Inv'
<1>1. /\ run'.pc = "planned" /\ run'.op = op
      /\ op = "trash" => run'.hits = {}
      /\ report' = "none" /\ Exists(Src) /\ ~Exists(Dest)
      /\ UNCHANGED <<disk, journal>>
  BY DEF Plan, TypeOK, Runs
<1>2. CASE journal.dir
  <2>1. hist' = hist
    BY <1>2 DEF Plan
  <2>2. RecoveryPossible'
    BY <1>1, <2>1 DEF Inv, RecoveryPossible, Undoable
  <2> QED
    BY <1>1, <2>1, <2>2
    DEF Inv, Owed, Unmoved, Settlement, InTry, TrashRewritesNothing, Prepared,
        Covered, Composed, Remembers, MoveVisible, Accounted, Closed, Home,
        Exists, AtDest
<1>3. CASE ~journal.dir
  <2>1. hist'.dirty = {} /\ Owed' = {}
    BY <1>3 DEF Plan, Afresh, TypeOK, Histories, Owed
  <2>2. RecoveryPossible'
    BY <2>1 DEF RecoveryPossible
  <2> QED
    BY <1>1, <2>1, <2>2
    DEF Inv, Settlement, InTry, TrashRewritesNothing, Prepared,
        Covered, Composed, Remembers, MoveVisible, Accounted, Closed, Home,
        Exists
<1> QED
  BY <1>2, <1>3

LEMMA HashOriginalInv ==
  ASSUME TypeOK, Inv, HashOriginal
  PROVE  Inv'
<1>1. /\ run.pc = "hash"
      /\ run'.pc = IF run.todo \ {run.cur} = {} THEN "manifest" ELSE "copy"
      /\ run'.todo = run.todo \ {run.cur}
      /\ run'.op = run.op /\ run'.hits = run.hits
      /\ run'.classify = run.classify
      /\ UNCHANGED <<disk, report, hist>>
  BY DEF HashOriginal, TypeOK, Runs
<1>2. /\ journal'.dir = journal.dir /\ journal'.bak = journal.bak
      /\ journal'.phase = journal.phase /\ journal'.files = journal.files
      /\ journal'.logged = journal.logged /\ journal'.log = journal.log
  BY DEF HashOriginal, TypeOK, Journals
<1>3. Prepared'
  BY <1>1, <1>2 DEF Inv, Prepared, Targets
<1>4. RecoveryPossible'
  BY <1>1, <1>2 DEF Inv, RecoveryPossible, Undoable
<1>5. Home' /\ MoveVisible'
  BY <1>1 DEF Inv, Home, MoveVisible, Owed, Unmoved, Settlement, Exists, AtDest
<1> QED
  BY <1>1, <1>2, <1>3, <1>4, <1>5
  DEF Inv, Owed, Settlement, InTry, TrashRewritesNothing, Covered, Composed,
      Remembers, Accounted, Closed, Busy

LEMMA WriteManifestInv ==
  ASSUME TypeOK, Inv, WriteManifest
  PROVE  Inv'
<1>1. /\ run.pc = "manifest"
      /\ run'.pc = IF run.hits = {} THEN "renaming" ELSE "read"
      /\ run'.todo = run.hits /\ run'.op = run.op /\ run'.hits = run.hits
      /\ UNCHANGED <<disk, report, hist>>
  BY DEF WriteManifest, TypeOK, Runs
<1>2. /\ journal'.dir = journal.dir /\ journal'.bak = journal.bak
      /\ journal'.phase = "prepare" /\ journal'.files = Targets
  BY DEF WriteManifest, TypeOK, Journals
<1>3. Owed = {} /\ Owed' = {}
  BY <1>1 DEF Inv, Prepared, RecoveryPossible, Undoable, Owed, TypeOK,
              Histories
<1>4. Covered'
  BY <1>1, <1>2 DEF Inv, Covered, Prepared, Targets, TrashRewritesNothing
<1>5. RecoveryPossible'
  BY <1>3 DEF RecoveryPossible, Owed
<1>6. Home' /\ MoveVisible'
  BY <1>1, <1>3 DEF Inv, Home, MoveVisible, Unmoved, Settlement, Exists
<1>7. Composed' /\ TrashRewritesNothing'
  BY <1>1 DEF Inv, Composed, TrashRewritesNothing
<1> QED
  BY <1>1, <1>3, <1>4, <1>5, <1>6, <1>7
  DEF Inv, Settlement, Prepared, Remembers, Accounted, Closed, Busy

LEMMA ReadAndRewriteInv ==
  ASSUME TypeOK, Inv, NEW n \in Notes, ReadAndRewrite(n)
  PROVE  Inv'
<1>1. /\ run.pc = "read" /\ n \in run.todo
      /\ run'.pc = IF run.todo \ {n} = {} THEN "log" ELSE "read"
      /\ run'.todo = IF run.todo \ {n} = {} THEN run.hits ELSE run.todo \ {n}
      /\ run'.op = run.op /\ run'.hits = run.hits /\ run'.mem = run.mem
      /\ UNCHANGED <<disk, journal, report, hist>>
  BY DEF ReadAndRewrite, TypeOK, Runs
<1>2. /\ run'.text[n] # Absent
      /\ \A k \in Notes \ {n} : run'.text[k] = run.text[k]
  BY RewriteType, SentinelAssumption DEF ReadAndRewrite, TypeOK, Runs
<1>3. Composed'
  <2>1. run.hits \subseteq Notes /\ run.todo \subseteq run.hits
        /\ \A k \in run.hits \ run.todo : run.text[k] # Absent
    BY <1>1 DEF Inv, Composed, TypeOK, Runs
  <2>2. \A k \in run.hits \ (run.todo \ {n}) : run'.text[k] # Absent
    BY <1>2, <2>1
  <2> QED
    BY <1>1, <2>1, <2>2 DEF Composed
<1>4. RecoveryPossible'
  BY <1>1 DEF Inv, RecoveryPossible, Undoable
<1>5. Home' /\ MoveVisible' /\ Covered'
  BY <1>1
  DEF Inv, Home, MoveVisible, Covered, Owed, Unmoved, Settlement, Exists,
      AtDest, InTry
<1>6. Remembers'
  BY <1>1 DEF Inv, Remembers, Owed, InTry, Settlement
<1> QED
  BY <1>1, <1>3, <1>4, <1>5, <1>6
  DEF Inv, Owed, Settlement, TrashRewritesNothing, Prepared, Accounted,
      Closed, Busy

LEMMA RecordWrittenInv ==
  ASSUME TypeOK, Inv, RecordWritten
  PROVE  Inv'
<1>1. /\ run.pc = "record"
      /\ run'.pc = IF run.todo \ {run.cur} = {} THEN "renaming" ELSE "log"
      /\ run'.todo = run.todo \ {run.cur}
      /\ run'.op = run.op /\ run'.hits = run.hits /\ run'.text = run.text
      /\ UNCHANGED <<disk, journal, report, hist>>
  BY DEF RecordWritten, TypeOK, Runs
<1>2. /\ run.cur \in Notes /\ run.text[run.cur] # Absent
      /\ run'.mem[run.cur] = run.text[run.cur]
      /\ \A k \in Notes \ {run.cur} : run'.mem[k] = run.mem[k]
  BY <1>1 DEF RecordWritten, Inv, Composed, TypeOK, Runs
<1>3. Remembers'
  <2>1. ASSUME run.op = "relocate", NEW k \in Owed \cap Notes
        PROVE  run'.mem[k] # Absent
    BY <1>1, <1>2, <2>1 DEF Inv, Remembers, InTry
  <2> QED
    BY <1>1, <2>1 DEF Remembers, Owed, Settlement
<1>4. RecoveryPossible'
  BY <1>1 DEF Inv, RecoveryPossible, Undoable
<1>5. Home' /\ MoveVisible' /\ Covered'
  BY <1>1
  DEF Inv, Home, MoveVisible, Covered, Owed, Unmoved, Settlement, Exists,
      AtDest, InTry
<1> QED
  BY <1>1, <1>3, <1>4, <1>5
  DEF Inv, Owed, Settlement, TrashRewritesNothing, Prepared, Composed,
      Accounted, Closed, Busy

LEMMA PhaseRenamedInv ==
  ASSUME TypeOK, Inv, PhaseRenamed
  PROVE  Inv'
<1>1. /\ run.pc = "renamed" /\ UNCHANGED <<disk, report>>
      /\ journal' = [journal EXCEPT !.phase = "renamed"]
  BY DEF PhaseRenamed
<1>2. /\ journal'.dir = journal.dir /\ journal'.bak = journal.bak
      /\ journal'.phase = "renamed" /\ journal'.files = journal.files
      /\ journal'.logged = journal.logged /\ journal'.log = journal.log
  BY <1>1 DEF TypeOK, Journals
<1>3. CASE Commit("trashed")
  <2>1. /\ run'.pc = "clean" /\ run'.hits = {}
        /\ hist'.dirty = {} /\ hist'.escaped = hist.escaped
        /\ hist'.edited = hist.edited
    BY <1>3 DEF Commit, Remembered, Idle, TypeOK, Histories
  <2>2. Owed' = {}
    BY <2>1 DEF Owed
  <2>3. RecoveryPossible' /\ MoveVisible' /\ TrashRewritesNothing'
    BY <2>1, <2>2 DEF RecoveryPossible, MoveVisible, TrashRewritesNothing
  <2>4. Home'
    BY <1>1, <2>1 DEF Inv, Home, Unmoved, Settlement, Exists
  <2> QED
    BY <1>1, <2>1, <2>2, <2>3, <2>4
    DEF Inv, Prepared, Covered, Composed, Remembers, Accounted, Closed,
        Settlement, InTry, Busy
<1>4. CASE run' = [run EXCEPT !.pc = "verify"] /\ UNCHANGED hist
  <2>1. /\ run'.pc = "verify" /\ run'.hits = run.hits /\ run'.op = run.op
        /\ run'.mem = run.mem /\ UNCHANGED hist
    BY <1>4 DEF TypeOK, Runs
  <2>2. RecoveryPossible'
    BY <1>2, <2>1 DEF Inv, RecoveryPossible, Undoable
  <2>3. Covered'
    BY <1>1, <1>2, <2>1 DEF Inv, Covered, InTry
  <2>4. Remembers'
    BY <1>1, <2>1 DEF Inv, Remembers, InTry, Owed, Settlement
  <2>5. Home' /\ MoveVisible'
    BY <1>1, <2>1
    DEF Inv, Home, MoveVisible, Owed, Unmoved, Settlement, Exists, AtDest
  <2> QED
    BY <1>1, <2>1, <2>2, <2>3, <2>4, <2>5
    DEF Inv, Owed, TrashRewritesNothing, Prepared, Composed, Accounted,
        Closed, Settlement, Busy
<1> QED
  BY <1>3, <1>4 DEF PhaseRenamed

\* The end of a run: what is on disk is left, and a good report is earned.
LEMMA ExitInv ==
  ASSUME TypeOK, Inv, NEW r, Exit(r), r = "rolled-back" => Owed = {},
         RecoveryPossible', UNCHANGED disk, Owed' = Owed,
         hist'.escaped = hist.escaped, hist'.edited = hist.edited
  PROVE  Inv'
<1>1. run'.pc = "idle" /\ run'.op = "none" /\ report' = r
  BY DEF Exit, Idle
<1>2. Home' /\ MoveVisible'
  BY <1>1 DEF Inv, Home, MoveVisible, Unmoved, Settlement, Exists, AtDest
<1> QED
  BY <1>1, <1>2
  DEF Inv, TrashRewritesNothing, Prepared, Covered, Composed, Remembers,
      Accounted, Closed, Settlement, InTry, Busy

\* A failure in the transaction.
LEMMA ToHandlerInv ==
  ASSUME TypeOK, Inv, run.pc \in InTry \cup {"clean"}, ToHandler,
         UNCHANGED <<disk, journal, report>>,
         hist'.dirty = hist.dirty, hist'.edited = hist.edited,
         hist'.escaped = hist.escaped
           \cup IF run.pc = "record" THEN {run.cur} ELSE {}
  PROVE  Inv'
<1>1. /\ run'.pc \in {"undo", "handler"} /\ run'.op = run.op
      /\ run'.hits = {} /\ run'.mem = run.mem
  BY DEF ToHandler, Remembered, Idle, TypeOK, Runs
<1>2. Owed' = Owed \ IF run.pc = "record" THEN {run.cur} ELSE {}
  BY DEF Owed
<1>3. RecoveryPossible'
  BY DEF Inv, RecoveryPossible, Undoable
<1>4. Remembers'
  BY <1>1, <1>2 DEF Inv, Remembers, Closed, InTry, Settlement
<1>5. Home' /\ MoveVisible'
  BY <1>1, <1>2
  DEF Inv, Home, MoveVisible, Unmoved, Settlement, Exists, AtDest
<1> QED
  BY <1>1, <1>2, <1>3, <1>4, <1>5
  DEF Inv, TrashRewritesNothing, Prepared, Covered, Composed, Accounted,
      Closed, Settlement, InTry, Busy

LEMMA RemoveDirectoryInv ==
  ASSUME TypeOK, Inv, RemoveDirectory
  PROVE  Inv'
<1>1. Owed = {} /\ UNCHANGED <<disk, hist>>
  BY DEF RemoveDirectory, Inv, Closed
<1>2. RecoveryPossible'
  BY <1>1 DEF RecoveryPossible, Owed
<1> QED
  BY <1>1, <1>2, ExitInv DEF RemoveDirectory, Owed

\* What the classification starts from.
LEMMA BeginClassifyInv ==
  ASSUME TypeOK, Inv, run.pc = "undo", journal.phase # "none",
         NEW L \in SUBSET Notes, BeginClassify(L),
         UNCHANGED <<journal, report>>,
         hist'.edited = hist.edited,
         Owed' = Owed \ {Dest}, RecoveryPossible', Home'
  PROVE  Inv'
<1>1. /\ run'.pc = "classify" /\ run'.todo = journal.files
      /\ run'.op = run.op /\ run'.hits = run.hits
      /\ run'.mem = IF run.op = "relocate" THEN run.mem ELSE journal.log
      /\ run'.classify = (run.op = "relocate" \/ journal.logged)
  BY DEF BeginClassify, TypeOK, Runs
<1>2. \A n \in Owed : n \in Notes \cup {Dest}
  BY DEF Owed, TypeOK, Histories
<1>3. \A n \in Owed' :
        n \in Notes /\ n \in journal.files /\ journal.log[n] # Absent
  BY <1>2 DEF Inv, RecoveryPossible, Undoable, Owed
<1>4. Accounted'
  BY <1>1, <1>3 DEF Accounted, Settlement
<1>5. Remembers'
  BY <1>1, <1>3 DEF Inv, Remembers, Settlement, InTry
<1> QED
  BY <1>1, <1>4, <1>5
  DEF Inv, TrashRewritesNothing, Prepared, Covered, Composed, MoveVisible,
      Closed, InTry, Busy

LEMMA MovedBackOwed ==
  ASSUME TypeOK, MovedBack
  PROVE  /\ Owed' = Owed \ {Dest}
         /\ hist'.escaped = hist.escaped /\ hist'.edited = hist.edited
         /\ AtDest => disk'[Src] # Absent /\ disk'[Dest] = Absent
         /\ \A n \in Notes \ {Src} : disk'[n] = disk[n]
BY NotesAssumption
DEF MovedBack, MoveBack, Owed, AtDest, Exists, TypeOK, Histories

LEMMA RollbackMovesBackInv ==
  ASSUME TypeOK, Inv, RollbackMovesBack
  PROVE  Inv'
<1>1. run.pc = "undo" /\ journal.phase # "none" /\ BeginClassify({})
      /\ UNCHANGED <<journal, report>>
  BY DEF RollbackMovesBack
<1>2. /\ Owed' = Owed \ {Dest}
      /\ hist'.escaped = hist.escaped /\ hist'.edited = hist.edited
  BY MovedBackOwed
  DEF RollbackMovesBack, Owed, Inv, MoveVisible
<1>3. RecoveryPossible'
  BY <1>1, <1>2 DEF Inv, RecoveryPossible, Undoable, Owed
<1>4. Home'
  <2>1. CASE AtDest
    BY <2>1, <1>2, MovedBackOwed DEF RollbackMovesBack, Home, Exists
  <2>2. CASE ~AtDest
    BY <2>2, <1>2 DEF RollbackMovesBack, Inv, Home, Exists, AtDest
  <2> QED
    BY <2>1, <2>2
<1> QED
  BY <1>1, <1>2, <1>3, <1>4, BeginClassifyInv

LEMMA RollbackMoveFailsInv ==
  ASSUME TypeOK, Inv, RollbackMoveFails
  PROVE  Inv'
<1>1. /\ run.pc = "undo" /\ journal.phase # "none" /\ BeginClassify({Src})
      /\ UNCHANGED <<disk, journal, report>>
      /\ hist'.dirty = hist.dirty /\ hist'.edited = hist.edited
      /\ hist'.escaped = hist.escaped \cup {Dest}
  BY DEF RollbackMoveFails, TypeOK, Histories
<1>2. Owed' = Owed \ {Dest}
  BY <1>1 DEF Owed
<1>3. RecoveryPossible'
  BY <1>1 DEF Inv, RecoveryPossible, Undoable
<1>4. Home'
  BY <1>1 DEF Home
<1> QED
  BY <1>1, <1>2, <1>3, <1>4, NotesAssumption, BeginClassifyInv

LEMMA MakeJournalInv ==
  ASSUME TypeOK, Inv, MakeJournal
  PROVE  Inv'
<1>1. /\ run.pc = "planned" /\ run'.pc = "copy" /\ run'.todo = Targets'
      /\ run'.op = run.op /\ run'.hits = run.hits
      /\ UNCHANGED <<disk, report, hist>>
  BY DEF MakeJournal, Targets, TypeOK, Runs
<1>2. journal'.dir /\ journal'.phase = "none"
  BY DEF MakeJournal, NoJournal
<1>3. Owed = {} /\ Owed' = {}
  BY <1>1 DEF MakeJournal, Inv, RecoveryPossible, Undoable, Owed, TypeOK,
              Histories
<1>4. RecoveryPossible'
  BY <1>3 DEF RecoveryPossible, Owed
<1>5. Home'
  BY <1>1 DEF Inv, Home, Unmoved, Settlement, Exists
<1> QED
  BY <1>1, <1>2, <1>3, <1>4, <1>5
  DEF Inv, TrashRewritesNothing, Prepared, Covered, Composed, Remembers,
      MoveVisible, Accounted, Closed, Settlement, InTry, Busy

LEMMA CopyBackupInv ==
  ASSUME TypeOK, Inv, NEW n \in Notes, CopyBackup(n)
  PROVE  Inv'
<1>1. /\ run.pc = "copy" /\ run'.pc = "hash" /\ run'.cur = n
      /\ run'.todo = run.todo /\ run'.op = run.op /\ run'.hits = run.hits
      /\ UNCHANGED <<disk, report, hist>>
  BY DEF CopyBackup, TypeOK, Runs
<1>2. /\ journal'.dir = journal.dir /\ journal'.phase = journal.phase
      /\ journal'.bak[n] # Absent
      /\ \A k \in Notes \ {n} : journal'.bak[k] = journal.bak[k]
  BY DEF CopyBackup, Exists, TypeOK, Journals
<1>3. Targets \subseteq Notes /\ Targets' = Targets
  BY <1>1, NotesAssumption DEF Targets, TypeOK, Runs
<1>4. Prepared'
  BY <1>1, <1>2, <1>3 DEF Inv, Prepared
<1>5. Owed = {} /\ Owed' = {}
  BY <1>1 DEF Inv, Prepared, RecoveryPossible, Undoable, Owed, TypeOK,
              Histories
<1>6. RecoveryPossible'
  BY <1>5 DEF RecoveryPossible, Owed
<1>7. Home'
  BY <1>1 DEF Inv, Home, Unmoved, Settlement, Exists
<1> QED
  BY <1>1, <1>4, <1>5, <1>6, <1>7
  DEF Inv, TrashRewritesNothing, Covered, Composed, Remembers, MoveVisible,
      Accounted, Closed, Settlement, InTry, Busy

\* With a record of the note, or with its change given up, it may be written.
LEMMA LogInv ==
  ASSUME TypeOK, Inv, NEW n \in Notes, run.pc = "log", n \in run.todo,
         run' = [run EXCEPT !.pc = "write", !.cur = n],
         \/ /\ journal' = [journal EXCEPT !.logged = TRUE,
                                          !.log[n] = run.text[n]]
            /\ UNCHANGED hist
         \/ /\ hist' = [hist EXCEPT !.escaped = @ \cup {n}]
            /\ UNCHANGED journal,
         UNCHANGED <<disk, report>>
  PROVE  Inv'
<1>1. /\ run'.pc = "write" /\ run'.cur = n /\ run'.todo = run.todo
      /\ run'.op = run.op /\ run'.hits = run.hits /\ run'.text = run.text
      /\ run'.mem = run.mem
  BY DEF TypeOK, Runs
<1>2. /\ journal'.dir = journal.dir /\ journal'.phase = journal.phase
      /\ journal'.files = journal.files /\ journal'.bak = journal.bak
      /\ journal.logged => journal'.logged
      /\ \A k \in Notes : journal.log[k] # Absent => journal'.log[k] # Absent
      /\ n \in hist'.escaped \/ (journal'.logged /\ journal'.log[n] # Absent)
  <2>1. run.text[n] # Absent
    BY DEF Inv, Composed
  <2>2. ASSUME journal' = [journal EXCEPT !.logged = TRUE,
                                         !.log[n] = run.text[n]]
        PROVE  /\ journal'.dir = journal.dir /\ journal'.phase = journal.phase
               /\ journal'.files = journal.files
               /\ journal'.bak = journal.bak
               /\ journal'.logged /\ journal'.log[n] # Absent
               /\ \A k \in Notes \ {n} : journal'.log[k] = journal.log[k]
    BY <2>1, <2>2 DEF TypeOK, Journals
  <2> QED
    BY <2>1, <2>2 DEF TypeOK, Histories
<1>3. /\ hist'.dirty = hist.dirty /\ hist'.edited = hist.edited
      /\ hist.escaped \subseteq hist'.escaped
      /\ hist'.escaped \subseteq hist.escaped \cup {n}
      /\ Owed' \subseteq Owed
  BY DEF Owed, TypeOK, Histories
<1>4. Composed'
  BY <1>1, <1>2 DEF Inv, Composed
<1>5. RecoveryPossible'
  BY <1>2, <1>3 DEF Inv, RecoveryPossible, Undoable, Owed
<1>6. Remembers'
  BY <1>1, <1>3 DEF Inv, Remembers, InTry, Settlement
<1>7. Home' /\ MoveVisible'
  BY <1>1, <1>3, NotesAssumption
  DEF Inv, Home, MoveVisible, Unmoved, Settlement, Exists, AtDest
<1>8. Covered'
  BY <1>1, <1>2 DEF Inv, Covered, InTry
<1> QED
  BY <1>1, <1>4, <1>5, <1>6, <1>7, <1>8
  DEF Inv, TrashRewritesNothing, Prepared, Accounted, Closed, Settlement, Busy

LEMMA WriteNoteInv ==
  ASSUME TypeOK, Inv, WriteNote
  PROVE  Inv'
<1>1. /\ run.pc = "write" /\ run'.pc = "record" /\ run'.cur = run.cur
      /\ run'.todo = run.todo /\ run'.op = run.op /\ run'.hits = run.hits
      /\ run'.text = run.text /\ run'.mem = run.mem
      /\ UNCHANGED <<journal, report>>
  BY DEF WriteNote, TypeOK, Runs
<1>2. /\ run.cur \in Notes /\ run.cur \in journal.files
      /\ journal.dir /\ journal.phase = "prepare"
      /\ journal.bak[run.cur] # Absent /\ run.text[run.cur] # Absent
      /\ run.cur \in hist.escaped
           \/ (journal.logged /\ journal.log[run.cur] # Absent)
  BY <1>1 DEF Inv, Covered, Composed, InTry, TypeOK, Runs
<1>3. /\ hist'.dirty = hist.dirty \cup {run.cur}
      /\ hist'.escaped = hist.escaped /\ hist'.edited = hist.edited
      /\ Owed' \subseteq Owed \cup {run.cur}
  BY DEF WriteNote, Owed, TypeOK, Histories
<1>4. /\ disk'[run.cur] # Absent
      /\ \A p \in Paths \ {run.cur} : disk'[p] = disk[p]
  BY <1>2 DEF WriteNote, TypeOK
<1>5. RecoveryPossible'
  BY <1>1, <1>2, <1>3, NotesAssumption
  DEF Inv, RecoveryPossible, Undoable, Owed
<1>6. Dest \notin Owed' /\ MoveVisible'
  BY <1>2, <1>3, NotesAssumption
  DEF Inv, RecoveryPossible, MoveVisible, Owed
<1>7. Home'
  BY <1>1, <1>2, <1>3, <1>4, NotesAssumption
  DEF Inv, Home, Unmoved, Settlement, Exists
<1>8. Remembers'
  BY <1>1, <1>3 DEF Inv, Remembers, InTry, Settlement
<1>9. Covered' /\ Composed'
  BY <1>1, <1>3 DEF Inv, Covered, Composed, InTry
<1> QED
  BY <1>1, <1>5, <1>6, <1>7, <1>8, <1>9
  DEF Inv, TrashRewritesNothing, Prepared, Accounted, Closed, Settlement, Busy

LEMMA PhaseRenamingInv ==
  ASSUME TypeOK, Inv, PhaseRenaming
  PROVE  Inv'
<1>1. /\ run.pc = "renaming" /\ run'.pc = "rename" /\ run'.op = run.op
      /\ run'.hits = run.hits /\ run'.mem = run.mem
      /\ UNCHANGED <<disk, report, hist>>
  BY DEF PhaseRenaming, TypeOK, Runs
<1>2. /\ journal'.dir = journal.dir /\ journal'.bak = journal.bak
      /\ journal'.phase = "renaming" /\ journal'.files = journal.files
      /\ journal'.logged = journal.logged /\ journal'.log = journal.log
  BY DEF PhaseRenaming, TypeOK, Journals
<1>3. RecoveryPossible'
  BY <1>1, <1>2 DEF Inv, RecoveryPossible, Undoable
<1>4. Covered' /\ Remembers'
  BY <1>1, <1>2 DEF Inv, Covered, Remembers, Owed, InTry, Settlement
<1>5. Home' /\ MoveVisible'
  BY <1>1
  DEF Inv, Home, MoveVisible, Owed, Unmoved, Settlement, Exists, AtDest
<1> QED
  BY <1>1, <1>3, <1>4, <1>5
  DEF Inv, Owed, TrashRewritesNothing, Prepared, Composed, Accounted, Closed,
      Settlement, Busy

LEMMA RenameNoteInv ==
  ASSUME TypeOK, Inv, RenameNote
  PROVE  Inv'
<1>1. /\ run.pc = "rename" /\ run'.pc \in {"renamed", "flag"}
      /\ run'.op = run.op /\ run'.hits = run.hits /\ run'.mem = run.mem
      /\ UNCHANGED <<journal, report>>
  BY DEF RenameNote, TypeOK, Runs
<1>2. /\ Owed' \subseteq Owed \cup {Dest}
      /\ hist'.escaped = hist.escaped /\ hist'.edited = hist.edited
      /\ hist'.dirty = hist.dirty \cup {Dest}
  BY DEF RenameNote, Owed, TypeOK, Histories
<1>3. disk'[Dest] # Absent /\ disk'[Src] = Absent
  BY NotesAssumption DEF RenameNote, Exists, TypeOK
<1>4. RecoveryPossible'
  BY <1>1, <1>2, NotesAssumption
  DEF Inv, RecoveryPossible, Undoable, Covered, InTry
<1>5. Home' /\ MoveVisible'
  BY <1>1, <1>3 DEF Home, MoveVisible, Unmoved, Settlement, Exists, AtDest
<1>6. Covered' /\ Remembers'
  BY <1>1, <1>2, NotesAssumption
  DEF Inv, Covered, Remembers, InTry, Settlement
<1> QED
  BY <1>1, <1>4, <1>5, <1>6
  DEF Inv, TrashRewritesNothing, Prepared, Composed, Accounted, Closed,
      Settlement, Busy

LEMMA FlagRenamedInv ==
  ASSUME TypeOK, Inv, FlagRenamed
  PROVE  Inv'
<1>1. /\ run.pc = "flag" /\ run'.pc = "renamed" /\ run'.op = run.op
      /\ run'.hits = run.hits /\ run'.mem = run.mem
      /\ UNCHANGED <<disk, journal, report, hist>>
  BY DEF FlagRenamed, TypeOK, Runs
<1>2. RecoveryPossible' /\ Covered' /\ Remembers'
  BY <1>1
  DEF Inv, RecoveryPossible, Undoable, Covered, Remembers, Owed, InTry,
      Settlement
<1>3. Home' /\ MoveVisible'
  BY <1>1
  DEF Inv, Home, MoveVisible, Owed, Unmoved, Settlement, Exists, AtDest
<1> QED
  BY <1>1, <1>2, <1>3
  DEF Inv, Owed, TrashRewritesNothing, Prepared, Composed, Accounted, Closed,
      Settlement, Busy

\* From a commit, or a discard, on nothing is owed.
LEMMA CommitInv ==
  ASSUME TypeOK, Inv, run'.pc = "clean", run'.hits = {}, report' = "none",
         hist'.dirty = {}, hist'.escaped = hist.escaped,
         hist'.edited = hist.edited, UNCHANGED disk
  PROVE  Inv'
<1>1. Owed' = {}
  BY DEF Owed
<1>2. RecoveryPossible' /\ MoveVisible'
  BY <1>1 DEF RecoveryPossible, MoveVisible
<1>3. Home'
  BY DEF Inv, Home, Unmoved, Settlement, Exists
<1> QED
  BY <1>1, <1>2, <1>3
  DEF Inv, TrashRewritesNothing, Prepared, Covered, Composed, Remembers,
      Accounted, Closed, Settlement, InTry, Busy

LEMMA RemoveEntryInv ==
  ASSUME TypeOK, Inv, RemoveEntry
  PROVE  Inv'
<1>1. run.pc = "clean" /\ UNCHANGED <<disk, run, report, hist>>
  BY DEF RemoveEntry
<1>2. Owed = {} /\ Owed' = {}
  BY <1>1 DEF Inv, Closed, Owed
<1>3. RecoveryPossible' /\ MoveVisible'
  BY <1>2 DEF RecoveryPossible, MoveVisible, Owed
<1>4. Home'
  BY <1>1 DEF Inv, Home, Unmoved, Settlement, Exists
<1> QED
  BY <1>1, <1>2, <1>3, <1>4
  DEF Inv, TrashRewritesNothing, Prepared, Covered, Composed, Remembers,
      Accounted, Closed, Settlement, InTry, Busy

LEMMA HandlerMovesBackInv ==
  ASSUME TypeOK, Inv, HandlerMovesBack
  PROVE  Inv'
<1>1. /\ run.pc = "handler" /\ run'.pc = "undo" /\ run'.op = run.op
      /\ run'.hits = run.hits /\ run'.mem = run.mem
      /\ UNCHANGED <<journal, report>>
  BY DEF HandlerMovesBack, TypeOK, Runs
<1>2. CASE MovedBack /\ AtDest
  <2>1. RecoveryPossible'
    BY <1>1, <1>2, MovedBackOwed
    DEF Inv, RecoveryPossible, Undoable, Owed
  <2>2. MoveVisible' /\ Home'
    BY <1>1, <1>2, MovedBackOwed
    DEF MoveVisible, Home, Exists
  <2> QED
    BY <1>1, <1>2, <2>1, <2>2, MovedBackOwed
    DEF Inv, TrashRewritesNothing, Prepared, Covered, Composed, Remembers,
        Accounted, Closed, Settlement, InTry, Busy
<1>3. CASE UNCHANGED <<disk, hist>>
  BY <1>1, <1>3
  DEF Inv, RecoveryPossible, Undoable, TrashRewritesNothing, Prepared, Covered,
      Composed, Remembers, MoveVisible, Accounted, Closed, Home, Owed, Unmoved,
      Settlement, InTry, Busy, Exists, AtDest
<1> QED
  BY <1>2, <1>3 DEF HandlerMovesBack

\* One note is classified, or restored: whatever becomes of it, it is owed
\* no longer, or listed as left, or about to be restored.
LEMMA SettleInv ==
  ASSUME TypeOK, Inv, run.pc \in Settlement, run'.pc \in Settlement,
         run'.op = run.op, run'.hits = run.hits, run'.mem = run.mem,
         run'.classify = run.classify, UNCHANGED <<journal, report>>,
         Owed' \subseteq Owed, hist'.escaped = hist.escaped,
         hist'.edited = hist.edited, hist'.dirty \subseteq hist.dirty,
         disk[Src] # Absent => disk'[Src] # Absent,
         disk'[Dest] = disk[Dest],
         Accounted'
  PROVE  Inv'
<1>1. RecoveryPossible'
  BY DEF Inv, RecoveryPossible, Undoable, Owed
<1>2. MoveVisible'
  BY DEF Accounted, MoveVisible
<1>3. Home'
  BY DEF Inv, Home, Unmoved, Settlement, Exists
<1> QED
  BY <1>1, <1>2, <1>3
  DEF Inv, TrashRewritesNothing, Prepared, Covered, Composed, Remembers,
      Closed, Settlement, InTry, Busy

LEMMA LeaveNoteInv ==
  ASSUME TypeOK, Inv, NEW n \in Notes, LeaveNote(n)
  PROVE  Inv'
<1>1. /\ run.pc = "classify" /\ run'.pc = "classify"
      /\ run'.todo = run.todo \ {n} /\ run'.left = run.left
      /\ run'.op = run.op /\ run'.hits = run.hits /\ run'.mem = run.mem
      /\ run'.classify = run.classify
      /\ UNCHANGED <<disk, journal, report>>
  BY DEF LeaveNote, TypeOK, Runs
<1>2. /\ hist'.escaped = hist.escaped /\ hist'.edited = hist.edited
      /\ hist'.dirty \subseteq hist.dirty
      /\ Owed' \subseteq Owed
      /\ disk[n] = journal.sha[n] => n \notin Owed'
  BY DEF LeaveNote, Owed, TypeOK, Histories
<1>3. n \notin Owed'
  <2>1. CASE disk[n] = journal.sha[n]
    BY <2>1, <1>2
  <2>2. CASE NotOurs(n)
    BY <2>2, <1>1, <1>2 DEF NotOurs, Inv, Remembers, Settlement
  <2> QED
    BY <2>1, <2>2 DEF LeaveNote, Untouched
<1>4. Accounted'
  BY <1>1, <1>2, <1>3 DEF Inv, Accounted, Settlement
<1> QED
  BY <1>1, <1>2, <1>4, SettleInv DEF Settlement

LEMMA ReportForeignInv ==
  ASSUME TypeOK, Inv, NEW n \in Notes, ReportForeign(n)
  PROVE  Inv'
<1>1. /\ run.pc = "classify" /\ run'.pc = "classify"
      /\ run'.todo = run.todo \ {n} /\ run'.left = run.left \cup {n}
      /\ run'.op = run.op /\ run'.hits = run.hits /\ run'.mem = run.mem
      /\ run'.classify = run.classify
      /\ UNCHANGED <<disk, journal, report, hist>>
  BY DEF ReportForeign, TypeOK, Runs
<1>2. Accounted'
  BY <1>1 DEF Inv, Accounted, Owed, Settlement
<1> QED
  BY <1>1, <1>2, SettleInv DEF Owed, Settlement

LEMMA ChooseRestoreInv ==
  ASSUME TypeOK, Inv, NEW n \in Notes, ChooseRestore(n)
  PROVE  Inv'
<1>1. /\ run.pc = "classify" /\ run'.pc = "restore"
      /\ run'.todo = run.todo \ {n} /\ run'.left = run.left /\ run'.cur = n
      /\ run'.op = run.op /\ run'.hits = run.hits /\ run'.mem = run.mem
      /\ run'.classify = run.classify
      /\ UNCHANGED <<disk, journal, report, hist>>
  BY DEF ChooseRestore, TypeOK, Runs
<1>2. Accounted'
  BY <1>1 DEF Inv, Accounted, Owed, Settlement
<1> QED
  BY <1>1, <1>2, SettleInv DEF Owed, Settlement

LEMMA TruncateNoteInv ==
  ASSUME TypeOK, Inv, TruncateNote
  PROVE  Inv'
<1>1. /\ run.pc = "restore" /\ run'.pc = "restoring" /\ run'.cur = run.cur
      /\ run'.todo = run.todo /\ run'.left = run.left
      /\ run'.op = run.op /\ run'.hits = run.hits /\ run'.mem = run.mem
      /\ run'.classify = run.classify
      /\ run.cur \in Notes /\ journal.bak[run.cur] # Absent
      /\ UNCHANGED <<journal, report>>
  BY DEF TruncateNote, TypeOK, Runs
<1>2. /\ hist'.dirty = hist.dirty /\ hist'.escaped = hist.escaped
      /\ hist'.edited = hist.edited /\ Owed' = Owed
  BY DEF TruncateNote, Owed, TypeOK, Histories
<1>3. /\ disk'[Dest] = disk[Dest]
      /\ disk[Src] # Absent => disk'[Src] # Absent
  BY <1>1, NotesAssumption, SentinelAssumption
  DEF TruncateNote, TypeOK
<1>4. Accounted'
  BY <1>1, <1>2 DEF Inv, Accounted, Settlement
<1> QED
  BY <1>1, <1>2, <1>3, <1>4, SettleInv DEF Settlement

LEMMA FillNoteInv ==
  ASSUME TypeOK, Inv, FillNote
  PROVE  Inv'
<1>1. /\ run.pc = "restoring" /\ run'.pc = "classify"
      /\ run'.todo = run.todo /\ run'.left = run.left
      /\ run'.op = run.op /\ run'.hits = run.hits /\ run'.mem = run.mem
      /\ run'.classify = run.classify /\ run.cur \in Notes
      /\ UNCHANGED <<journal, report>>
  BY DEF FillNote, TypeOK, Runs
<1>2. /\ hist'.dirty = hist.dirty \ {run.cur}
      /\ hist'.escaped = hist.escaped /\ hist'.edited = hist.edited
      /\ Owed' = Owed \ {run.cur}
  BY DEF FillNote, Owed, TypeOK, Histories
<1>3. /\ disk'[Dest] = disk[Dest]
      /\ disk[Src] # Absent => disk'[Src] # Absent
  <2>1. journal.bak[run.cur] # Absent
    BY <1>1 DEF Inv, Accounted, Settlement
  <2> QED
    BY <1>1, <2>1, NotesAssumption DEF FillNote, Exists, TypeOK
<1>4. Accounted'
  BY <1>1, <1>2 DEF Inv, Accounted, Settlement
<1> QED
  BY <1>1, <1>2, <1>3, <1>4, SettleInv DEF Settlement

LEMMA EndRollbackInv ==
  ASSUME TypeOK, Inv, EndRollback
  PROVE  Inv'
<1>1. /\ run.pc = "classify" /\ run.todo = {}
      /\ UNCHANGED <<disk, journal, hist>>
  BY DEF EndRollback
<1>2. RecoveryPossible' /\ Owed' = Owed
  BY <1>1 DEF Inv, RecoveryPossible, Undoable, Owed
<1>3. CASE Exit("traceback") \/ Exit("conflict")
  BY <1>1, <1>2, <1>3, ExitInv
<1>4. CASE /\ run.left = {} /\ UNCHANGED report
           /\ run' = [Idle EXCEPT !.op = run.op, !.pc = "clean",
                        !.ending = "rolled-back"]
  <2>1. run'.pc = "clean" /\ run'.hits = {}
    BY <1>4 DEF Idle
  <2>2. Owed = {}
    BY <1>1, <1>4 DEF Inv, Accounted, Settlement
  <2>3. Home' /\ MoveVisible'
    BY <1>1, <2>1, <1>2, <2>2
    DEF Inv, Home, MoveVisible, Unmoved, Settlement, Exists
  <2> QED
    BY <1>1, <1>2, <1>4, <2>1, <2>2, <2>3
    DEF Inv, TrashRewritesNothing, Prepared, Covered, Composed, Remembers,
        Accounted, Closed, Settlement, InTry, Busy
<1> QED
  BY <1>3, <1>4 DEF EndRollback

LEMMA DoctorRollbackInv ==
  ASSUME TypeOK, Inv, DoctorRollback
  PROVE  Inv'
<1>1. /\ run'.pc = "undo" /\ run'.op = "doctor" /\ report' = "none"
      /\ UNCHANGED <<disk, journal, hist>>
  BY DEF DoctorRollback, TypeOK, Runs
<1>2. RecoveryPossible' /\ Home' /\ MoveVisible'
  BY <1>1
  DEF Inv, RecoveryPossible, Undoable, Home, MoveVisible, Owed, Unmoved,
      Settlement, Exists, AtDest
<1> QED
  BY <1>1, <1>2
  DEF Inv, TrashRewritesNothing, Prepared, Covered, Composed, Remembers,
      Accounted, Closed, Settlement, InTry, Busy

LEMMA DoctorDiscardInv ==
  ASSUME TypeOK, Inv, DoctorDiscard
  PROVE  Inv'
<1>1. /\ run'.pc = "clean" /\ run'.op = "doctor" /\ report' = "none"
      /\ hist'.dirty = {} /\ hist'.escaped = hist.escaped
      /\ hist'.edited = hist.edited /\ UNCHANGED <<disk, journal>>
  BY DEF DoctorDiscard, TypeOK, Runs, Histories
<1>2. Owed' = {}
  BY <1>1 DEF Owed
<1>3. RecoveryPossible' /\ Home' /\ MoveVisible'
  BY <1>1, <1>2
  DEF Inv, RecoveryPossible, Home, MoveVisible, Unmoved, Settlement, Exists
<1> QED
  BY <1>1, <1>2, <1>3
  DEF Inv, TrashRewritesNothing, Prepared, Covered, Composed, Remembers,
      Accounted, Closed, Settlement, InTry, Busy

\* The editor: what it touches is owed no longer.
LEMMA ExternalInv ==
  ASSUME TypeOK, Inv, NEW ps \in SUBSET Paths, NEW moved,
         External(ps, moved),
         \A p \in Paths \ ps : disk'[p] = disk[p]
  PROVE  Inv'
<1>1. /\ hist'.edited = hist.edited \cup ps
      /\ hist'.escaped = hist.escaped
      /\ hist'.dirty = hist.dirty \ UNION {Settled(p) : p \in ps}
      /\ UNCHANGED <<journal, run, report>>
  BY DEF External, TypeOK, Histories
<1>2. Owed' \subseteq Owed /\ hist'.dirty \subseteq hist.dirty
  BY <1>1 DEF Owed
<1>3. MoveVisible'
  <2>1. ASSUME Dest \in Owed' PROVE Src \notin ps /\ Dest \notin ps
    BY <1>1, <2>1 DEF Owed, Settled
  <2> QED
    BY <1>2, <2>1, NotesAssumption DEF Inv, MoveVisible, Exists, AtDest
<1>4. Home'
  BY <1>1, NotesAssumption DEF Inv, Home, Unmoved, Settlement, Exists
<1>5. RecoveryPossible'
  BY <1>1, <1>2 DEF Inv, RecoveryPossible, Undoable, Owed
<1> QED
  BY <1>1, <1>2, <1>3, <1>4, <1>5
  DEF Inv, TrashRewritesNothing, Prepared, Covered, Composed, Remembers,
      Accounted, Closed, Settlement, InTry, Busy, Targets

LEMMA EditorInv ==
  ASSUME TypeOK, Inv, Editor
  PROVE  Inv'
<1>1. ASSUME NEW p \in Paths, NEW l \in {"old", "none"}, EditorSaves(p, l)
      PROVE  Inv'
  BY <1>1, ExternalInv DEF EditorSaves, TypeOK
<1>2. ASSUME NEW p \in Paths, EditorDeletes(p) PROVE Inv'
  BY <1>2, ExternalInv DEF EditorDeletes, TypeOK
<1>3. ASSUME NEW p \in Paths, NEW q \in Paths, EditorRenames(p, q)
      PROVE  Inv'
  BY <1>3, ExternalInv DEF EditorRenames, TypeOK
<1> QED
  BY <1>1, <1>2, <1>3 DEF Editor

\* A run that stops where it is, leaving vault and journal as they are.
LEMMA StopInv ==
  ASSUME TypeOK, Inv, NEW r, r # "rolled-back", Exit(r),
         UNCHANGED <<disk, journal, hist>>
  PROVE  Inv'
<1>1. RecoveryPossible' /\ Owed' = Owed
  BY DEF Inv, RecoveryPossible, Undoable, Owed
<1> QED
  BY <1>1, ExitInv

LEMMA InitInv == Init => Inv
<1> SUFFICES ASSUME Init PROVE Inv
  OBVIOUS
<1>1. run.pc = "idle" /\ run.op = "none" /\ report = "none"
  BY DEF Init, Idle
<1>2. hist.dirty = {} /\ Owed = {}
  BY DEF Init, NothingYet, Owed
<1>3. Home
  BY <1>1, NotesAssumption
  DEF Init, Home, Unmoved, Settlement, Exists
<1> QED
  BY <1>1, <1>2, <1>3
  DEF Inv, TrashRewritesNothing, Prepared, Covered, Composed, Remembers,
      MoveVisible, Accounted, Closed, RecoveryPossible, Settlement, InTry, Busy

LEMMA InvStep == TypeOK /\ Inv /\ [Next]_vars => Inv'
<1> SUFFICES ASSUME TypeOK, Inv, [Next]_vars PROVE Inv'
  OBVIOUS
<1>1. CASE User
  BY <1>1, PlanInv DEF User
<1>2. CASE DirtyGate \/ SetupFails \/ HandlerMoveFails \/ NoManifest
             \/ BackupMissing
  BY <1>2, StopInv
  DEF DirtyGate, SetupFails, HandlerMoveFails, NoManifest, BackupMissing
<1>3. CASE MakeJournal \/ HashOriginal \/ WriteManifest
  BY <1>3, MakeJournalInv, HashOriginalInv, WriteManifestInv
<1>4. CASE \E n \in Notes : CopyBackup(n) \/ ReadAndRewrite(n)
  BY <1>4, CopyBackupInv, ReadAndRewriteInv
<1>5. CASE \E n \in Notes : LogIntent(n) \/ LogIntentFails(n)
  <2>1. ASSUME NEW n \in Notes, LogIntent(n) PROVE Inv'
    BY <2>1, LogInv DEF LogIntent
  <2>2. ASSUME NEW n \in Notes, LogIntentFails(n) PROVE Inv'
    BY <2>2, LogInv DEF LogIntentFails
  <2> QED
    BY <1>5, <2>1, <2>2
<1>6. CASE WriteNote \/ RecordWritten \/ PhaseRenaming \/ RenameNote
             \/ FlagRenamed \/ PhaseRenamed
  BY <1>6, WriteNoteInv, RecordWrittenInv, PhaseRenamingInv, RenameNoteInv,
     FlagRenamedInv, PhaseRenamedInv
<1>7. CASE Verify
  <2>1. run'.pc = "clean" /\ run'.hits = {}
    BY <1>7 DEF Verify, Commit, Remembered, Idle
  <2>2. /\ hist'.dirty = {} /\ hist'.escaped = hist.escaped
        /\ hist'.edited = hist.edited
    BY <1>7 DEF Verify, Commit, TypeOK, Histories
  <2>3. UNCHANGED disk /\ report' = "none"
    BY <1>7 DEF Verify, Inv, Closed, Busy
  <2> QED
    BY <2>1, <2>2, <2>3, CommitInv
<1>8. CASE RemoveEntry \/ RemoveDirectory
  BY <1>8, RemoveEntryInv, RemoveDirectoryInv
<1>9. CASE StatementRaises
  <2>1. run.pc \in InTry \cup {"clean"} /\ run.pc # "record" /\ ToHandler
    BY <1>9
    DEF StatementRaises, MustRaise, FailingCleanup, Fallible, InTry
  <2> QED
    BY <1>9, <2>1, ToHandlerInv DEF StatementRaises
<1>10. CASE Interrupted
  <2>1. /\ hist'.dirty = hist.dirty /\ hist'.edited = hist.edited
        /\ hist'.escaped = hist.escaped
             \cup IF run.pc = "record" THEN {run.cur} ELSE {}
    BY <1>10 DEF Interrupted, TypeOK, Histories
  <2> QED
    BY <1>10, <2>1, ToHandlerInv DEF Interrupted
<1>11. CASE HandlerMovesBack
  BY <1>11, HandlerMovesBackInv
<1>12. CASE RollbackMovesBack \/ RollbackMoveFails
  BY <1>12, RollbackMovesBackInv, RollbackMoveFailsInv
<1>13. CASE \E n \in Notes :
              LeaveNote(n) \/ ReportForeign(n) \/ ChooseRestore(n)
  BY <1>13, LeaveNoteInv, ReportForeignInv, ChooseRestoreInv
<1>14. CASE TruncateNote \/ FillNote \/ EndRollback
  BY <1>14, TruncateNoteInv, FillNoteInv, EndRollbackInv
<1>15. CASE DoctorRollback \/ DoctorDiscard
  BY <1>15, DoctorRollbackInv, DoctorDiscardInv
<1>16. CASE Kill
  <2>1. hist'.dirty = hist.dirty /\ hist'.escaped = hist.escaped
          /\ hist'.edited = hist.edited
    BY <1>16 DEF Kill, TypeOK, Histories
  <2>2. RecoveryPossible' /\ Owed' = Owed
    BY <1>16, <2>1
    DEF Kill, Inv, RecoveryPossible, Undoable, Owed, TypeOK, Journals
  <2> QED
    BY <1>16, <2>1, <2>2, ExitInv DEF Kill
<1>17. CASE Editor
  BY <1>17, EditorInv
<1>18. CASE UNCHANGED vars
  BY <1>18
  DEF vars, Inv, TrashRewritesNothing, Prepared, Covered, Composed, Remembers,
      MoveVisible, Accounted, Closed, Home, RecoveryPossible, Undoable, Owed,
      Unmoved, Settlement, InTry, Busy, Exists, AtDest, Targets
<1> QED
  BY <1>1, <1>2, <1>3, <1>4, <1>5, <1>6, <1>7, <1>8, <1>9, <1>10, <1>11,
     <1>12, <1>13, <1>14, <1>15, <1>16, <1>17, <1>18
  DEF Next, Step

THEOREM Inductive == Spec => [](TypeOK /\ Inv)
<1>1. Init => TypeOK /\ Inv
  BY InitType, InitInv
<1>2. (TypeOK /\ Inv) /\ [Next]_vars => (TypeOK /\ Inv)'
  BY TypeStep, InvStep
<1> QED
  BY <1>1, <1>2, PTL DEF Spec

\* At every moment, and after a crash at any statement, the journal on disk
\* can undo whatever vv has written and has not settled: the write-ahead
\* record and the phase are always there before the change.
THEOREM RecoveryAlwaysPossible == Spec => []RecoveryPossible
<1>1. Inv => RecoveryPossible
  BY DEF Inv
<1> QED
  BY <1>1, Inductive, PTL

\* "originals restored" is never said while a change is left that did not
\* escape, whichever command says it and after however many crashes.
THEOREM RollbackIsHonest == Spec => []RolledBackLeavesOnlyEscaped
<1>1. Inv => RolledBackLeavesOnlyEscaped
  BY DEF Inv, Closed, Owed, RolledBackLeavesOnlyEscaped
<1> QED
  BY <1>1, Inductive, PTL

\* The moved note is at exactly one of its two paths, whatever dies, as long
\* as nobody else touches them and the move back does not fail.
THEOREM NoteAtOneEnd == Spec => []OneEnd
<1>1. Inv => OneEnd
  BY DEF Inv, Home, OneEnd
<1> QED
  BY <1>1, Inductive, PTL


----------------------------------------------------------------------------
(* What the actions do to the records of the state.                        *)

RunKeeps(changed) ==
  \A f \in {"pc", "op", "hits", "todo", "cur", "text", "mem", "classify",
            "left", "renamed", "ending"} \ changed : run'[f] = run[f]
JournalKeeps(changed) ==
  \A f \in {"dir", "bak", "phase", "files", "sha", "logged", "log"} \ changed :
    journal'[f] = journal[f]
HistKeeps(changed) ==
  \A f \in {"dirty", "escaped", "edited", "before", "offline", "lost", "cut",
            "gaveUp"} \ changed : hist'[f] = hist[f]

LEMMA PlanEffect ==
  ASSUME TypeOK, NEW op, Plan(op)
  PROVE  /\ RunKeeps({"pc", "op", "hits"})
         /\ run'.pc = "planned" /\ run'.op = op
         /\ run'.hits = IF op = "trash" THEN {}
                        ELSE {n \in Notes : LinksOf(disk[n]) = "old"}
         /\ journal.dir => HistKeeps({})
         /\ ~journal.dir =>
              /\ HistKeeps({"dirty", "escaped", "edited", "before", "cut"})
              /\ hist'.escaped = {} /\ hist'.edited = {} /\ ~hist'.cut
              /\ hist'.before = disk
<1>1. /\ RunKeeps({"pc", "op", "hits"})
      /\ run'.pc = "planned" /\ run'.op = op
      /\ run'.hits = IF op = "trash" THEN {}
                     ELSE {n \in Notes : LinksOf(disk[n]) = "old"}
  BY DEF Plan, TypeOK, Runs, RunKeeps
<1>2. journal.dir => HistKeeps({})
  BY DEF Plan, HistKeeps
<1>3. ~journal.dir =>
        /\ HistKeeps({"dirty", "escaped", "edited", "before", "cut"})
        /\ hist'.escaped = {} /\ hist'.edited = {} /\ ~hist'.cut
        /\ hist'.before = disk
  BY DEF Plan, Afresh, TypeOK, Histories, HistKeeps
<1> QED
  BY <1>1, <1>2, <1>3

LEMMA MakeJournalEffect ==
  ASSUME TypeOK, MakeJournal
  PROVE  /\ RunKeeps({"pc", "todo"}) /\ run'.pc = "copy" /\ run'.todo = Targets
         /\ journal'.dir /\ journal'.bak = NoEntries /\ journal'.phase = "none"
         /\ journal'.files = {} /\ journal'.sha = NoEntries
         /\ ~journal'.logged /\ journal'.log = NoEntries
<1>1. RunKeeps({"pc", "todo"}) /\ run'.pc = "copy" /\ run'.todo = Targets
  BY DEF MakeJournal, TypeOK, Runs, RunKeeps
<1> QED
  BY <1>1 DEF MakeJournal, NoJournal

LEMMA CopyBackupEffect ==
  ASSUME TypeOK, NEW n \in Notes, CopyBackup(n)
  PROVE  /\ RunKeeps({"pc", "cur"}) /\ run'.pc = "hash" /\ run'.cur = n
         /\ JournalKeeps({"bak"})
         /\ journal'.bak = [journal.bak EXCEPT ![n] = disk[n]]
<1>1. RunKeeps({"pc", "cur"}) /\ run'.pc = "hash" /\ run'.cur = n
  BY DEF CopyBackup, TypeOK, Runs, RunKeeps
<1>2. JournalKeeps({"bak"})
      /\ journal'.bak = [journal.bak EXCEPT ![n] = disk[n]]
  BY DEF CopyBackup, TypeOK, Journals, JournalKeeps
<1> QED
  BY <1>1, <1>2

LEMMA HashOriginalEffect ==
  ASSUME TypeOK, HashOriginal
  PROVE  /\ RunKeeps({"pc", "todo"}) /\ run'.todo = run.todo \ {run.cur}
         /\ run'.pc = IF run'.todo = {} THEN "manifest" ELSE "copy"
         /\ JournalKeeps({"sha"})
         /\ journal'.sha = [journal.sha EXCEPT ![run.cur] = disk[run.cur]]
<1>1. /\ RunKeeps({"pc", "todo"}) /\ run'.todo = run.todo \ {run.cur}
      /\ run'.pc = IF run'.todo = {} THEN "manifest" ELSE "copy"
  BY DEF HashOriginal, TypeOK, Runs, RunKeeps
<1>2. /\ JournalKeeps({"sha"})
      /\ journal'.sha = [journal.sha EXCEPT ![run.cur] = disk[run.cur]]
  BY DEF HashOriginal, TypeOK, Journals, JournalKeeps
<1> QED
  BY <1>1, <1>2

LEMMA WriteManifestEffect ==
  ASSUME TypeOK, WriteManifest
  PROVE  /\ RunKeeps({"pc", "todo"}) /\ run'.todo = run.hits
         /\ run'.pc = IF run.hits = {} THEN "renaming" ELSE "read"
         /\ JournalKeeps({"phase", "files"})
         /\ journal'.phase = "prepare" /\ journal'.files = Targets
<1>1. /\ RunKeeps({"pc", "todo"}) /\ run'.todo = run.hits
      /\ run'.pc = IF run.hits = {} THEN "renaming" ELSE "read"
  BY DEF WriteManifest, TypeOK, Runs, RunKeeps
<1>2. /\ JournalKeeps({"phase", "files"})
      /\ journal'.phase = "prepare" /\ journal'.files = Targets
  BY DEF WriteManifest, TypeOK, Journals, JournalKeeps
<1> QED
  BY <1>1, <1>2

LEMMA ReadAndRewriteEffect ==
  ASSUME TypeOK, NEW n \in Notes, ReadAndRewrite(n)
  PROVE  /\ RunKeeps({"pc", "todo", "text"}) /\ run'.pc \in {"read", "log"}
         /\ run'.text = [run.text EXCEPT ![n] = Rewrite(disk[n])]
BY DEF ReadAndRewrite, TypeOK, Runs, RunKeeps

LEMMA LogIntentEffect ==
  ASSUME TypeOK, NEW n \in Notes, LogIntent(n)
  PROVE  /\ RunKeeps({"pc", "cur"}) /\ run'.pc = "write" /\ run'.cur = n
         /\ JournalKeeps({"logged", "log"}) /\ journal'.logged
         /\ journal'.log = [journal.log EXCEPT ![n] = run.text[n]]
<1>1. RunKeeps({"pc", "cur"}) /\ run'.pc = "write" /\ run'.cur = n
  BY DEF LogIntent, TypeOK, Runs, RunKeeps
<1>2. /\ JournalKeeps({"logged", "log"}) /\ journal'.logged
      /\ journal'.log = [journal.log EXCEPT ![n] = run.text[n]]
  BY DEF LogIntent, TypeOK, Journals, JournalKeeps
<1> QED
  BY <1>1, <1>2

LEMMA LogIntentFailsEffect ==
  ASSUME TypeOK, NEW n \in Notes, LogIntentFails(n)
  PROVE  /\ RunKeeps({"pc", "cur"}) /\ run'.pc = "write" /\ run'.cur = n
         /\ HistKeeps({"escaped"}) /\ hist'.escaped = hist.escaped \cup {n}
<1>1. RunKeeps({"pc", "cur"}) /\ run'.pc = "write" /\ run'.cur = n
  BY DEF LogIntentFails, TypeOK, Runs, RunKeeps
<1>2. HistKeeps({"escaped"}) /\ hist'.escaped = hist.escaped \cup {n}
  BY DEF LogIntentFails, TypeOK, Histories, HistKeeps
<1> QED
  BY <1>1, <1>2

LEMMA WriteNoteEffect ==
  ASSUME TypeOK, WriteNote
  PROVE  /\ RunKeeps({"pc"}) /\ run'.pc = "record"
         /\ HistKeeps({"dirty", "lost"})
         /\ hist'.lost = hist.lost
              \cup Loss(disk[run.cur], run.text[run.cur], "apply")
<1>1. RunKeeps({"pc"}) /\ run'.pc = "record"
  BY DEF WriteNote, TypeOK, Runs, RunKeeps
<1>2. /\ HistKeeps({"dirty", "lost"})
      /\ hist'.lost = hist.lost
           \cup Loss(disk[run.cur], run.text[run.cur], "apply")
  BY DEF WriteNote, TypeOK, Histories, HistKeeps
<1> QED
  BY <1>1, <1>2

LEMMA RecordWrittenEffect ==
  ASSUME TypeOK, RecordWritten
  PROVE  /\ RunKeeps({"pc", "todo", "mem"}) /\ run'.pc \in {"renaming", "log"}
         /\ run'.mem = [run.mem EXCEPT ![run.cur] = run.text[run.cur]]
BY DEF RecordWritten, TypeOK, Runs, RunKeeps

LEMMA PhaseRenamingEffect ==
  ASSUME TypeOK, PhaseRenaming
  PROVE  /\ RunKeeps({"pc"}) /\ run'.pc = "rename"
         /\ JournalKeeps({"phase"}) /\ journal'.phase = "renaming"
<1>1. RunKeeps({"pc"}) /\ run'.pc = "rename"
  BY DEF PhaseRenaming, TypeOK, Runs, RunKeeps
<1>2. JournalKeeps({"phase"}) /\ journal'.phase = "renaming"
  BY DEF PhaseRenaming, TypeOK, Journals, JournalKeeps
<1> QED
  BY <1>1, <1>2

LEMMA RenameNoteEffect ==
  ASSUME TypeOK, RenameNote
  PROVE  /\ RunKeeps({"pc"})
         /\ run'.pc = IF run.op = "trash" THEN "renamed" ELSE "flag"
         /\ HistKeeps({"dirty", "lost"})
         /\ hist'.lost = hist.lost \cup Loss(disk[Dest], disk[Src], "rename")
<1>1. /\ RunKeeps({"pc"})
      /\ run'.pc = IF run.op = "trash" THEN "renamed" ELSE "flag"
  BY DEF RenameNote, TypeOK, Runs, RunKeeps
<1>2. /\ HistKeeps({"dirty", "lost"})
      /\ hist'.lost = hist.lost \cup Loss(disk[Dest], disk[Src], "rename")
  BY DEF RenameNote, TypeOK, Histories, HistKeeps
<1> QED
  BY <1>1, <1>2

LEMMA FlagRenamedEffect ==
  ASSUME TypeOK, FlagRenamed
  PROVE  RunKeeps({"pc", "renamed"}) /\ run'.pc = "renamed"
BY DEF FlagRenamed, TypeOK, Runs, RunKeeps

LEMMA CommitEffect ==
  ASSUME TypeOK, NEW ending, Commit(ending)
  PROVE  /\ run'.pc = "clean" /\ run'.ending = ending /\ run'.op = run.op
         /\ run'.mem = run.mem /\ run'.text = NoEntries
         /\ HistKeeps({"dirty"})
<1>1. /\ run'.pc = "clean" /\ run'.ending = ending /\ run'.op = run.op
      /\ run'.mem = run.mem /\ run'.text = NoEntries
  BY DEF Commit, Remembered, Idle
<1>2. HistKeeps({"dirty"})
  BY DEF Commit, TypeOK, Histories, HistKeeps
<1> QED
  BY <1>1, <1>2

LEMMA PhaseRenamedEffect ==
  ASSUME TypeOK, PhaseRenamed
  PROVE  /\ JournalKeeps({"phase"}) /\ journal'.phase = "renamed"
         /\ \/ Commit("trashed")
            \/ /\ run.op # "trash" /\ UNCHANGED hist
               /\ RunKeeps({"pc"}) /\ run'.pc = "verify"
<1>1. JournalKeeps({"phase"}) /\ journal'.phase = "renamed"
  BY DEF PhaseRenamed, TypeOK, Journals, JournalKeeps
<1>2. ASSUME run' = [run EXCEPT !.pc = "verify"]
      PROVE  RunKeeps({"pc"}) /\ run'.pc = "verify"
  BY <1>2 DEF TypeOK, Runs, RunKeeps
<1> QED
  BY <1>1, <1>2 DEF PhaseRenamed

LEMMA RemoveEntryEffect ==
  ASSUME TypeOK, RemoveEntry
  PROVE  /\ journal'.dir = journal.dir
         /\ \A n \in Notes : journal'.bak[n] \in {journal.bak[n], Absent}
         /\ \A n \in Notes : journal'.log[n] \in {journal.log[n], Absent}
         /\ \A n \in Notes : journal'.sha[n] \in {journal.sha[n], Absent}
         /\ \/ journal'.phase = "none"
            \/ /\ journal'.phase = journal.phase
               /\ journal'.files = journal.files /\ journal'.sha = journal.sha
         /\ \/ ~journal'.logged
            \/ journal'.logged = journal.logged /\ journal'.log = journal.log
<1>1. ASSUME NEW n \in Notes, journal' = [journal EXCEPT !.bak[n] = Absent]
      PROVE  /\ JournalKeeps({"bak"})
             /\ journal'.bak = [journal.bak EXCEPT ![n] = Absent]
  BY <1>1 DEF TypeOK, Journals, JournalKeeps
<1>2. ASSUME journal' = [journal EXCEPT !.phase = "none", !.files = {},
                           !.sha = NoEntries]
      PROVE  /\ JournalKeeps({"phase", "files", "sha"})
             /\ journal'.phase = "none" /\ journal'.sha = NoEntries
  BY <1>2 DEF TypeOK, Journals, JournalKeeps
<1>3. ASSUME journal' = [journal EXCEPT !.logged = FALSE, !.log = NoEntries]
      PROVE  /\ JournalKeeps({"logged", "log"})
             /\ ~journal'.logged /\ journal'.log = NoEntries
  BY <1>3 DEF TypeOK, Journals, JournalKeeps
<1>4. journal.bak \in Entries
  BY DEF TypeOK, Journals
<1>5. CASE \E n \in Notes : journal' = [journal EXCEPT !.bak[n] = Absent]
  BY <1>1, <1>4, <1>5 DEF JournalKeeps
<1>6. CASE journal' = [journal EXCEPT !.phase = "none", !.files = {},
                         !.sha = NoEntries]
  BY <1>2, <1>6 DEF JournalKeeps, NoEntries
<1>7. CASE journal' = [journal EXCEPT !.logged = FALSE, !.log = NoEntries]
  BY <1>3, <1>7 DEF JournalKeeps, NoEntries
<1> QED
  BY <1>5, <1>6, <1>7 DEF RemoveEntry

LEMMA ToHandlerEffect ==
  ASSUME TypeOK, ToHandler
  PROVE  /\ run'.pc \in {"undo", "handler"} /\ run'.op = run.op
         /\ run'.mem = run.mem /\ run'.text = NoEntries
BY DEF ToHandler, Remembered, Idle, TypeOK, Runs

LEMMA InterruptedEffect ==
  ASSUME TypeOK, Interrupted
  PROVE  /\ HistKeeps({"escaped"})
         /\ hist'.escaped = hist.escaped
              \cup IF run.pc = "record" THEN {run.cur} ELSE {}
BY DEF Interrupted, TypeOK, Histories, HistKeeps

LEMMA KillEffect ==
  ASSUME TypeOK, Kill
  PROVE  /\ JournalKeeps({"logged"}) /\ (journal.logged => journal'.logged)
         /\ journal'.logged => journal.logged \/ run.pc = "log"
         /\ HistKeeps({"cut"}) /\ hist'.cut = (hist.cut \/ run.pc = "restoring")
<1>1. /\ JournalKeeps({"logged"}) /\ (journal.logged => journal'.logged)
      /\ journal'.logged => journal.logged \/ run.pc = "log"
  BY DEF Kill, TypeOK, Journals, JournalKeeps
<1>2. HistKeeps({"cut"}) /\ hist'.cut = (hist.cut \/ run.pc = "restoring")
  BY DEF Kill, TypeOK, Histories, HistKeeps
<1> QED
  BY <1>1, <1>2

LEMMA MovedBackEffect ==
  ASSUME TypeOK, MovedBack
  PROVE  /\ disk'[Src] = disk[Dest] /\ disk'[Dest] = Absent
         /\ \A n \in Notes \ {Src} : disk'[n] = disk[n]
         /\ HistKeeps({"dirty"})
<1>1. HistKeeps({"dirty"})
  BY DEF MovedBack, TypeOK, Histories, HistKeeps
<1>2. Src \in Paths /\ Dest \in Paths /\ Src # Dest
      /\ \A n \in Notes : n \in Paths /\ n # Dest
  BY NotesAssumption DEF Paths
<1>3. disk' = [[disk EXCEPT ![Src] = disk[Dest]] EXCEPT ![Dest] = Absent]
  BY DEF MovedBack, MoveBack
<1>4. disk \in [Paths -> Bytes \cup {Absent}]
  BY DEF TypeOK
<1>5. disk'[Src] = disk[Dest] /\ disk'[Dest] = Absent
  BY <1>2, <1>3, <1>4
<1>6. \A n \in Notes \ {Src} : disk'[n] = disk[n]
  BY <1>2, <1>3, <1>4
<1> QED
  BY <1>1, <1>5, <1>6

LEMMA BeginClassifyEffect ==
  ASSUME TypeOK, NEW L, BeginClassify(L)
  PROVE  /\ RunKeeps({"pc", "todo", "left", "mem", "classify"})
         /\ run'.pc = "classify" /\ run'.todo = journal.files /\ run'.left = L
         /\ run'.mem = IF run.op = "relocate" THEN run.mem ELSE journal.log
         /\ run'.classify = (run.op = "relocate" \/ journal.logged)
BY DEF BeginClassify, TypeOK, Runs, RunKeeps

LEMMA RollbackMoveFailsEffect ==
  ASSUME TypeOK, RollbackMoveFails
  PROVE  HistKeeps({"escaped"}) /\ hist'.escaped = hist.escaped \cup {Dest}
BY DEF RollbackMoveFails, TypeOK, Histories, HistKeeps

LEMMA LeaveNoteEffect ==
  ASSUME TypeOK, NEW n \in Notes, LeaveNote(n)
  PROVE  /\ RunKeeps({"todo"}) /\ run'.todo = run.todo \ {n}
         /\ HistKeeps({"dirty"})
<1>1. RunKeeps({"todo"}) /\ run'.todo = run.todo \ {n}
  BY DEF LeaveNote, TypeOK, Runs, RunKeeps
<1>2. HistKeeps({"dirty"})
  BY DEF LeaveNote, TypeOK, Histories, HistKeeps
<1> QED
  BY <1>1, <1>2

LEMMA ReportForeignEffect ==
  ASSUME TypeOK, NEW n \in Notes, ReportForeign(n)
  PROVE  /\ RunKeeps({"todo", "left"}) /\ run'.todo = run.todo \ {n}
         /\ run'.left = run.left \cup {n}
BY DEF ReportForeign, TypeOK, Runs, RunKeeps

LEMMA ChooseRestoreEffect ==
  ASSUME TypeOK, NEW n \in Notes, ChooseRestore(n)
  PROVE  /\ RunKeeps({"pc", "todo", "cur"}) /\ run'.pc = "restore"
         /\ run'.todo = run.todo \ {n} /\ run'.cur = n
BY DEF ChooseRestore, TypeOK, Runs, RunKeeps

LEMMA TruncateNoteEffect ==
  ASSUME TypeOK, TruncateNote
  PROVE  /\ RunKeeps({"pc"}) /\ run'.pc = "restoring"
         /\ HistKeeps({"lost"})
         /\ hist'.lost = hist.lost
              \cup Loss(disk[run.cur], journal.bak[run.cur], RestoreHow)
<1>1. RunKeeps({"pc"}) /\ run'.pc = "restoring"
  BY DEF TruncateNote, TypeOK, Runs, RunKeeps
<1>2. /\ HistKeeps({"lost"})
      /\ hist'.lost = hist.lost
           \cup Loss(disk[run.cur], journal.bak[run.cur], RestoreHow)
  BY DEF TruncateNote, TypeOK, Histories, HistKeeps
<1> QED
  BY <1>1, <1>2

LEMMA FillNoteEffect ==
  ASSUME TypeOK, FillNote
  PROVE  /\ RunKeeps({"pc"}) /\ run'.pc = "classify"
         /\ HistKeeps({"dirty", "lost"})
         /\ hist'.lost \subseteq hist.lost
              \cup Loss(disk[run.cur], journal.bak[run.cur], RestoreHow)
<1>1. RunKeeps({"pc"}) /\ run'.pc = "classify"
  BY DEF FillNote, TypeOK, Runs, RunKeeps
<1>2. /\ HistKeeps({"dirty", "lost"})
      /\ hist'.lost \subseteq hist.lost
           \cup Loss(disk[run.cur], journal.bak[run.cur], RestoreHow)
  BY DEF FillNote, TypeOK, Histories, HistKeeps
<1> QED
  BY <1>1, <1>2

LEMMA DoctorRollbackEffect ==
  ASSUME TypeOK, DoctorRollback
  PROVE  RunKeeps({"op", "pc"}) /\ run'.op = "doctor" /\ run'.pc = "undo"
BY DEF DoctorRollback, TypeOK, Runs, RunKeeps

LEMMA DoctorDiscardEffect ==
  ASSUME TypeOK, DoctorDiscard
  PROVE  /\ RunKeeps({"op", "pc", "ending"}) /\ run'.op = "doctor"
         /\ run'.pc = "clean" /\ run'.ending = "discarded"
         /\ HistKeeps({"dirty", "gaveUp"}) /\ hist'.gaveUp
<1>1. /\ RunKeeps({"op", "pc", "ending"}) /\ run'.op = "doctor"
      /\ run'.pc = "clean" /\ run'.ending = "discarded"
  BY DEF DoctorDiscard, TypeOK, Runs, RunKeeps
<1>2. HistKeeps({"dirty", "gaveUp"}) /\ hist'.gaveUp
  BY DEF DoctorDiscard, TypeOK, Histories, HistKeeps
<1> QED
  BY <1>1, <1>2

LEMMA ExternalEffect ==
  ASSUME TypeOK, NEW ps, NEW moved, External(ps, moved)
  PROVE  /\ HistKeeps({"edited", "dirty", "offline"})
         /\ hist'.edited = hist.edited \cup ps
         /\ hist'.offline = IF Busy THEN hist.offline \ moved
                            ELSE hist.offline \cup {edits + 1}
         /\ edits' = edits + 1 /\ UNCHANGED <<journal, run, report>>
BY DEF External, TypeOK, Histories, HistKeeps

----------------------------------------------------------------------------
(* What a process and a journal are before they have done anything.        *)

Starting == {"planned", "copy", "hash", "manifest"}
Preparing == {"copy", "hash", "manifest"}

Fresh ==
  /\ ~Busy => run = Idle
  /\ ~journal.dir => journal = NoJournal
  /\ run.pc \in Starting => run.text = NoEntries /\ run.mem = NoEntries
  /\ run.pc \in Preparing => journal.log = NoEntries /\ ~journal.logged

LEMMA InitFresh == Init => Fresh
BY DEF Init, Fresh, Idle, Busy, NoJournal, Starting, Preparing

LEMMA NextFresh ==
  ASSUME TypeOK, Inv, Fresh, [Next]_vars
  PROVE  Fresh'
<1> USE DEF Fresh
\* The process goes on, or starts.
<1>1. ASSUME run'.pc # "idle", UNCHANGED journal, run'.pc \notin Starting
      PROVE  Fresh'
  BY <1>1 DEF Busy, Preparing, Starting
<1>2. ASSUME NEW r, Exit(r), UNCHANGED journal PROVE Fresh'
  BY <1>2 DEF Exit, Idle, Preparing, Starting
<1>3. CASE User
  <2>1. PICK op \in {"relocate", "trash"} : Plan(op)
    BY <1>3 DEF User
  <2>2. run'.text = run.text /\ run'.mem = run.mem /\ run'.pc = "planned"
    BY <2>1, PlanEffect DEF RunKeeps
  <2>3. run.text = NoEntries /\ run.mem = NoEntries
    BY <2>1 DEF Plan, Idle
  <2> QED
    BY <2>1, <2>2, <2>3 DEF Plan, Busy, Preparing
<1>4. CASE MakeJournal
  <2>1. run'.text = run.text /\ run'.mem = run.mem
    BY <1>4, MakeJournalEffect DEF RunKeeps
  <2> QED
    BY <1>4, <2>1, MakeJournalEffect DEF MakeJournal, Busy, Starting
<1>5. CASE \E n \in Notes : CopyBackup(n)
  <2>1. PICK n \in Notes : CopyBackup(n)
    BY <1>5
  <2>2. /\ run'.text = run.text /\ run'.mem = run.mem /\ run'.pc = "hash"
        /\ journal'.dir = journal.dir /\ journal'.log = journal.log
        /\ journal'.logged = journal.logged
    BY <2>1, CopyBackupEffect DEF RunKeeps, JournalKeeps
  <2> QED
    BY <2>1, <2>2 DEF CopyBackup, Busy, Starting, Preparing, Inv, Prepared
<1>6. CASE HashOriginal
  <2>1. /\ run'.text = run.text /\ run'.mem = run.mem
        /\ run'.pc \in {"manifest", "copy"}
        /\ journal'.dir = journal.dir /\ journal'.log = journal.log
        /\ journal'.logged = journal.logged
    BY <1>6, HashOriginalEffect DEF RunKeeps, JournalKeeps
  <2> QED
    BY <1>6, <2>1 DEF HashOriginal, Busy, Starting, Preparing, Inv, Prepared
<1>7. ASSUME run'.pc # "idle", run'.pc \notin Starting, journal'.dir
      PROVE  Fresh'
  BY <1>7 DEF Busy, Starting, Preparing
<1>8. CASE WriteManifest
  BY <1>7, <1>8, WriteManifestEffect
  DEF WriteManifest, Inv, Prepared, JournalKeeps, Starting
<1>9. CASE \E n \in Notes : LogIntent(n)
  <2>1. PICK n \in Notes : LogIntent(n)
    BY <1>9
  <2>2. journal'.dir /\ run'.pc = "write"
    BY <2>1, LogIntentEffect, ZenonT(30) DEF LogIntent, Inv, Covered, InTry, JournalKeeps
  <2> QED
    BY <1>7, <2>2 DEF Starting
<1>10. CASE PhaseRenaming
  <2>1. journal'.dir /\ run'.pc = "rename"
    BY <1>10, PhaseRenamingEffect
    DEF PhaseRenaming, Inv, Covered, InTry, JournalKeeps
  <2> QED
    BY <1>7, <2>1 DEF Starting
<1>11. CASE PhaseRenamed
  <2>1. journal'.dir /\ run'.pc \in {"clean", "verify"}
    BY <1>11, PhaseRenamedEffect, CommitEffect
    DEF PhaseRenamed, Inv, Covered, InTry, JournalKeeps
  <2> QED
    BY <1>7, <2>1 DEF Starting
<1>12. CASE RemoveEntry
  <2>1. journal.dir
    <3>1. \A n \in Notes : NoJournal.bak[n] = Absent
      BY DEF NoJournal, NoEntries
    <3>2. NoJournal.phase = "none" /\ ~NoJournal.logged
      BY DEF NoJournal
    <3> QED
      BY <1>12, <3>1, <3>2 DEF RemoveEntry
  <2>2. journal'.dir /\ run' = run /\ run.pc = "clean"
    BY <1>12, <2>1, RemoveEntryEffect DEF RemoveEntry
  <2> QED
    BY <1>7, <2>2 DEF Starting
<1>13. CASE RemoveDirectory
  BY <1>13 DEF RemoveDirectory, Exit, Idle, NoJournal, Starting, Preparing, Busy
<1>14. CASE Kill
  <2>1. run' = Idle
    BY <1>14 DEF Kill, Exit
  <2>2. ~journal'.dir => journal' = NoJournal
    <3>1. CASE run.pc = "log"
      <4>1. journal.dir
        BY <3>1 DEF Inv, Covered, InTry
      <4>2. journal'.dir = journal.dir
        BY <1>14, KillEffect DEF JournalKeeps
      <4> QED
        BY <4>1, <4>2
    <3>2. CASE run.pc # "log"
      BY <1>14, <3>2 DEF Kill
    <3> QED
      BY <3>1, <3>2
  <2> QED
    BY <2>1, <2>2 DEF Idle, Starting, Preparing
<1>15. CASE DirtyGate \/ SetupFails \/ HandlerMoveFails \/ NoManifest
              \/ BackupMissing
  BY <1>2, <1>15
  DEF DirtyGate, SetupFails, HandlerMoveFails, NoManifest, BackupMissing
<1>16. CASE EndRollback
  <2>1. CASE run' = [Idle EXCEPT !.op = run.op, !.pc = "clean",
                       !.ending = "rolled-back"]
    <3>1. run'.pc = "clean"
      BY <2>1 DEF Idle
    <3> QED
      BY <1>1, <1>16, <3>1 DEF EndRollback, Starting
  <2> QED
    BY <1>2, <1>16, <2>1 DEF EndRollback
<1>17. CASE \/ \E n \in Notes : ReadAndRewrite(n) \/ LogIntentFails(n)
            \/ WriteNote \/ RecordWritten \/ RenameNote \/ FlagRenamed
  <2>1. UNCHANGED journal
    BY <1>17
    DEF ReadAndRewrite, LogIntentFails, WriteNote, RecordWritten, RenameNote,
        FlagRenamed
  <2>2. run'.pc \in {"read", "log", "write", "record", "renaming", "renamed",
                     "flag"}
    BY <1>17, ReadAndRewriteEffect, LogIntentFailsEffect, WriteNoteEffect,
       RecordWrittenEffect, RenameNoteEffect, FlagRenamedEffect
  <2> QED
    BY <1>1, <2>1, <2>2 DEF Starting
<1>18. CASE Verify \/ StatementRaises \/ Interrupted
  <2>1. run'.pc \in {"clean", "undo", "handler"} /\ UNCHANGED journal
    BY <1>18, CommitEffect, ToHandlerEffect
    DEF Verify, StatementRaises, Interrupted
  <2> QED
    BY <1>1, <2>1 DEF Starting
<1>19. CASE HandlerMovesBack \/ RollbackMovesBack \/ RollbackMoveFails
  <2>1. UNCHANGED journal
    BY <1>19 DEF HandlerMovesBack, RollbackMovesBack, RollbackMoveFails
  <2>2. HandlerMovesBack => run'.pc = "undo"
    BY DEF HandlerMovesBack, TypeOK, Runs
  <2>3. RollbackMovesBack \/ RollbackMoveFails => run'.pc = "classify"
    BY BeginClassifyEffect DEF RollbackMovesBack, RollbackMoveFails
  <2> QED
    BY <1>1, <1>19, <2>1, <2>2, <2>3 DEF Starting
<1>20. CASE \/ \E n \in Notes :
                 LeaveNote(n) \/ ReportForeign(n) \/ ChooseRestore(n)
            \/ TruncateNote \/ FillNote
  <2>1. UNCHANGED journal
    BY <1>20
    DEF LeaveNote, ReportForeign, ChooseRestore, TruncateNote, FillNote
  <2>2. run'.pc \in {"classify", "restore", "restoring"}
    BY <1>20, LeaveNoteEffect, ReportForeignEffect, ChooseRestoreEffect,
       TruncateNoteEffect, FillNoteEffect
    DEF RunKeeps, LeaveNote, ReportForeign
  <2> QED
    BY <1>1, <2>1, <2>2 DEF Starting
<1>21. CASE DoctorRollback \/ DoctorDiscard
  <2>1. UNCHANGED journal /\ run'.pc \in {"undo", "clean"}
    BY <1>21, DoctorRollbackEffect, DoctorDiscardEffect
    DEF DoctorRollback, DoctorDiscard
  <2> QED
    BY <1>1, <2>1 DEF Starting
<1>22. CASE Editor \/ UNCHANGED vars
  <2>1. UNCHANGED <<journal, run>>
    BY <1>22
    DEF Editor, EditorSaves, EditorDeletes, EditorRenames, External, vars
  <2> QED
    BY <2>1 DEF Busy
<1> QED
  BY <1>3, <1>4, <1>5, <1>6, <1>8, <1>9, <1>10, <1>11, <1>12, <1>13, <1>14,
     <1>15, <1>16, <1>17, <1>18, <1>19, <1>20, <1>21, <1>22 DEF Next, Step

----------------------------------------------------------------------------
(* The saves that a classified rollback spares.                            *)

\* Saves are numbered from 1.
Dated ==
  /\ \A p \in Paths : SavesOf(disk[p]) \subseteq 0 .. edits
  /\ \A n \in Notes :
       /\ SavesOf(journal.bak[n]) \subseteq 0 .. edits
       /\ SavesOf(journal.log[n]) \subseteq 0 .. edits
       /\ SavesOf(run.text[n]) \subseteq 0 .. edits
       /\ SavesOf(run.mem[n]) \subseteq 0 .. edits
  /\ hist.offline \subseteq 1 .. edits
  /\ \A l \in hist.lost : l.ed \in 1 .. edits

\* Bytes b hold no offline save that the backup of n does not hold.
Spared(b, n) ==
  \/ journal.bak[n] = Absent
  \/ SavesOf(b) \cap hist.offline \subseteq SavesOf(journal.bak[n])

\* What vv takes for its own bytes is as spared as the backup, and so is what
\* it reads and what it is about to overwrite.
Sparing ==
  /\ \A n \in Notes : /\ Spared(journal.log[n], n)
                      /\ Spared(run.text[n], n)
                      /\ Spared(run.mem[n], n)
  /\ run.pc \in Preparing \cup {"read"} => \A n \in Notes : Spared(disk[n], n)
  /\ run.pc \in {"restore", "restoring"} /\ run.classify =>
       Spared(disk[run.cur], run.cur)

Spares ==
  Fresh /\ Dated /\ Sparing /\ ClassifiedRollbackKeepsOfflineEdits

LEMMA SavesOfNothing == SavesOf(Absent) = {} /\ SavesOf(Torn) = {}
BY SentinelAssumption DEF SavesOf, Bytes

LEMMA SavesOfRewrite ==
  ASSUME NEW b, LinksOf(b) = "old"
  PROVE  SavesOf(Rewrite(b)) = SavesOf(b)
<1>1. b \in Text /\ Rewrite(b) \in Text /\ Rewrite(b).ed = b.ed
  BY DEF LinksOf, Rewrite, Text, Links
<1> QED
  BY <1>1 DEF SavesOf

\* What overwriting loses is a save that was there and does not come back.
LEMMA LossIsASave ==
  ASSUME NEW old, NEW new, NEW how, NEW l \in Loss(old, new, how)
  PROVE  /\ l.how = how /\ l.ed \in SavesOf(old) \ SavesOf(new)
         /\ l.ed \in 1 .. MaxEdits
<1>1. old \in Text /\ old.ed > 0 /\ ~(new \in Text /\ new.ed = old.ed)
      /\ l = [ed |-> old.ed, how |-> how]
  BY DEF Loss
<1>2. old.ed \in 0 .. MaxEdits
  BY <1>1 DEF Text
<1> QED
  BY <1>1, <1>2, BoundsAssumption DEF SavesOf

LEMMA InitSpares == Init => Spares
<1> SUFFICES ASSUME Init PROVE Spares
  OBVIOUS
<1>1. edits = 0 /\ hist.offline = {} /\ hist.lost = {}
  BY DEF Init, NothingYet
<1>2. run.pc = "idle"
  BY DEF Init, Idle
<1>3. \A n \in Notes : /\ journal.bak[n] = Absent /\ journal.log[n] = Absent
                       /\ run.text[n] = Absent /\ run.mem[n] = Absent
  BY DEF Init, Idle, NoJournal, NoEntries
<1>4. \A p \in Paths : SavesOf(disk[p]) \subseteq 0 .. 0
  <2>1. \A p \in Paths : \/ disk[p] \in [ed : {0}, links : {"old", "none"}]
                         \/ disk[p] = Absent
    BY DEF Init
  <2> QED
    BY <2>1, SavesOfNothing DEF SavesOf
<1>5. Dated
  BY <1>1, <1>3, <1>4, SavesOfNothing DEF Dated
<1>6. Sparing
  BY <1>2, <1>3 DEF Sparing, Spared, Preparing
<1> QED
  BY <1>1, <1>5, <1>6, InitFresh DEF Spares, ClassifiedRollbackKeepsOfflineEdits

\* A step of vv: it makes no save.
LEMMA VvSpares ==
  ASSUME TypeOK, Spares, Fresh', edits' = edits, hist'.offline = hist.offline,
         \A p \in Paths : SavesOf(disk'[p]) \subseteq 0 .. edits,
         \A l \in hist'.lost \ hist.lost :
           l.ed \in 1 .. edits
             /\ (l.how = "classified" => l.ed \notin hist.offline),
         \A n \in Notes :
           /\ journal'.bak[n] \in {journal.bak[n], Absent}
           /\ journal'.log[n] \in {journal.log[n], run.text[n], Absent}
           /\ run'.text[n] \in {run.text[n], Absent}
           /\ run'.mem[n]
                \in {run.mem[n], journal.log[n], run.text[n], Absent},
         run'.pc \in Preparing \cup {"read"} =>
           \A n \in Notes : Spared(disk[n], n)',
         run'.pc \in {"restore", "restoring"} /\ run'.classify =>
           Spared(disk[run.cur], run.cur)'
  PROVE  Spares'
<1>1. Dated'
  BY SavesOfNothing DEF Spares, Dated
<1>2. Sparing'
  BY SavesOfNothing DEF Spares, Sparing, Spared
<1>3. ClassifiedRollbackKeepsOfflineEdits'
  BY DEF Spares, ClassifiedRollbackKeepsOfflineEdits
<1> QED
  BY <1>1, <1>2, <1>3 DEF Spares

\* ... that leaves the vault as it is.
LEMMA QuietSpares ==
  ASSUME TypeOK, Spares, Fresh', UNCHANGED <<disk, edits>>,
         hist'.offline = hist.offline, hist'.lost = hist.lost,
         \A n \in Notes :
           /\ journal'.bak[n] \in {journal.bak[n], Absent}
           /\ journal'.log[n] \in {journal.log[n], run.text[n], Absent}
           /\ run'.text[n] \in {run.text[n], Absent}
           /\ run'.mem[n]
                \in {run.mem[n], journal.log[n], run.text[n], Absent},
         run'.pc \in Preparing \cup {"read"} =>
           run.pc \in Preparing \cup {"read"},
         run'.pc \in {"restore", "restoring"} =>
           /\ run.pc \in {"restore", "restoring"}
           /\ run'.cur = run.cur /\ run'.classify = run.classify
  PROVE  Spares'
<1>1. run'.pc \in Preparing \cup {"read"} => \A n \in Notes : Spared(disk[n], n)'
  BY DEF Spares, Sparing, Spared
<1>2. run'.pc \in {"restore", "restoring"} /\ run'.classify =>
        Spared(disk[run.cur], run.cur)'
  <2>1. run.cur \in Notes
    BY DEF TypeOK, Runs
  <2> QED
    BY <2>1, ZenonT(30) DEF Spares, Sparing, Spared
<1>3. \A p \in Paths : SavesOf(disk'[p]) \subseteq 0 .. edits
  BY DEF Spares, Dated
<1> QED
  BY <1>1, <1>2, <1>3, VvSpares

LEMMA EndSpares ==
  ASSUME TypeOK, Spares, Fresh', NEW r, Exit(r), UNCHANGED <<disk, edits>>,
         hist'.offline = hist.offline, hist'.lost = hist.lost,
         \A n \in Notes :
           /\ journal'.bak[n] \in {journal.bak[n], Absent}
           /\ journal'.log[n] \in {journal.log[n], Absent}
  PROVE  Spares'
<1>1. run'.pc = "idle" /\ run'.text = NoEntries /\ run'.mem = NoEntries
  BY DEF Exit, Idle
<1> QED
  BY <1>1, QuietSpares DEF Preparing, NoEntries

LEMMA CopyBackupSpares ==
  ASSUME TypeOK, Spares, Fresh', NEW n \in Notes, CopyBackup(n)
  PROVE  Spares'
<1>1. /\ run.pc = "copy" /\ run'.pc = "hash"
      /\ UNCHANGED <<disk, edits, hist>>
      /\ run'.text = run.text /\ run'.mem = run.mem
      /\ journal'.log = journal.log
      /\ journal'.bak = [journal.bak EXCEPT ![n] = disk[n]]
  BY CopyBackupEffect DEF CopyBackup, RunKeeps, JournalKeeps
<1>2. /\ journal.bak \in [Notes -> Bytes \cup {Absent}] /\ n \in Paths
      /\ Notes \subseteq Paths
  BY DEF TypeOK, Journals, Entries, Paths
<1>3. /\ journal'.bak[n] = disk[n]
      /\ \A m \in Notes \ {n} : journal'.bak[m] = journal.bak[m]
  BY <1>1, <1>2
<1>4. \A m \in Notes : /\ run.text[m] = Absent /\ run.mem[m] = Absent
                       /\ journal.log[m] = Absent
  BY <1>1 DEF Spares, Fresh, Starting, Preparing, NoEntries
<1>5. Dated'
  BY <1>1, <1>2, <1>3 DEF Spares, Dated
<1>6. Sparing'
  <2>1. \A m \in Notes : Spared(disk[m], m)'
    BY <1>1, <1>3 DEF Spares, Sparing, Spared, Preparing
  <2> QED
    BY <1>1, <1>4, <2>1, SavesOfNothing DEF Sparing, Spared
<1> QED
  BY <1>1, <1>5, <1>6 DEF Spares, ClassifiedRollbackKeepsOfflineEdits

LEMMA ReadAndRewriteSpares ==
  ASSUME TypeOK, Spares, Fresh', NEW n \in Notes, ReadAndRewrite(n)
  PROVE  Spares'
<1>1. /\ run.pc = "read" /\ run'.pc \in {"read", "log"}
      /\ UNCHANGED <<disk, journal, edits, hist>>
      /\ run'.mem = run.mem
      /\ run'.text = [run.text EXCEPT ![n] = Rewrite(disk[n])]
      /\ LinksOf(disk[n]) = "old"
  BY ReadAndRewriteEffect DEF ReadAndRewrite, RunKeeps
<1>2. run.text \in [Notes -> Bytes \cup {Absent}] /\ Notes \subseteq Paths
  BY DEF TypeOK, Runs, Entries, Paths
<1>3. /\ SavesOf(run'.text[n]) = SavesOf(disk[n])
      /\ \A m \in Notes \ {n} : run'.text[m] = run.text[m]
  BY <1>1, <1>2, SavesOfRewrite
<1>4. Dated'
  BY <1>1, <1>2, <1>3 DEF Spares, Dated
<1>5. Sparing'
  BY <1>1, <1>3 DEF Spares, Sparing, Spared, Preparing
<1> QED
  BY <1>1, <1>4, <1>5 DEF Spares, ClassifiedRollbackKeepsOfflineEdits

LEMMA WriteNoteSpares ==
  ASSUME TypeOK, Spares, Fresh', WriteNote
  PROVE  Spares'
<1>1. /\ run'.pc = "record" /\ UNCHANGED <<journal, edits>>
      /\ run'.text = run.text /\ run'.mem = run.mem
      /\ hist'.offline = hist.offline
      /\ hist'.lost = hist.lost
           \cup Loss(disk[run.cur], run.text[run.cur], "apply")
      /\ disk' = [disk EXCEPT ![run.cur] = run.text[run.cur]]
  BY WriteNoteEffect DEF WriteNote, RunKeeps, HistKeeps
<1>2. /\ run.cur \in Notes /\ Notes \subseteq Paths
      /\ disk \in [Paths -> Bytes \cup {Absent}]
  BY DEF TypeOK, Runs, Paths
<1>3. \A p \in Paths : SavesOf(disk'[p]) \subseteq 0 .. edits
  BY <1>1, <1>2 DEF Spares, Dated
<1>4. \A l \in hist'.lost \ hist.lost :
        l.how = "apply" /\ l.ed \in 1 .. MaxEdits /\ l.ed \in 0 .. edits
  BY <1>1, <1>2, LossIsASave DEF Spares, Dated
<1>5. \A l \in hist'.lost \ hist.lost : l.how = "apply" /\ l.ed \in 1 .. edits
  BY <1>4, BoundsAssumption DEF TypeOK
<1> QED
  BY <1>1, <1>3, <1>5, VvSpares DEF Preparing

LEMMA RenameNoteSpares ==
  ASSUME TypeOK, Spares, Fresh', RenameNote
  PROVE  Spares'
<1>1. /\ run'.pc \in {"renamed", "flag"} /\ UNCHANGED <<journal, edits>>
      /\ run'.text = run.text /\ run'.mem = run.mem
      /\ hist'.offline = hist.offline
      /\ hist'.lost = hist.lost \cup Loss(disk[Dest], disk[Src], "rename")
      /\ disk' = [disk EXCEPT ![Dest] = disk[Src], ![Src] = Absent]
  BY RenameNoteEffect DEF RenameNote, RunKeeps, HistKeeps
<1>2. Src \in Paths /\ Dest \in Paths /\ disk \in [Paths -> Bytes \cup {Absent}]
  BY NotesAssumption DEF TypeOK, Paths
<1>3. \A p \in Paths : SavesOf(disk'[p]) \subseteq 0 .. edits
  BY <1>1, <1>2, SavesOfNothing DEF Spares, Dated
<1>4. \A l \in hist'.lost \ hist.lost :
        l.how = "rename" /\ l.ed \in 1 .. MaxEdits /\ l.ed \in 0 .. edits
  BY <1>1, <1>2, LossIsASave DEF Spares, Dated
<1>5. \A l \in hist'.lost \ hist.lost : l.how = "rename" /\ l.ed \in 1 .. edits
  BY <1>4, BoundsAssumption DEF TypeOK
<1> QED
  BY <1>1, <1>3, <1>5, VvSpares DEF Preparing

\* The move back, of the handler or of the rollback.
LEMMA MovedBackSpares ==
  ASSUME TypeOK, Spares, Fresh', MovedBack, UNCHANGED <<journal, edits>>,
         run'.pc \in {"undo", "classify"}, run'.text = run.text,
         run'.mem \in {run.mem, journal.log}
  PROVE  Spares'
<1>1. hist'.offline = hist.offline /\ hist'.lost = hist.lost
  BY MovedBackEffect DEF HistKeeps
<1>2. \A p \in Paths : SavesOf(disk'[p]) \subseteq 0 .. edits
  <2>1. \A p \in Paths : disk'[p] = Absent \/ \E q \in Paths : disk'[p] = disk[q]
    BY NotesAssumption, MovedBackEffect DEF Paths
  <2> QED
    BY <2>1, SavesOfNothing DEF Spares, Dated
<1> QED
  BY <1>1, <1>2, VvSpares DEF Preparing

\* A classified rollback chooses what holds the bytes it wrote, or nothing.
LEMMA ChooseRestoreSpares ==
  ASSUME TypeOK, Spares, Fresh', NEW n \in Notes, ChooseRestore(n)
  PROVE  Spares'
<1>1. /\ run'.pc = "restore" /\ run'.cur = n
      /\ run'.text = run.text /\ run'.mem = run.mem
      /\ run'.classify = run.classify
      /\ UNCHANGED <<disk, journal, edits, hist>>
  BY ChooseRestoreEffect DEF ChooseRestore, RunKeeps
<1>2. run.classify => Spared(disk[n], n)
  <2>1. run.classify => disk[n] \in {Absent, run.mem[n]}
    BY DEF ChooseRestore, Foreign, Exists
  <2> QED
    BY <2>1, SavesOfNothing DEF Spares, Sparing, Spared
<1>3. run'.classify => Spared(disk[run.cur], run.cur)'
  BY <1>1, <1>2 DEF Spared
<1>4. \A p \in Paths : SavesOf(disk'[p]) \subseteq 0 .. edits
  BY <1>1 DEF Spares, Dated
<1> QED
  BY <1>1, <1>3, <1>4, VvSpares DEF Preparing

\* What a classified restore overwrites is in the backup, or was not saved
\* offline.
LEMMA RestoreSpares ==
  ASSUME TypeOK, Spares, run.pc \in {"restore", "restoring"},
         journal.bak[run.cur] # Absent,
         hist'.lost \subseteq hist.lost
           \cup Loss(disk[run.cur], journal.bak[run.cur], RestoreHow)
  PROVE  \A l \in hist'.lost \ hist.lost :
           l.ed \in 1 .. edits
             /\ (l.how = "classified" => l.ed \notin hist.offline)
<1>1. run.cur \in Notes /\ Notes \subseteq Paths
  BY DEF TypeOK, Runs, Paths
<1>2. SUFFICES ASSUME NEW l \in hist'.lost \ hist.lost
               PROVE  /\ l.ed \in 1 .. edits
                      /\ l.how = "classified" => l.ed \notin hist.offline
  OBVIOUS
<1>3. /\ l.how = RestoreHow /\ l.ed \in 1 .. MaxEdits
      /\ l.ed \in SavesOf(disk[run.cur]) \ SavesOf(journal.bak[run.cur])
  BY <1>2, LossIsASave
<1>4. l.ed \in 1 .. edits
  <2>1. l.ed \in 0 .. edits
    BY <1>1, <1>3 DEF Spares, Dated
  <2> QED
    BY <1>3, <2>1, BoundsAssumption DEF TypeOK
<1>5. l.how = "classified" => run.classify
  BY <1>3 DEF RestoreHow
<1>6. run.classify => Spared(disk[run.cur], run.cur)
  BY DEF Spares, Sparing
<1> QED
  BY <1>3, <1>4, <1>5, <1>6 DEF Spared

LEMMA TruncateNoteSpares ==
  ASSUME TypeOK, Spares, Fresh', TruncateNote
  PROVE  Spares'
<1>1. /\ run.pc = "restore" /\ run'.pc = "restoring" /\ run'.cur = run.cur
      /\ run'.text = run.text /\ run'.mem = run.mem
      /\ hist'.offline = hist.offline
      /\ disk' = [disk EXCEPT ![run.cur] = Torn]
      /\ UNCHANGED <<journal, edits>>
  BY TruncateNoteEffect DEF TruncateNote, RunKeeps, HistKeeps
<1>2. /\ run.cur \in Notes /\ Notes \subseteq Paths
      /\ disk \in [Paths -> Bytes \cup {Absent}]
  BY DEF TypeOK, Runs, Paths
<1>3. \A p \in Paths : SavesOf(disk'[p]) \subseteq 0 .. edits
  BY <1>1, <1>2, SavesOfNothing DEF Spares, Dated
<1>4. Spared(disk[run.cur], run.cur)'
  BY <1>1, <1>2, SavesOfNothing DEF Spared
<1>5. \A l \in hist'.lost \ hist.lost :
        l.ed \in 1 .. edits
          /\ (l.how = "classified" => l.ed \notin hist.offline)
  BY <1>1, RestoreSpares, TruncateNoteEffect DEF TruncateNote
<1> QED
  BY <1>1, <1>3, <1>4, <1>5, VvSpares DEF Preparing

LEMMA FillNoteSpares ==
  ASSUME TypeOK, Inv, Spares, Fresh', FillNote
  PROVE  Spares'
<1>1. /\ run.pc = "restoring" /\ run'.pc = "classify"
      /\ run'.text = run.text /\ run'.mem = run.mem
      /\ hist'.offline = hist.offline
      /\ UNCHANGED <<journal, edits>>
  BY FillNoteEffect DEF FillNote, RunKeeps, HistKeeps
<1>2. /\ run.cur \in Notes /\ Notes \subseteq Paths
      /\ disk \in [Paths -> Bytes \cup {Absent}]
  BY DEF TypeOK, Runs, Paths
<1>3. \A p \in Paths : SavesOf(disk'[p]) \subseteq 0 .. edits
  BY <1>1, <1>2 DEF FillNote, Spares, Dated
<1>4. journal.bak[run.cur] # Absent
  BY <1>1 DEF Inv, Accounted, Settlement
<1>5. \A l \in hist'.lost \ hist.lost :
        l.ed \in 1 .. edits
          /\ (l.how = "classified" => l.ed \notin hist.offline)
  BY <1>1, <1>4, RestoreSpares, FillNoteEffect
<1> QED
  BY <1>1, <1>3, <1>5, VvSpares DEF Preparing

\* The editor: what it saves while vv runs is no offline save, and neither is
\* what it moves then.
LEMMA ExternalSpares ==
  ASSUME TypeOK, Spares, Fresh', NEW ps, NEW moved, External(ps, moved),
         \A p \in Paths : \/ disk'[p] \in {disk[p], Absent}
                          \/ SavesOf(disk'[p]) = {edits + 1}
                          \/ SavesOf(disk'[p]) = moved /\ moved \subseteq 0 .. edits
  PROVE  Spares'
<1>1. /\ edits' = edits + 1 /\ UNCHANGED <<journal, run>>
      /\ hist'.lost = hist.lost
      /\ hist'.offline = IF Busy THEN hist.offline \ moved
                         ELSE hist.offline \cup {edits + 1}
  BY ExternalEffect DEF HistKeeps
<1>2. 0 .. edits \subseteq 0 .. edits' /\ 1 .. edits \subseteq 1 .. edits'
      /\ edits + 1 \in 1 .. edits' /\ edits + 1 \notin 0 .. edits
      /\ 1 .. edits \subseteq 0 .. edits /\ 1 .. edits' \subseteq 0 .. edits'
  BY <1>1, BoundsAssumption DEF TypeOK
<1>3. Dated'
  <2>1. \A p \in Paths : SavesOf(disk'[p]) \subseteq 0 .. edits'
    BY <1>2, SavesOfNothing DEF Spares, Dated
  <2>2. hist'.offline \subseteq 1 .. edits'
    BY <1>1, <1>2 DEF Spares, Dated
  <2>3. \A l \in hist'.lost : l.ed \in 1 .. edits'
    BY <1>1, <1>2 DEF Spares, Dated
  <2>4. \A n \in Notes :
          /\ SavesOf(journal.bak[n]) \subseteq 0 .. edits'
          /\ SavesOf(journal.log[n]) \subseteq 0 .. edits'
          /\ SavesOf(run.text[n]) \subseteq 0 .. edits'
          /\ SavesOf(run.mem[n]) \subseteq 0 .. edits'
    BY <1>2 DEF Spares, Dated
  <2> QED
    BY <1>1, <2>1, <2>2, <2>3, <2>4 DEF Dated
<1>4. ASSUME NEW b, NEW n \in Notes, Spared(b, n), SavesOf(b) \subseteq 0 .. edits
      PROVE  journal'.bak[n] = Absent
               \/ SavesOf(b) \cap hist'.offline \subseteq SavesOf(journal'.bak[n])
  BY <1>1, <1>2, <1>4 DEF Spared
<1>5. Sparing'
  <2>1. ASSUME NEW n \in Notes
        PROVE  /\ Spared(journal.log[n], n)' /\ Spared(run.text[n], n)'
               /\ Spared(run.mem[n], n)'
    BY <1>1, <1>4 DEF Spares, Sparing, Dated, Spared
  <2>2. ASSUME NEW n \in Notes, Busy, Spared(disk[n], n)
        PROVE  Spared(disk[n], n)'
    <3>1. n \in Paths
      BY DEF Paths
    <3>2. CASE disk'[n] \in {disk[n], Absent}
      BY <1>1, <1>4, <2>2, <3>1, <3>2, SavesOfNothing DEF Spares, Dated, Spared
    <3>3. CASE SavesOf(disk'[n]) = {edits + 1}
      BY <1>1, <1>2, <2>2, <3>3 DEF Spares, Dated, Spared
    <3>4. CASE SavesOf(disk'[n]) = moved
      BY <1>1, <2>2, <3>4 DEF Spared
    <3> QED
      BY <3>1, <3>2, <3>3, <3>4
  <2>3. run'.pc \in Preparing \cup {"read"} =>
          \A n \in Notes : Spared(disk[n], n)'
    BY <1>1, <2>2 DEF Spares, Sparing, Busy, Preparing
  <2>4. run'.pc \in {"restore", "restoring"} /\ run'.classify =>
          Spared(disk[run.cur], run.cur)'
    <3>1. ASSUME run.pc \in {"restore", "restoring"}, run.classify
          PROVE  Spared(disk[run.cur], run.cur)'
      <4>1. PICK n \in Notes : n = run.cur
        BY DEF TypeOK, Runs
      <4>2. Spared(disk[n], n)'
        BY <2>2, <3>1, <4>1 DEF Spares, Sparing, Busy
      <4> QED
        BY <1>1, <4>1, <4>2 DEF Spared
    <3> QED
      BY <1>1, <3>1
  <2> QED
    BY <2>1, <2>3, <2>4 DEF Sparing
<1>6. ClassifiedRollbackKeepsOfflineEdits'
  BY <1>1, <1>2
  DEF Spares, Dated, ClassifiedRollbackKeepsOfflineEdits
<1> QED
  BY <1>3, <1>5, <1>6 DEF Spares

LEMMA EditorSpares ==
  ASSUME TypeOK, Spares, Fresh', Editor
  PROVE  Spares'
<1>1. disk \in [Paths -> Bytes \cup {Absent}]
  BY DEF TypeOK
<1>2. ASSUME NEW p \in Paths, NEW l \in {"old", "none"}, EditorSaves(p, l)
      PROVE  Spares'
  <2> DEFINE t == [ed |-> edits + 1, links |-> l]
  <2>1. External({p}, {}) /\ disk' = [disk EXCEPT ![p] = t]
    BY <1>2 DEF EditorSaves
  <2>2. t \in Text /\ t.ed = edits + 1
    BY <2>1, BoundsAssumption DEF External, TypeOK, Text, Links
  <2> HIDE DEF t
  <2>3. SavesOf(disk'[p]) = {edits + 1}
    BY <1>1, <2>1, <2>2 DEF SavesOf
  <2> QED
    BY <1>1, <2>1, <2>3, ExternalSpares
<1>3. ASSUME NEW p \in Paths, EditorDeletes(p) PROVE Spares'
  <2>1. External({p}, {}) /\ disk' = [disk EXCEPT ![p] = Absent]
    BY <1>3 DEF EditorDeletes
  <2> QED
    BY <1>1, <2>1, ExternalSpares
<1>4. ASSUME NEW p \in Paths, NEW q \in Paths, EditorRenames(p, q)
      PROVE  Spares'
  <2>1. /\ External({p, q}, SavesOf(disk[p]))
        /\ disk' = [disk EXCEPT ![q] = disk[p], ![p] = Absent]
    BY <1>4 DEF EditorRenames
  <2>2. SavesOf(disk[p]) \subseteq 0 .. edits
    BY DEF Spares, Dated
  <2>3. \A x \in Paths : \/ disk'[x] \in {disk[x], Absent}
                         \/ SavesOf(disk'[x]) = SavesOf(disk[p])
    BY <1>1, <2>1
  <2> QED
    BY <2>1, <2>2, <2>3, ExternalSpares
<1> QED
  BY <1>2, <1>3, <1>4 DEF Editor

LEMMA NextSpares ==
  ASSUME TypeOK, Inv, Spares, [Next]_vars
  PROVE  Spares'
<1>0. Fresh'
  BY NextFresh DEF Spares
<1>1. CASE User
  <2>1. PICK op \in {"relocate", "trash"} : Plan(op)
    BY <1>1 DEF User
  <2>2. /\ run'.pc = "planned" /\ run'.text = run.text /\ run'.mem = run.mem
        /\ hist'.offline = hist.offline /\ hist'.lost = hist.lost
        /\ UNCHANGED <<disk, journal, edits>>
    BY <2>1, PlanEffect DEF Plan, RunKeeps, HistKeeps
  <2> QED
    BY <1>0, <2>2, QuietSpares DEF Preparing
<1>2. CASE DirtyGate \/ SetupFails \/ HandlerMoveFails \/ NoManifest
             \/ BackupMissing
  BY <1>0, <1>2, EndSpares
  DEF DirtyGate, SetupFails, HandlerMoveFails, NoManifest, BackupMissing
<1>3. CASE MakeJournal
  <2>1. /\ run'.pc = "copy" /\ run'.text = run.text /\ run'.mem = run.mem
        /\ UNCHANGED <<disk, edits, hist>>
        /\ journal'.bak = NoEntries /\ journal'.log = NoEntries
    BY <1>3, MakeJournalEffect DEF MakeJournal, RunKeeps
  <2>2. \A n \in Notes : journal'.bak[n] = Absent /\ journal'.log[n] = Absent
    BY <2>1 DEF NoEntries
  <2>3. \A n \in Notes : Spared(disk[n], n)'
    BY <2>2 DEF Spared
  <2>4. \A p \in Paths : SavesOf(disk'[p]) \subseteq 0 .. edits
    BY <2>1 DEF Spares, Dated
  <2> QED
    BY <1>0, <2>1, <2>2, <2>3, <2>4, VvSpares
<1>4. CASE \E n \in Notes : CopyBackup(n)
  BY <1>0, <1>4, CopyBackupSpares
<1>5. CASE HashOriginal
  <2>1. /\ run.pc = "hash" /\ run'.text = run.text /\ run'.mem = run.mem
        /\ run'.pc \in {"manifest", "copy"}
        /\ journal'.bak = journal.bak /\ journal'.log = journal.log
        /\ UNCHANGED <<disk, edits, hist>>
    BY <1>5, HashOriginalEffect DEF HashOriginal, RunKeeps, JournalKeeps
  <2> QED
    BY <1>0, <2>1, QuietSpares DEF Preparing
<1>6. CASE WriteManifest
  <2>1. /\ run.pc = "manifest" /\ run'.text = run.text /\ run'.mem = run.mem
        /\ run'.pc \in {"renaming", "read"}
        /\ journal'.bak = journal.bak /\ journal'.log = journal.log
        /\ UNCHANGED <<disk, edits, hist>>
    BY <1>6, WriteManifestEffect DEF WriteManifest, RunKeeps, JournalKeeps
  <2> QED
    BY <1>0, <2>1, QuietSpares DEF Preparing
<1>7. CASE \E n \in Notes : ReadAndRewrite(n)
  BY <1>0, <1>7, ReadAndRewriteSpares
<1>8. CASE \E n \in Notes : LogIntent(n)
  <2>1. PICK n \in Notes : LogIntent(n)
    BY <1>8
  <2>2. /\ run'.pc = "write" /\ run'.text = run.text /\ run'.mem = run.mem
        /\ journal'.bak = journal.bak
        /\ journal'.log = [journal.log EXCEPT ![n] = run.text[n]]
        /\ UNCHANGED <<disk, edits, hist>>
    BY <2>1, LogIntentEffect DEF LogIntent, RunKeeps, JournalKeeps
  <2>3. journal.log \in [Notes -> Bytes \cup {Absent}]
    BY DEF TypeOK, Journals, Entries
  <2>4. \A m \in Notes : journal'.log[m] \in {journal.log[m], run.text[m]}
    BY <2>2, <2>3
  <2> QED
    BY <1>0, <2>2, <2>4, QuietSpares DEF Preparing
<1>9. CASE \E n \in Notes : LogIntentFails(n)
  <2>1. PICK n \in Notes : LogIntentFails(n)
    BY <1>9
  <2>2. /\ run'.pc = "write" /\ run'.text = run.text /\ run'.mem = run.mem
        /\ hist'.offline = hist.offline /\ hist'.lost = hist.lost
        /\ UNCHANGED <<disk, journal, edits>>
    BY <2>1, LogIntentFailsEffect DEF LogIntentFails, RunKeeps, HistKeeps
  <2> QED
    BY <1>0, <2>2, QuietSpares DEF Preparing
<1>10. CASE WriteNote
  BY <1>0, <1>10, WriteNoteSpares
<1>11. CASE RecordWritten
  <2>1. /\ run'.pc \in {"renaming", "log"} /\ run'.text = run.text
        /\ run'.mem = [run.mem EXCEPT ![run.cur] = run.text[run.cur]]
        /\ UNCHANGED <<disk, journal, edits, hist>>
    BY <1>11, RecordWrittenEffect DEF RecordWritten, RunKeeps
  <2>2. run.mem \in [Notes -> Bytes \cup {Absent}]
    BY DEF TypeOK, Runs, Entries
  <2>3. \A m \in Notes : run'.mem[m] \in {run.mem[m], run.text[m]}
    BY <2>1, <2>2
  <2> QED
    BY <1>0, <2>1, <2>3, QuietSpares DEF Preparing
<1>12. CASE PhaseRenaming
  <2>1. /\ run'.pc = "rename" /\ run'.text = run.text /\ run'.mem = run.mem
        /\ journal'.bak = journal.bak /\ journal'.log = journal.log
        /\ UNCHANGED <<disk, edits, hist>>
    BY <1>12, PhaseRenamingEffect DEF PhaseRenaming, RunKeeps, JournalKeeps
  <2> QED
    BY <1>0, <2>1, QuietSpares DEF Preparing
<1>13. CASE RenameNote
  BY <1>0, <1>13, RenameNoteSpares
<1>14. CASE FlagRenamed
  <2>1. /\ run'.pc = "renamed" /\ run'.text = run.text /\ run'.mem = run.mem
        /\ UNCHANGED <<disk, journal, edits, hist>>
    BY <1>14, FlagRenamedEffect DEF FlagRenamed, RunKeeps
  <2> QED
    BY <1>0, <2>1, QuietSpares DEF Preparing
\* The end of a transaction forgets the texts.
<1>15. ASSUME run'.pc \in {"clean", "undo", "handler"}, run'.text = NoEntries,
              run'.mem = run.mem, journal'.bak = journal.bak,
              journal'.log = journal.log, UNCHANGED <<disk, edits>>,
              hist'.offline = hist.offline, hist'.lost = hist.lost
       PROVE  Spares'
  BY <1>0, <1>15, QuietSpares DEF Preparing, NoEntries
<1>16. CASE PhaseRenamed
  <2>1. journal'.bak = journal.bak /\ journal'.log = journal.log
    BY <1>16, PhaseRenamedEffect DEF JournalKeeps
  <2>2. UNCHANGED <<disk, edits>>
    BY <1>16 DEF PhaseRenamed
  <2>3. CASE Commit("trashed")
    BY <1>15, <2>1, <2>2, <2>3, CommitEffect DEF HistKeeps
  <2>4. CASE UNCHANGED hist /\ RunKeeps({"pc"}) /\ run'.pc = "verify"
    <3>1. run'.text = run.text /\ run'.mem = run.mem
      BY <2>4 DEF RunKeeps
    <3> QED
      BY <1>0, <2>1, <2>2, <2>4, <3>1, QuietSpares DEF Preparing
  <2> QED
    BY <1>16, <2>3, <2>4, PhaseRenamedEffect
<1>17. CASE Verify
  BY <1>15, <1>17, CommitEffect DEF Verify, HistKeeps
<1>18. CASE StatementRaises
  BY <1>15, <1>18, ToHandlerEffect DEF StatementRaises
<1>19. CASE Interrupted
  BY <1>15, <1>19, ToHandlerEffect, InterruptedEffect DEF Interrupted, HistKeeps
<1>20. CASE RemoveEntry
  BY <1>0, <1>20, RemoveEntryEffect, QuietSpares DEF RemoveEntry, Preparing
<1>21. CASE RemoveDirectory
  BY <1>0, <1>21, EndSpares DEF RemoveDirectory, NoJournal, NoEntries
<1>22. CASE HandlerMovesBack
  <2>1. /\ run'.pc = "undo" /\ run'.text = run.text /\ run'.mem = run.mem
        /\ UNCHANGED <<journal, edits>>
    BY <1>22 DEF HandlerMovesBack, TypeOK, Runs
  <2>2. CASE MovedBack
    BY <1>0, <2>1, <2>2, MovedBackSpares
  <2>3. CASE UNCHANGED <<disk, hist>>
    BY <1>0, <2>1, <2>3, QuietSpares DEF Preparing
  <2> QED
    BY <1>22, <2>2, <2>3 DEF HandlerMovesBack
<1>23. ASSUME NEW L, BeginClassify(L)
       PROVE  /\ run'.pc = "classify" /\ run'.text = run.text
              /\ run'.mem \in {run.mem, journal.log}
  BY <1>23, BeginClassifyEffect DEF RunKeeps
<1>24. CASE RollbackMovesBack
  <2>1. UNCHANGED <<journal, edits>> /\ BeginClassify({})
    BY <1>24 DEF RollbackMovesBack
  <2>2. CASE MovedBack
    BY <1>0, <1>23, <2>1, <2>2, MovedBackSpares
  <2>3. CASE UNCHANGED <<disk, hist>>
    BY <1>0, <1>23, <2>1, <2>3, QuietSpares DEF Preparing
  <2> QED
    BY <1>24, <2>2, <2>3 DEF RollbackMovesBack
<1>25. CASE RollbackMoveFails
  <2>1. UNCHANGED <<disk, journal, edits>> /\ BeginClassify({Src})
    BY <1>25 DEF RollbackMoveFails
  <2>2. hist'.offline = hist.offline /\ hist'.lost = hist.lost
    BY <1>25, RollbackMoveFailsEffect DEF HistKeeps
  <2> QED
    BY <1>0, <1>23, <2>1, <2>2, QuietSpares DEF Preparing
<1>26. CASE \E n \in Notes : LeaveNote(n) \/ ReportForeign(n)
  <2>1. PICK n \in Notes : LeaveNote(n) \/ ReportForeign(n)
    BY <1>26
  <2>2. /\ run'.pc = "classify" /\ run'.text = run.text /\ run'.mem = run.mem
        /\ UNCHANGED <<disk, journal, edits>>
    BY <2>1, LeaveNoteEffect, ReportForeignEffect
    DEF LeaveNote, ReportForeign, RunKeeps
  <2>3. hist'.offline = hist.offline /\ hist'.lost = hist.lost
    BY <2>1, LeaveNoteEffect DEF ReportForeign, HistKeeps
  <2> QED
    BY <1>0, <2>2, <2>3, QuietSpares DEF Preparing
<1>27. CASE \E n \in Notes : ChooseRestore(n)
  BY <1>0, <1>27, ChooseRestoreSpares
<1>28. CASE TruncateNote \/ FillNote
  BY <1>0, <1>28, TruncateNoteSpares, FillNoteSpares
<1>29. CASE EndRollback
  <2>1. CASE \E r \in {"traceback", "conflict"} : Exit(r)
    BY <1>0, <1>29, <2>1, EndSpares DEF EndRollback
  <2>2. CASE run' = [Idle EXCEPT !.op = run.op, !.pc = "clean",
                       !.ending = "rolled-back"]
    <3>1. run'.pc = "clean" /\ run'.text = NoEntries /\ run'.mem = NoEntries
      BY <2>2 DEF Idle
    <3> QED
      BY <1>0, <1>29, <3>1, QuietSpares DEF EndRollback, Preparing, NoEntries
  <2> QED
    BY <1>29, <2>1, <2>2 DEF EndRollback
<1>30. CASE DoctorRollback
  <2>1. /\ run'.pc = "undo" /\ run'.text = run.text /\ run'.mem = run.mem
        /\ UNCHANGED <<disk, journal, edits, hist>>
    BY <1>30, DoctorRollbackEffect DEF DoctorRollback, RunKeeps
  <2> QED
    BY <1>0, <2>1, QuietSpares DEF Preparing
<1>31. CASE DoctorDiscard
  <2>1. /\ run'.pc = "clean" /\ run'.text = run.text /\ run'.mem = run.mem
        /\ hist'.offline = hist.offline /\ hist'.lost = hist.lost
        /\ UNCHANGED <<disk, journal, edits>>
    BY <1>31, DoctorDiscardEffect DEF DoctorDiscard, RunKeeps, HistKeeps
  <2> QED
    BY <1>0, <2>1, QuietSpares DEF Preparing
<1>32. CASE Kill
  <2>1. /\ journal'.bak = journal.bak /\ journal'.log = journal.log
        /\ hist'.offline = hist.offline /\ hist'.lost = hist.lost
    BY <1>32, KillEffect DEF JournalKeeps, HistKeeps
  <2> QED
    BY <1>0, <1>32, <2>1, EndSpares DEF Kill
<1>33. CASE Editor
  BY <1>0, <1>33, EditorSpares
<1>34. CASE UNCHANGED vars
  <2>1. UNCHANGED <<disk, journal, run, edits, hist>>
    BY <1>34 DEF vars
  <2> QED
    BY <1>0, <2>1, QuietSpares DEF Preparing
<1> QED
  BY <1>1, <1>2, <1>3, <1>4, <1>5, <1>6, <1>7, <1>8, <1>9, <1>10, <1>11,
     <1>12, <1>13, <1>14, <1>16, <1>17, <1>18, <1>19, <1>20, <1>21, <1>22,
     <1>24, <1>25, <1>26, <1>27, <1>28, <1>29, <1>30, <1>31, <1>32, <1>33,
     <1>34 DEF Next, Step

\* A rollback that has a record of vv's writes never overwrites a save made
\* while no vv process ran, after a crash in particular: what it takes for its
\* own bytes was there before that save.
THEOREM OfflineEditsKept == Spec => []ClassifiedRollbackKeepsOfflineEdits
<1>1. TypeOK /\ Inv /\ Spares /\ [Next]_vars => Spares'
  BY NextSpares
<1>2. Spares => ClassifiedRollbackKeepsOfflineEdits
  BY DEF Spares
<1> QED
  BY <1>1, <1>2, InitSpares, Inductive, PTL DEF Spec

----------------------------------------------------------------------------
(* The links that a refactoring leaves behind.                             *)

Moving == {"flag", "renamed", "verify"}
Unedited(n) == {n, Where(n)} \cap hist.edited = {}

\* Only a refactoring is planned and tried, and only a relocation verified.
Kinds ==
  /\ run.pc \in Unmoved \cup Moving => run.op \in {"relocate", "trash"}
  /\ run.pc = "verify" => run.op = "relocate"

\* A note that the plan has not counted has no link to the old path, as long
\* as the editor leaves it alone.
Counted ==
  (run.op = "relocate" /\ (run.pc = "planned" => ~journal.dir)) =>
    /\ run.pc \in Unmoved =>
         \A n \in Notes \ run.hits : Unedited(n) => LinksOf(disk[n]) # "old"
    /\ run.pc \in Moving =>
         \A n \in Notes \ run.hits :
           Unedited(n) => LinksOf(disk[Where(n)]) # "old"

\* And once it has been moved the note is where it was moved to.
Arrived ==
  run.pc \in Moving => (hist.edited \cap {Src, Dest} = {} => AtDest)

\* What verification found holds until the run ends, and after it.
Verifying == (run.pc = "clean" /\ run.ending = "applied") \/ report = "applied"
Verified ==
  Verifying =>
    /\ hist.edited \cap {Src, Dest} = {} => AtDest
    /\ \A n \in Notes : Unedited(n) => LinksOf(disk[Where(n)]) # "old"

Applies == Kinds /\ Counted /\ Arrived /\ Verified

LEMMA InitApplies == Init => Applies
BY DEF Init, Applies, Kinds, Counted, Arrived, Verified, Verifying, Idle,
       Unmoved, Moving

\* A step outside the transaction that verifies nothing.
LEMMA ElsewhereApplies ==
  ASSUME run'.pc \notin Unmoved \cup Moving, ~Verifying'
  PROVE  Applies'
BY DEF Applies, Kinds, Counted, Arrived, Verified, Moving

\* A step that leaves the vault as it is.
LEMMA QuietApplies ==
  ASSUME Applies, UNCHANGED disk, hist'.edited = hist.edited,
         run'.pc \in Unmoved \cup Moving =>
           run'.op = run.op /\ run'.hits = run.hits,
         run'.pc \in Unmoved =>
           run.pc \in Unmoved /\ (run.pc = "planned" => ~journal.dir),
         run'.pc \in Moving => run.pc \in Moving,
         run'.pc = "verify" => run.op # "trash",
         Verifying' => Verifying
  PROVE  Applies'
<1>1. Kinds'
  BY DEF Applies, Kinds, Moving
<1>2. Counted'
  BY DEF Applies, Counted, Unedited, Where, Moving, Unmoved
<1>3. Arrived' /\ Verified'
  BY DEF Applies, Arrived, Verified, Unedited, Where, AtDest, Exists
<1> QED
  BY <1>1, <1>2, <1>3 DEF Applies

LEMMA PlanApplies ==
  ASSUME TypeOK, NEW op \in {"relocate", "trash"}, Plan(op)
  PROVE  Applies'
<1>1. /\ run'.pc = "planned" /\ run'.op = op /\ report' = "none"
      /\ UNCHANGED <<disk, journal>>
      /\ op = "relocate" => run'.hits = {n \in Notes : LinksOf(disk[n]) = "old"}
  BY PlanEffect DEF Plan
<1>2. Counted'
  BY <1>1 DEF Counted, Moving, LinksOf
<1> QED
  BY <1>1, <1>2 DEF Applies, Kinds, Arrived, Verified, Verifying, Moving

\* Only notes that the plan has counted are written.
LEMMA WriteNoteApplies ==
  ASSUME TypeOK, Inv, Applies, WriteNote
  PROVE  Applies'
<1>1. /\ run.pc = "write" /\ run'.pc = "record"
      /\ run'.op = run.op /\ run'.hits = run.hits
      /\ hist'.edited = hist.edited /\ report' = "none"
      /\ disk' = [disk EXCEPT ![run.cur] = run.text[run.cur]]
  BY WriteNoteEffect DEF WriteNote, RunKeeps, HistKeeps, Inv, Closed, Busy
<1>2. run.cur \in run.hits
  BY <1>1 DEF Inv, Composed
<1>3. \A n \in Notes \ run.hits : disk'[n] = disk[n]
  BY <1>1, <1>2 DEF TypeOK, Paths
<1>4. Counted'
  BY <1>1, <1>3 DEF Applies, Counted, Unedited, Where, LinksOf, Unmoved, Moving
<1>5. Kinds'
  BY <1>1 DEF Applies, Kinds, Unmoved
<1> QED
  BY <1>1, <1>4, <1>5 DEF Applies, Arrived, Verified, Verifying, Moving

LEMMA RenameNoteApplies ==
  ASSUME TypeOK, Inv, Applies, RenameNote
  PROVE  Applies'
<1>1. /\ run.pc = "rename" /\ run'.pc \in {"flag", "renamed"}
      /\ run'.op = run.op /\ run'.hits = run.hits
      /\ hist'.edited = hist.edited /\ report' = "none" /\ disk[Src] # Absent
      /\ disk' = [disk EXCEPT ![Dest] = disk[Src], ![Src] = Absent]
  BY RenameNoteEffect
  DEF RenameNote, RunKeeps, HistKeeps, Inv, Closed, Busy, Exists
<1>2. Src \in Paths /\ Dest \in Paths /\ Src # Dest
      /\ \A n \in Notes : n \in Paths /\ n # Dest
  BY NotesAssumption DEF Paths
<1>3. disk'[Dest] = disk[Src] /\ disk'[Src] = Absent
  BY <1>1, <1>2 DEF TypeOK
<1>4. \A n \in Notes : disk'[Where(n)] = disk[n]
  BY <1>1, <1>2, <1>3 DEF TypeOK, Where
<1>5. Counted'
  <2>1. ASSUME NEW n \in Notes \ run.hits, run.op = "relocate", Unedited(n)'
        PROVE  LinksOf(disk[Where(n)])' # "old"
    <3>1. Unedited(n)
      BY <1>1, <2>1 DEF Unedited, Where
    <3>2. LinksOf(disk[n]) # "old"
      BY <1>1, <2>1, <3>1 DEF Applies, Counted, Unmoved
    <3> QED
      BY <1>4, <3>2 DEF LinksOf, Where
  <2> QED
    BY <1>1, <2>1 DEF Counted, Unmoved
<1>6. Arrived'
  BY <1>1, <1>3 DEF Arrived, AtDest, Exists
<1>7. Kinds'
  BY <1>1 DEF Applies, Kinds, Unmoved
<1> QED
  BY <1>1, <1>5, <1>6, <1>7 DEF Applies, Verified, Verifying

\* The notes that were rewritten are found rewritten, and the others have no
\* link to rewrite.
LEMMA VerifyApplies ==
  ASSUME TypeOK, Inv, Applies, Verify
  PROVE  Applies'
<1>1. /\ run.pc = "verify" /\ run.op = "relocate" /\ run'.pc = "clean"
      /\ hist'.edited = hist.edited /\ UNCHANGED disk
  BY CommitEffect DEF Verify, HistKeeps, Applies, Kinds
<1>2. \A n \in Notes : Unedited(n) => LinksOf(disk[Where(n)]) # "old"
  BY <1>1 DEF Verify, StaleLink, Applies, Counted, Moving
<1>3. hist.edited \cap {Src, Dest} = {} => AtDest
  BY <1>1 DEF Applies, Arrived, Moving
<1>4. Verified'
  BY <1>1, <1>2, <1>3 DEF Verified, Unedited, Where, LinksOf, AtDest, Exists
<1> QED
  BY <1>1, <1>4 DEF Applies, Kinds, Counted, Arrived, Unmoved, Moving

LEMMA ExternalApplies ==
  ASSUME TypeOK, Applies, NEW ps \in SUBSET Paths, NEW moved,
         External(ps, moved),
         \A p \in Paths \ ps : disk'[p] = disk[p]
  PROVE  Applies'
<1>1. hist'.edited = hist.edited \cup ps /\ UNCHANGED <<journal, run, report>>
  BY ExternalEffect
<1>2. ASSUME NEW n \in Notes, Unedited(n)'
      PROVE  /\ Unedited(n) /\ disk'[n] = disk[n]
             /\ disk'[Where(n)] = disk[Where(n)]
  BY <1>1, <1>2 DEF Unedited, Where, Paths
<1>3. ASSUME hist'.edited \cap {Src, Dest} = {}
      PROVE  hist.edited \cap {Src, Dest} = {} /\ AtDest' = AtDest
  <2>1. Src \in Paths /\ Dest \in Paths
    BY NotesAssumption DEF Paths
  <2> QED
    BY <1>1, <1>3, <2>1 DEF AtDest, Exists
<1>4. Counted'
  <2>1. ASSUME NEW n \in Notes, Unedited(n)', LinksOf(disk[n]) # "old"
        PROVE  LinksOf(disk[n])' # "old"
    BY <1>2, <2>1 DEF LinksOf
  <2>2. ASSUME NEW n \in Notes, Unedited(n)', LinksOf(disk[Where(n)]) # "old"
        PROVE  LinksOf(disk[Where(n)])' # "old"
    BY <1>2, <2>2 DEF LinksOf, Where
  <2> QED
    BY <1>1, <1>2, <2>1, <2>2 DEF Applies, Counted
<1>5. Verified'
  <2>1. ASSUME NEW n \in Notes, Unedited(n)', LinksOf(disk[Where(n)]) # "old"
        PROVE  LinksOf(disk[Where(n)])' # "old"
    BY <1>2, <2>1 DEF LinksOf, Where
  <2> QED
    BY <1>1, <1>2, <1>3, <2>1 DEF Applies, Verified, Verifying
<1> QED
  BY <1>1, <1>3, <1>4, <1>5 DEF Applies, Kinds, Arrived

LEMMA EditorApplies ==
  ASSUME TypeOK, Applies, Editor
  PROVE  Applies'
<1>1. ASSUME NEW p \in Paths, NEW l \in {"old", "none"}, EditorSaves(p, l)
      PROVE  Applies'
  BY <1>1, ExternalApplies DEF EditorSaves, TypeOK
<1>2. ASSUME NEW p \in Paths, EditorDeletes(p) PROVE Applies'
  BY <1>2, ExternalApplies DEF EditorDeletes, TypeOK
<1>3. ASSUME NEW p \in Paths, NEW q \in Paths, EditorRenames(p, q)
      PROVE  Applies'
  BY <1>3, ExternalApplies DEF EditorRenames, TypeOK
<1> QED
  BY <1>1, <1>2, <1>3 DEF Editor

LEMMA NextApplies ==
  ASSUME TypeOK, Inv, Applies, [Next]_vars
  PROVE  Applies'
<1>0. Busy => report = "none"
  BY DEF Inv, Closed
\* A run that ends says "applied" only when it was verified.
<1>1. ASSUME NEW r, Exit(r), r # "applied" PROVE Applies'
  <2>1. run'.pc = "idle" /\ report' = r
    BY <1>1 DEF Exit, Idle
  <2> QED
    BY <1>1, <2>1, ElsewhereApplies DEF Verifying, Unmoved, Moving
<1>2. CASE User
  BY <1>2, PlanApplies DEF User
<1>3. CASE DirtyGate \/ SetupFails \/ HandlerMoveFails \/ NoManifest
             \/ BackupMissing \/ Kill
  BY <1>1, <1>3
  DEF DirtyGate, SetupFails, HandlerMoveFails, NoManifest, BackupMissing, Kill
\* A statement of the command that leaves the vault alone.
<1>4. ASSUME run.pc \in Unmoved, run'.pc \in Unmoved,
             run.pc = "planned" => ~journal.dir,
             run'.op = run.op, run'.hits = run.hits, UNCHANGED <<disk, report>>,
             hist'.edited = hist.edited
      PROVE  Applies'
  <2>1. ~Verifying'
    BY <1>0, <1>4 DEF Verifying, Unmoved, Busy
  <2> QED
    BY <1>4, <2>1, QuietApplies DEF Unmoved, Moving
<1>5. CASE MakeJournal \/ HashOriginal \/ WriteManifest \/ RecordWritten
             \/ PhaseRenaming
  <2>1. /\ run'.op = run.op /\ run'.hits = run.hits /\ run'.pc \in Unmoved
        /\ run.pc \in Unmoved
    BY <1>5, MakeJournalEffect, HashOriginalEffect, WriteManifestEffect,
       RecordWrittenEffect, PhaseRenamingEffect
    DEF RunKeeps, Unmoved, MakeJournal, HashOriginal, WriteManifest,
        RecordWritten, PhaseRenaming
  <2> QED
    BY <1>4, <1>5, <2>1
    DEF MakeJournal, HashOriginal, WriteManifest, RecordWritten, PhaseRenaming
<1>6. CASE \E n \in Notes : \/ CopyBackup(n) \/ ReadAndRewrite(n)
                            \/ LogIntent(n) \/ LogIntentFails(n)
  <2>1. PICK n \in Notes : \/ CopyBackup(n) \/ ReadAndRewrite(n)
                           \/ LogIntent(n) \/ LogIntentFails(n)
    BY <1>6
  <2>2. /\ run'.op = run.op /\ run'.hits = run.hits /\ run'.pc \in Unmoved
    BY <2>1, CopyBackupEffect, ReadAndRewriteEffect, LogIntentEffect,
       LogIntentFailsEffect DEF RunKeeps, Unmoved
  <2>3. run.pc \in Unmoved \ {"planned"} /\ UNCHANGED <<disk, report>>
    BY <2>1 DEF Unmoved, CopyBackup, ReadAndRewrite, LogIntent, LogIntentFails
  <2>4. hist'.edited = hist.edited
    BY <2>1, LogIntentFailsEffect
    DEF CopyBackup, ReadAndRewrite, LogIntent, HistKeeps
  <2> QED
    BY <1>4, <2>2, <2>3, <2>4
<1>7. CASE WriteNote \/ RenameNote \/ Verify
  BY <1>7, WriteNoteApplies, RenameNoteApplies, VerifyApplies
<1>8. CASE FlagRenamed
  <2>1. /\ run.pc = "flag" /\ run'.pc = "renamed" /\ run'.op = run.op
        /\ run'.hits = run.hits /\ UNCHANGED <<disk, report, hist>>
    BY <1>8, FlagRenamedEffect DEF FlagRenamed, RunKeeps
  <2>2. ~Verifying'
    BY <1>0, <2>1 DEF Verifying, Busy
  <2> QED
    BY <2>1, <2>2, QuietApplies DEF Unmoved, Moving
<1>9. CASE PhaseRenamed
  <2>1. run.pc = "renamed" /\ UNCHANGED <<disk, report>> /\ report = "none"
    BY <1>0, <1>9 DEF PhaseRenamed, Busy
  <2>2. CASE Commit("trashed")
    BY <2>1, <2>2, CommitEffect, ElsewhereApplies
    DEF Verifying, Unmoved, Moving
  <2>3. CASE /\ run.op # "trash" /\ UNCHANGED hist
             /\ RunKeeps({"pc"}) /\ run'.pc = "verify"
    <3>1. run'.op = run.op /\ run'.hits = run.hits
      BY <2>3 DEF RunKeeps
    <3> QED
      BY <2>1, <2>3, <3>1, QuietApplies DEF Verifying, Unmoved, Moving
  <2> QED
    BY <1>9, <2>2, <2>3, PhaseRenamedEffect
<1>10. CASE RemoveEntry
  BY <1>10, QuietApplies DEF RemoveEntry, Verifying, Unmoved, Moving
<1>11. CASE RemoveDirectory
  <2>1. /\ run.pc = "clean" /\ run'.pc = "idle" /\ report' = run.ending
        /\ UNCHANGED <<disk, hist>>
    BY <1>11 DEF RemoveDirectory, Exit, Idle
  <2> QED
    BY <2>1, QuietApplies DEF Verifying, Unmoved, Moving
\* A run that rolls back verifies nothing.
<1>12. ASSUME run'.pc \in {"handler", "undo", "classify", "restore",
                           "restoring"}, report' = "none"
       PROVE  Applies'
  BY <1>12, ElsewhereApplies DEF Verifying, Unmoved, Moving
<1>13. CASE StatementRaises \/ Interrupted
  <2>1. Busy
    BY <1>13
    DEF StatementRaises, Interrupted, MustRaise, FailingCleanup, Fallible,
        InTry, Busy
  <2> QED
    BY <1>0, <1>12, <1>13, <2>1, ToHandlerEffect
    DEF StatementRaises, Interrupted
<1>14. CASE HandlerMovesBack \/ RollbackMovesBack \/ RollbackMoveFails
  <2>1. run.pc # "idle" /\ UNCHANGED report
    BY <1>14 DEF HandlerMovesBack, RollbackMovesBack, RollbackMoveFails
  <2>2. HandlerMovesBack => run'.pc = "undo"
    BY DEF HandlerMovesBack, TypeOK, Runs
  <2>3. RollbackMovesBack \/ RollbackMoveFails => run'.pc = "classify"
    BY BeginClassifyEffect DEF RollbackMovesBack, RollbackMoveFails
  <2> QED
    BY <1>0, <1>12, <1>14, <2>1, <2>2, <2>3 DEF Busy
<1>15. CASE \/ \E n \in Notes :
                 LeaveNote(n) \/ ReportForeign(n) \/ ChooseRestore(n)
            \/ TruncateNote \/ FillNote
  <2>1. run.pc # "idle" /\ UNCHANGED report
    BY <1>15
    DEF LeaveNote, ReportForeign, ChooseRestore, TruncateNote, FillNote
  <2>2. run'.pc \in {"classify", "restore", "restoring"}
    BY <1>15, LeaveNoteEffect, ReportForeignEffect, ChooseRestoreEffect,
       TruncateNoteEffect, FillNoteEffect
    DEF RunKeeps, LeaveNote, ReportForeign
  <2> QED
    BY <1>0, <1>12, <2>1, <2>2 DEF Busy
<1>16. CASE EndRollback
  <2>1. CASE \E r \in {"traceback", "conflict"} : Exit(r)
    BY <1>1, <2>1
  <2>2. CASE /\ UNCHANGED report
             /\ run' = [Idle EXCEPT !.op = run.op, !.pc = "clean",
                          !.ending = "rolled-back"]
    <3>1. run'.pc = "clean" /\ run'.ending = "rolled-back" /\ report' = "none"
      BY <1>0, <1>16, <2>2 DEF Idle, EndRollback, Busy
    <3> QED
      BY <3>1, ElsewhereApplies DEF Verifying, Unmoved, Moving
  <2> QED
    BY <1>16, <2>1, <2>2 DEF EndRollback
<1>17. CASE DoctorRollback
  BY <1>12, <1>17, DoctorRollbackEffect DEF DoctorRollback
<1>18. CASE DoctorDiscard
  <2>1. run'.pc = "clean" /\ run'.ending = "discarded" /\ report' = "none"
    BY <1>18, DoctorDiscardEffect DEF DoctorDiscard
  <2> QED
    BY <2>1, ElsewhereApplies DEF Verifying, Unmoved, Moving
<1>19. CASE Editor
  BY <1>19, EditorApplies
<1>20. CASE UNCHANGED vars
  BY <1>20
  DEF vars, Applies, Kinds, Counted, Arrived, Verified, Verifying, Unedited,
      Where, LinksOf, AtDest, Exists
<1> QED
  BY <1>2, <1>3, <1>5, <1>6, <1>7, <1>8, <1>9, <1>10, <1>11, <1>13, <1>14,
     <1>15, <1>16, <1>17, <1>18, <1>19, <1>20 DEF Next, Step

\* "applied: ... verification clean" is true: the note is at its new path and
\* no note that the editor has left alone since the plan links to the old one,
\* whatever the editor did to the others while the command ran.
THEOREM AppliedIsComplete == Spec => []AppliedComplete
<1>1. TypeOK /\ Inv /\ Applies /\ [Next]_vars => Applies'
  BY NextApplies
<1>2. Applies => AppliedComplete
  BY DEF Applies, Verified, Verifying, Unedited, AppliedComplete
<1> QED
  BY <1>1, <1>2, InitApplies, Inductive, PTL DEF Spec

----------------------------------------------------------------------------
(* Where the vault stands, relative to what the plan found.                *)

\* Every file of a manifest has its hash, and so has every file that is done
\* while the manifest is made.
Hashed ==
  /\ journal.phase # "none" => \A n \in journal.files : journal.sha[n] # Absent
  /\ run.pc \in Preparing => \A n \in Targets \ run.todo : journal.sha[n] # Absent
  /\ run.pc \in Settlement =>
       journal.phase # "none" /\ run.todo \subseteq journal.files

\* Nobody else has written since the plan, and the note can be found.
Calm == hist.edited = {} /\ Dest \notin hist.escaped

\* The plan found the note, and nothing where it was to go.
Ends == hist.before[Src] # Absent /\ hist.before[Dest] = Absent

Rewritable(n) == LinksOf(hist.before[n]) = "old"
After(n) == Rewrite(hist.before[n])

\* The bytes of note n, wherever it is.
Content(n) == IF n = Src /\ ~Exists(Src) THEN disk[Dest] ELSE disk[n]
Changed(n) == Content(n) # hist.before[n]

\* Until it has read the notes the command finds them as the plan did.
Reading ==
  (run.pc = "planned" /\ ~journal.dir) \/ run.pc \in Preparing \cup {"read"}
Unread == Reading => disk = hist.before

\* Of a note there are only two versions, of which the journal has the first,
\* and the record, the texts and the map of what was written the second.
Original(b, n) == b = Absent \/ b = hist.before[n]
Rewritten(b, n) == b = Absent \/ (Rewritable(n) /\ b = After(n))
Versions ==
  \A n \in Notes :
    /\ Original(journal.bak[n], n) /\ Original(journal.sha[n], n)
    /\ Rewritten(journal.log[n], n)
    /\ Rewritten(run.text[n], n) /\ Rewritten(run.mem[n], n)

\* On disk there is one or the other, unless a copy was cut off.
Whole ==
  \A n \in Notes :
    \/ ~Changed(n)
    \/ Rewritable(n) /\ Content(n) = After(n)
    \/ hist.cut
    \/ run.pc = "restoring" /\ n = run.cur

\* The journal knows every note that is changed.
Journaled ==
  \A n \in Notes : Changed(n) =>
    \/ n \in hist.escaped
    \/ journal.phase = "none"
    \/ n \in journal.files /\ (journal.logged => journal.log[n] # Absent)

\* In the transaction it is recorded.
Noted ==
  run.pc \in InTry =>
    \A n \in Notes : Changed(n) =>
      /\ n \in run.hits
      /\ n \in hist.escaped \/ (journal.logged /\ journal.log[n] # Absent)

\* So does the map that the rollback classifies or will classify with.
Classifying ==
  \/ run.op = "relocate" /\ run.pc \in InTry \cup {"handler", "undo"}
  \/ run.op = "relocate" /\ run.pc = "clean"
       /\ run.ending \in {"applied", "trashed"}
  \/ run.classify /\ run.pc \in Settlement
Mapped ==
  Classifying =>
    \A n \in Notes : Changed(n) =>
      \/ n \in hist.escaped
      \/ run.mem[n] # Absent
      \/ run.pc = "record" /\ n = run.cur

\* During the classification what is changed is still to be looked at, being
\* restored, or listed as left.
Listed ==
  run.pc \in Settlement =>
    \A n \in Notes : Changed(n) =>
      \/ n \in hist.escaped \cup run.todo \cup run.left
      \/ run.pc # "classify" /\ n = run.cur

\* Only what is changed is restored.
Chosen ==
  /\ run.pc = "restore" => Changed(run.cur)
  /\ run.pc = "restoring" => disk[run.cur] = Torn

\* Without a cut nothing is left alone.
NoneLeft ==
  ~hist.cut => /\ run.pc \in Settlement => run.left = {}
               /\ report # "conflict"

\* And a rollback that is over has undone everything.
Undoing == (run.pc = "clean" /\ run.ending = "rolled-back")
             \/ report = "rolled-back"
Undone == Undoing => (hist.escaped = {} => disk = hist.before)

Traces ==
  /\ Unread /\ Versions /\ Whole
  /\ Journaled /\ Noted /\ Mapped /\ Listed /\ Chosen
  /\ NoneLeft /\ Undone

Traced == Fresh /\ Hashed /\ Ends /\ (Calm => Traces)

LEMMA InitHashed == Init => Hashed /\ Ends
<1>1. Init => Hashed
  BY DEF Init, Hashed, Idle, NoJournal, Preparing, Settlement
<1>2. Init => Ends
  BY NotesAssumption DEF Init, Ends, NothingYet
<1> QED
  BY <1>1, <1>2

LEMMA QuietHashed ==
  ASSUME Hashed,
         \/ journal'.phase = "none"
         \/ /\ journal.phase # "none"
            /\ journal'.files = journal.files /\ journal'.sha = journal.sha,
         run'.pc \notin Preparing,
         run'.pc \in Settlement =>
           /\ run.pc \in Settlement \/ run'.todo = journal.files
           /\ journal.phase # "none" /\ UNCHANGED journal
           /\ run'.todo \subseteq run.todo \/ run'.todo = journal.files
  PROVE  Hashed'
BY DEF Hashed

LEMMA NextHashed ==
  ASSUME TypeOK, Inv, Fresh, Hashed, [Next]_vars
  PROVE  Hashed'
\* A run that stops, ends or goes back.
<1>1. ASSUME UNCHANGED journal, run'.pc \notin Preparing \cup Settlement
      PROVE  Hashed'
  BY <1>1, QuietHashed DEF Hashed
<1>2. ASSUME NEW r, Exit(r), UNCHANGED journal PROVE Hashed'
  BY <1>1, <1>2 DEF Exit, Idle, Preparing, Settlement
<1>3. CASE User
  BY <1>1, <1>3, PlanEffect DEF User, Plan, Preparing, Settlement
<1>4. CASE MakeJournal
  <2>1. Targets' = Targets
    BY <1>4, MakeJournalEffect DEF Targets, RunKeeps
  <2> QED
    BY <1>4, <2>1, MakeJournalEffect DEF Hashed, Settlement
<1>5. CASE \E n \in Notes : CopyBackup(n)
  <2>1. PICK n \in Notes : CopyBackup(n)
    BY <1>5
  <2>2. /\ run.pc = "copy" /\ run'.pc = "hash" /\ run'.op = run.op
        /\ run'.hits = run.hits /\ run'.todo = run.todo
    BY <2>1, CopyBackupEffect DEF CopyBackup, RunKeeps
  <2>3. /\ journal'.phase = journal.phase /\ journal'.files = journal.files
        /\ journal'.sha = journal.sha
    BY <2>1, CopyBackupEffect DEF JournalKeeps
  <2>4. Targets' = Targets
    BY <2>2 DEF Targets
  <2> QED
    BY <2>2, <2>3, <2>4 DEF Hashed, Settlement, Preparing
<1>6. CASE HashOriginal
  <2>1. /\ run.pc = "hash" /\ run'.pc \in {"manifest", "copy"}
        /\ Targets' = Targets /\ run'.todo = run.todo \ {run.cur}
        /\ journal'.phase = journal.phase /\ journal'.files = journal.files
        /\ journal'.sha = [journal.sha EXCEPT ![run.cur] = disk[run.cur]]
    <3>1. /\ run'.op = run.op /\ run'.hits = run.hits
          /\ journal'.phase = journal.phase /\ journal'.files = journal.files
          /\ run.pc = "hash" /\ run'.pc \in {"manifest", "copy"}
          /\ run'.todo = run.todo \ {run.cur}
          /\ journal'.sha = [journal.sha EXCEPT ![run.cur] = disk[run.cur]]
      <4>1. /\ RunKeeps({"pc", "todo"}) /\ JournalKeeps({"sha"})
            /\ run'.pc \in {"manifest", "copy"}
            /\ run'.todo = run.todo \ {run.cur}
            /\ journal'.sha = [journal.sha EXCEPT ![run.cur] = disk[run.cur]]
        BY <1>6, HashOriginalEffect
      <4>2. run.pc = "hash"
        BY <1>6 DEF HashOriginal
      <4> QED
        BY <4>1, <4>2 DEF RunKeeps, JournalKeeps
    <3>2. Targets' = Targets
      BY <3>1 DEF Targets
    <3> QED
      BY <3>1, <3>2
  <2>2. /\ journal.sha \in [Notes -> Bytes \cup {Absent}]
        /\ Targets \subseteq Notes /\ journal.files \subseteq Notes
    BY NotesAssumption DEF TypeOK, Journals, Entries, Runs, Targets
  <2>3. disk[run.cur] # Absent
    BY <1>6 DEF HashOriginal, Exists
  <2>4. \A n \in Notes : journal'.sha[n] \in {journal.sha[n], disk[run.cur]}
                           /\ (n = run.cur => journal'.sha[n] = disk[run.cur])
    BY <2>1, <2>2
  <2>5. \A n \in Targets \ run.todo : journal.sha[n] # Absent
    BY <2>1 DEF Hashed, Preparing
  <2>6. \A n \in Targets' \ run'.todo : journal'.sha[n] # Absent
    BY <2>1, <2>2, <2>3, <2>4, <2>5
  <2>7. journal.phase = "none"
    BY <2>1 DEF Inv, Prepared
  <2> QED
    BY <2>1, <2>6, <2>7 DEF Hashed, Settlement
<1>7. CASE WriteManifest
  <2>1. /\ run.pc = "manifest" /\ run'.pc \in {"renaming", "read"}
        /\ journal'.files = Targets /\ journal'.sha = journal.sha
    BY <1>7, WriteManifestEffect DEF WriteManifest, JournalKeeps
  <2>2. run.todo = {}
    BY <2>1 DEF Inv, Prepared
  <2> QED
    BY <2>1, <2>2 DEF Hashed, Preparing, Settlement
<1>8. CASE \E n \in Notes : LogIntent(n)
  <2>1. PICK n \in Notes : LogIntent(n)
    BY <1>8
  <2>2. /\ run'.pc = "write" /\ journal'.phase = journal.phase
        /\ journal'.files = journal.files /\ journal'.sha = journal.sha
    BY <2>1, LogIntentEffect DEF JournalKeeps
  <2> QED
    BY <2>2, QuietHashed DEF Preparing, Settlement
<1>9. CASE PhaseRenaming \/ PhaseRenamed
  <2>1. run.pc \in {"renaming", "renamed"}
    BY <1>9 DEF PhaseRenaming, PhaseRenamed
  <2>2. journal.phase # "none"
    BY <2>1 DEF Inv, Covered, InTry
  <2>3. run'.pc \in {"rename", "clean", "verify"}
    BY <1>9, PhaseRenamingEffect, PhaseRenamedEffect, CommitEffect
  <2>4. journal'.files = journal.files /\ journal'.sha = journal.sha
    BY <1>9, PhaseRenamingEffect, PhaseRenamedEffect DEF JournalKeeps
  <2> QED
    BY <2>2, <2>3, <2>4, QuietHashed DEF Preparing, Settlement
<1>10. CASE RemoveEntry
  <2>1. run'.pc = "clean"
    BY <1>10 DEF RemoveEntry
  <2> QED
    BY <1>10, <2>1, RemoveEntryEffect, QuietHashed DEF Preparing, Settlement
<1>11. CASE RemoveDirectory
  BY <1>11, QuietHashed
  DEF RemoveDirectory, NoJournal, Exit, Idle, Preparing, Settlement
<1>12. CASE Kill
  <2>1. /\ journal'.phase = journal.phase
        /\ journal'.files = journal.files /\ journal'.sha = journal.sha
    BY <1>12, KillEffect DEF JournalKeeps
  <2>2. run'.pc = "idle"
    BY <1>12 DEF Kill, Exit, Idle
  <2> QED
    BY <2>1, <2>2, QuietHashed DEF Preparing, Settlement
<1>13. CASE DirtyGate \/ SetupFails \/ HandlerMoveFails \/ NoManifest
              \/ BackupMissing
  BY <1>2, <1>13
  DEF DirtyGate, SetupFails, HandlerMoveFails, NoManifest, BackupMissing
<1>14. CASE EndRollback
  <2>1. CASE \E r \in {"traceback", "conflict"} : Exit(r)
    BY <1>2, <1>14, <2>1 DEF EndRollback
  <2>2. CASE run' = [Idle EXCEPT !.op = run.op, !.pc = "clean",
                       !.ending = "rolled-back"]
    <3>1. run'.pc = "clean"
      BY <2>2 DEF Idle
    <3> QED
      BY <1>1, <1>14, <3>1 DEF EndRollback, Preparing, Settlement
  <2> QED
    BY <1>14, <2>1, <2>2 DEF EndRollback
<1>15. CASE \/ \E n \in Notes : ReadAndRewrite(n) \/ LogIntentFails(n)
            \/ WriteNote \/ RecordWritten \/ RenameNote \/ FlagRenamed
  <2>1. UNCHANGED journal
    BY <1>15
    DEF ReadAndRewrite, LogIntentFails, WriteNote, RecordWritten, RenameNote,
        FlagRenamed
  <2>2. run'.pc \in {"read", "log", "write", "record", "renaming", "renamed",
                     "flag"}
    BY <1>15, ReadAndRewriteEffect, LogIntentFailsEffect, WriteNoteEffect,
       RecordWrittenEffect, RenameNoteEffect, FlagRenamedEffect
  <2> QED
    BY <1>1, <2>1, <2>2 DEF Preparing, Settlement
<1>16. CASE Verify \/ StatementRaises \/ Interrupted
  <2>1. run'.pc \in {"clean", "undo", "handler"} /\ UNCHANGED journal
    BY <1>16, CommitEffect, ToHandlerEffect
    DEF Verify, StatementRaises, Interrupted
  <2> QED
    BY <1>1, <2>1 DEF Preparing, Settlement
<1>17. CASE HandlerMovesBack
  <2>1. UNCHANGED journal /\ run'.pc = "undo"
    BY <1>17 DEF HandlerMovesBack, TypeOK, Runs
  <2> QED
    BY <1>1, <2>1 DEF Preparing, Settlement
<1>18. CASE RollbackMovesBack \/ RollbackMoveFails
  <2>1. /\ UNCHANGED journal /\ run'.pc = "classify"
        /\ run'.todo = journal.files /\ journal.phase # "none"
    BY <1>18, BeginClassifyEffect DEF RollbackMovesBack, RollbackMoveFails
  <2> QED
    BY <2>1, QuietHashed DEF Preparing
<1>19. CASE \E n \in Notes :
              LeaveNote(n) \/ ReportForeign(n) \/ ChooseRestore(n)
  <2>1. PICK n \in Notes : LeaveNote(n) \/ ReportForeign(n) \/ ChooseRestore(n)
    BY <1>19
  <2>2. /\ run.pc = "classify" /\ run'.pc \in {"classify", "restore"}
        /\ run'.todo = run.todo \ {n} /\ UNCHANGED journal
    BY <2>1, LeaveNoteEffect, ReportForeignEffect, ChooseRestoreEffect
    DEF RunKeeps, LeaveNote, ReportForeign, ChooseRestore
  <2> QED
    BY <2>2 DEF Hashed, Preparing, Settlement
<1>20. CASE TruncateNote \/ FillNote
  <2>1. /\ run.pc \in {"restore", "restoring"}
        /\ run'.pc \in {"restoring", "classify"}
        /\ run'.todo = run.todo /\ UNCHANGED journal
    BY <1>20, TruncateNoteEffect, FillNoteEffect
    DEF RunKeeps, TruncateNote, FillNote
  <2> QED
    BY <2>1 DEF Hashed, Preparing, Settlement
<1>21. CASE DoctorRollback \/ DoctorDiscard
  <2>1. UNCHANGED journal /\ run'.pc \in {"undo", "clean"}
    BY <1>21, DoctorRollbackEffect, DoctorDiscardEffect
    DEF DoctorRollback, DoctorDiscard
  <2> QED
    BY <1>1, <2>1 DEF Preparing, Settlement
<1>22. CASE Editor \/ UNCHANGED vars
  <2>1. UNCHANGED <<journal, run>>
    BY <1>22
    DEF Editor, EditorSaves, EditorDeletes, EditorRenames, External, vars
  <2> QED
    BY <2>1 DEF Hashed, Targets
<1> QED
  BY <1>3, <1>4, <1>5, <1>6, <1>7, <1>8, <1>9, <1>10, <1>11, <1>12, <1>13,
     <1>14, <1>15, <1>16, <1>17, <1>18, <1>19, <1>20, <1>21, <1>22
  DEF Next, Step

\* As long as it is calm the note is at one end, and found there.
LEMMA CalmHome ==
  ASSUME Inv, Calm
  PROVE  /\ Exists(Src) <=> ~Exists(Dest)
         /\ run.pc \in Unmoved \cup Settlement => Exists(Src)
BY DEF Inv, Home, Calm

LEMMA ContentAtHome ==
  ASSUME Exists(Src)
  PROVE  \A n \in Notes : Content(n) = disk[n]
BY DEF Content

LEMMA RewrittenIsText ==
  ASSUME NEW n, Rewritable(n)
  PROVE  After(n) \in Text /\ After(n) # Absent /\ LinksOf(After(n)) = "new"
<1>1. hist.before[n] \in Text
  BY DEF Rewritable, LinksOf
<1>2. After(n) \in Text /\ After(n).links = "new"
  BY <1>1 DEF After, Rewrite, Text, Links
<1> QED
  BY <1>2, SentinelAssumption DEF LinksOf, Bytes

\* What is the plan's vault is all of it as it was.
LEMMA PristineTraces ==
  ASSUME disk' = hist'.before, hist'.before[Src] # Absent, Versions',
         run'.pc \notin Settlement, report' # "conflict"
  PROVE  Traces'
<1>1. \A n \in Notes : Content(n)' = disk'[n]
  BY DEF Content, Exists
<1>2. \A n \in Notes : ~Changed(n)'
  BY <1>1 DEF Changed
<1> QED
  BY <1>2
  DEF Traces, Unread, Whole, Journaled, Noted, Mapped, Listed, Chosen,
      NoneLeft, Undone, Settlement

LEMMA StillVersions ==
  ASSUME Versions, hist'.before = hist.before,
         \A n \in Notes :
           /\ journal'.bak[n] \in {journal.bak[n], Absent}
           /\ journal'.sha[n] \in {journal.sha[n], Absent}
           /\ journal'.log[n] \in {journal.log[n], run.text[n], Absent}
           /\ run'.text[n] \in {run.text[n], Absent}
           /\ run'.mem[n]
                \in {run.mem[n], journal.log[n], run.text[n], Absent}
  PROVE  Versions'
BY DEF Versions, Original, Rewritten, Rewritable, After

\* A step outside the rollback's loop that changes no note.
LEMMA StillTraces ==
  ASSUME Traces, Versions', hist'.before = hist.before,
         \A n \in Notes : Content(n)' = Content(n),
         ~Reading', run'.pc \notin Settlement,
         hist.cut \/ run.pc = "restoring" => hist'.cut,
         \A n \in Notes : Changed(n) /\ n \notin hist'.escaped =>
           /\ \/ journal'.phase = "none"
              \/ /\ n \in journal'.files
                 /\ journal'.logged => journal'.log[n] # Absent
           /\ run'.pc \in InTry => journal'.logged /\ journal'.log[n] # Absent
           /\ Classifying' =>
                run'.mem[n] # Absent \/ (run'.pc = "record" /\ n = run'.cur),
         \A n \in Notes : Changed(n) /\ run'.pc \in InTry => n \in run'.hits,
         report' = "conflict" => hist'.cut,
         Undone'
  PROVE  Traces'
<1>1. \A n \in Notes : Changed(n)' <=> Changed(n)
  BY DEF Changed
<1>2. Whole'
  BY <1>1 DEF Traces, Whole, Rewritable, After
<1>3. Journaled' /\ Noted' /\ Mapped'
  BY <1>1 DEF Journaled, Noted, Mapped
<1>4. Unread' /\ Listed' /\ Chosen' /\ NoneLeft'
  BY DEF Unread, Listed, Chosen, NoneLeft, Settlement
<1> QED
  BY <1>2, <1>3, <1>4 DEF Traces

LEMMA SameContent ==
  ASSUME UNCHANGED disk
  PROVE  \A n \in Notes : Content(n)' = Content(n)
BY DEF Content, Exists

\* A run that ends without having touched the vault.
LEMMA EndTraces ==
  ASSUME TypeOK, Traces, NEW r, Exit(r), UNCHANGED disk,
         hist'.before = hist.before, hist'.escaped = hist.escaped,
         hist.cut \/ run.pc = "restoring" => hist'.cut,
         \A n \in Notes :
           /\ journal'.bak[n] \in {journal.bak[n], Absent}
           /\ journal'.sha[n] \in {journal.sha[n], Absent}
           /\ journal'.log[n] \in {journal.log[n], Absent},
         \A n \in Notes : Changed(n) /\ n \notin hist'.escaped =>
           \/ journal'.phase = "none"
           \/ /\ n \in journal'.files
              /\ journal'.logged => journal'.log[n] # Absent,
         r = "conflict" => hist'.cut,
         r = "rolled-back" => Undoing
  PROVE  Traces'
<1>1. /\ run'.pc = "idle" /\ run'.text = NoEntries /\ run'.mem = NoEntries
      /\ report' = r
  BY DEF Exit, Idle
<1>2. Versions'
  BY <1>1, StillVersions DEF Traces, NoEntries
<1>3. Undone'
  BY <1>1 DEF Undone, Undoing, Traces
<1>4. ~Reading' /\ ~Classifying' /\ run'.pc \notin InTry \cup Settlement
  BY <1>1 DEF Reading, Classifying, Preparing, InTry, Settlement
<1> QED
  BY <1>1, <1>2, <1>3, <1>4, SameContent, StillTraces

LEMMA PlanTraces ==
  ASSUME TypeOK, Fresh, Calm => Traces, NEW op \in {"relocate", "trash"},
         Plan(op), Calm'
  PROVE  Traces'
<1>1. /\ run'.pc = "planned" /\ run'.text = run.text /\ run'.mem = run.mem
      /\ run.pc = "idle" /\ run = Idle /\ report' = "none"
      /\ UNCHANGED <<disk, journal>> /\ disk[Src] # Absent
  BY PlanEffect DEF Plan, RunKeeps, Fresh, Busy, Exists
<1>2. CASE journal.dir
  <2>1. /\ hist'.before = hist.before /\ hist'.escaped = hist.escaped
        /\ hist'.edited = hist.edited /\ hist'.cut = hist.cut
    BY <1>2, PlanEffect DEF HistKeeps
  <2>2. Traces
    BY <2>1 DEF Calm
  <2>3. Versions'
    BY <1>1, <2>1, <2>2, StillVersions DEF Traces
  <2>4. ~Reading' /\ ~Classifying' /\ run'.pc \notin InTry \cup Settlement
    BY <1>1, <1>2 DEF Reading, Classifying, Preparing, InTry, Settlement
  <2>5. Undone'
    BY <1>1 DEF Undone, Undoing
  <2> QED
    BY <1>1, <2>1, <2>2, <2>3, <2>4, <2>5, SameContent, StillTraces
    DEF Traces, Journaled
<1>3. CASE ~journal.dir
  <2>1. hist'.before = disk
    BY <1>3, PlanEffect
  <2>2. Versions'
    BY <1>1, <1>3
    DEF Versions, Original, Rewritten, Fresh, NoJournal, NoEntries, Idle
  <2> QED
    BY <1>1, <2>1, <2>2, PristineTraces DEF Settlement
<1> QED
  BY <1>2, <1>3

\* While the journal is made.
LEMMA PreparingTraces ==
  ASSUME TypeOK, Inv, Traces, Ends,
         \/ MakeJournal \/ HashOriginal \/ WriteManifest
         \/ \E n \in Notes : CopyBackup(n)
  PROVE  Traces'
<1>1. /\ UNCHANGED <<disk, report, hist>> /\ disk = hist.before
      /\ run.pc \in {"planned"} \cup Preparing
  BY DEF MakeJournal, HashOriginal, WriteManifest, CopyBackup, Traces, Unread,
         Reading, Preparing
<1>2. /\ run'.text = run.text /\ run'.mem = run.mem
      /\ run'.pc \in Preparing \cup {"renaming", "read"}
  BY MakeJournalEffect, HashOriginalEffect, WriteManifestEffect,
     CopyBackupEffect DEF RunKeeps, Preparing
<1>3. report # "conflict"
  BY <1>1 DEF Inv, Closed, Busy, Preparing
<1>4. \A n \in Notes :
        /\ journal'.bak[n] \in {journal.bak[n], Absent, disk[n]}
        /\ journal'.sha[n] \in {journal.sha[n], Absent, disk[n]}
        /\ journal'.log[n] \in {journal.log[n], Absent}
  <2>0. journal.bak \in Entries /\ journal.sha \in Entries
    BY DEF TypeOK, Journals
  <2>1. CASE MakeJournal
    BY <2>1, MakeJournalEffect DEF NoEntries
  <2>2. CASE HashOriginal
    <3>1. /\ journal'.bak = journal.bak /\ journal'.log = journal.log
          /\ journal'.sha = [journal.sha EXCEPT ![run.cur] = disk[run.cur]]
      BY <2>2, HashOriginalEffect DEF JournalKeeps
    <3> QED
      BY <2>0, <3>1 DEF Entries
  <2>3. CASE WriteManifest
    BY <2>3, WriteManifestEffect DEF JournalKeeps
  <2>4. CASE \E n \in Notes : CopyBackup(n)
    <3>1. PICK m \in Notes : CopyBackup(m)
      BY <2>4
    <3>2. /\ journal'.sha = journal.sha /\ journal'.log = journal.log
          /\ journal'.bak = [journal.bak EXCEPT ![m] = disk[m]]
      BY <3>1, CopyBackupEffect DEF JournalKeeps
    <3> QED
      BY <2>0, <3>2 DEF Entries
  <2> QED
    BY <2>1, <2>2, <2>3, <2>4
<1>5. Versions'
  BY <1>1, <1>2, <1>4
  DEF Traces, Versions, Original, Rewritten, Rewritable, After
<1> QED
  BY <1>1, <1>2, <1>3, <1>5, PristineTraces DEF Ends, Preparing, Settlement

LEMMA ReadAndRewriteTraces ==
  ASSUME TypeOK, Inv, Traces, Ends, NEW n \in Notes, ReadAndRewrite(n)
  PROVE  Traces'
<1>1. /\ UNCHANGED <<disk, journal, report, hist>> /\ run.pc = "read"
      /\ LinksOf(disk[n]) = "old"
      /\ run'.text = [run.text EXCEPT ![n] = Rewrite(disk[n])]
      /\ run'.mem = run.mem /\ run'.pc \in {"read", "log"}
  BY ReadAndRewriteEffect DEF ReadAndRewrite, RunKeeps
<1>2. disk = hist.before /\ report # "conflict"
  BY <1>1 DEF Traces, Unread, Reading, Inv, Closed, Busy
<1>3. run.text \in [Notes -> Bytes \cup {Absent}]
  BY DEF TypeOK, Runs, Entries
<1>4. \A m \in Notes : Rewritten(run.text[m], m)'
  <2>1. \A m \in Notes :
          run'.text[m] = IF m = n THEN After(n) ELSE run.text[m]
    BY <1>1, <1>2, <1>3 DEF After
  <2>2. Rewritable(n)
    BY <1>1, <1>2 DEF Rewritable
  <2> QED
    BY <1>1, <2>1, <2>2 DEF Traces, Versions, Rewritten, Rewritable, After
<1>5. Versions'
  BY <1>1, <1>4 DEF Traces, Versions, Original, Rewritten, Rewritable, After
<1> QED
  BY <1>1, <1>2, <1>5, PristineTraces DEF Ends, Settlement

\* A statement of the transaction that changes no note: what was known of
\* every changed note still is.
LEMMA TryTraces ==
  ASSUME TypeOK, Inv, Traces, run.pc \in InTry, run'.pc \in InTry \ {"read"},
         UNCHANGED report, hist'.before = hist.before, hist'.cut = hist.cut,
         hist.escaped \subseteq hist'.escaped,
         \A n \in Notes : Content(n)' = Content(n),
         run'.hits = run.hits, run'.op = run.op,
         journal'.files = journal.files, journal.logged => journal'.logged,
         \A n \in Notes :
           /\ journal'.bak[n] = journal.bak[n] /\ journal'.sha[n] = journal.sha[n]
           /\ journal'.log[n] \in {journal.log[n], run.text[n]}
           /\ journal.log[n] # Absent => journal'.log[n] # Absent
           /\ run'.text[n] = run.text[n]
           /\ run'.mem[n] \in {run.mem[n], run.text[n]}
           /\ run.mem[n] # Absent => run'.mem[n] # Absent,
         \/ run.pc # "record"
         \/ run'.mem[run.cur] # Absent
  PROVE  Traces'
<1>1. report' = "none"
  BY DEF Inv, Closed, Busy, InTry
<1>2. Versions'
  BY StillVersions DEF Traces
<1>3. Undone'
  BY <1>1 DEF Undone, Undoing, InTry
<1>4. ~Reading' /\ run'.pc \notin Settlement
  BY DEF Reading, Preparing, InTry, Settlement
<1>5. run'.pc # "restoring" /\ run.pc # "restoring"
  BY DEF InTry
<1>6. ASSUME NEW n \in Notes, Changed(n)
      PROVE  /\ n \in run.hits
             /\ n \in hist.escaped \/ (journal.logged /\ journal.log[n] # Absent)
             /\ n \in journal.files
  BY <1>6 DEF Traces, Noted, Inv, Covered
<1>7. ASSUME NEW n \in Notes, Changed(n), n \notin hist.escaped, Classifying'
      PROVE  run'.mem[n] # Absent
  <2>1. Classifying
    BY <1>4, <1>7 DEF Classifying, InTry
  <2> QED
    BY <1>7, <2>1 DEF Traces, Mapped
<1> QED
  BY <1>1, <1>2, <1>3, <1>4, <1>5, <1>6, <1>7, StillTraces

LEMMA LogTraces ==
  ASSUME TypeOK, Inv, Traces, NEW n \in Notes, LogIntent(n) \/ LogIntentFails(n)
  PROVE  Traces'
<1>1. /\ run.pc = "log" /\ run'.pc = "write" /\ run'.hits = run.hits
      /\ run'.op = run.op /\ run'.text = run.text /\ run'.mem = run.mem
      /\ UNCHANGED <<disk, report>>
  BY LogIntentEffect, LogIntentFailsEffect
  DEF LogIntent, LogIntentFails, RunKeeps
<1>2. /\ hist'.before = hist.before /\ hist'.cut = hist.cut
      /\ hist.escaped \subseteq hist'.escaped
  BY LogIntentFailsEffect DEF LogIntent, HistKeeps
<1>3. /\ journal'.files = journal.files /\ (journal.logged => journal'.logged)
      /\ journal'.bak = journal.bak /\ journal'.sha = journal.sha
  BY LogIntentEffect DEF LogIntentFails, JournalKeeps
<1>4. run.text[n] # Absent
  BY <1>1 DEF LogIntent, LogIntentFails, Inv, Composed
<1>5. \A m \in Notes : /\ journal'.log[m] \in {journal.log[m], run.text[m]}
                       /\ journal.log[m] # Absent => journal'.log[m] # Absent
  <2>1. CASE LogIntent(n)
    <3>1. journal.log \in Entries
      BY DEF TypeOK, Journals
    <3>2. journal'.log = [journal.log EXCEPT ![n] = run.text[n]]
      BY <2>1, LogIntentEffect
    <3> QED
      BY <1>4, <3>1, <3>2 DEF Entries
  <2>2. CASE LogIntentFails(n)
    BY <2>2 DEF LogIntentFails
  <2> QED
    BY <2>1, <2>2
<1> QED
  BY <1>1, <1>2, <1>3, <1>5, SameContent, TryTraces DEF InTry

LEMMA WriteNoteTraces ==
  ASSUME TypeOK, Inv, Traces, Calm, WriteNote
  PROVE  Traces'
<1>1. /\ run.pc = "write" /\ run'.pc = "record" /\ run'.hits = run.hits
      /\ run'.op = run.op /\ run'.text = run.text /\ run'.mem = run.mem
      /\ run'.cur = run.cur /\ UNCHANGED <<journal, report>>
      /\ hist'.before = hist.before /\ hist'.cut = hist.cut
      /\ hist'.escaped = hist.escaped /\ report = "none"
      /\ disk' = [disk EXCEPT ![run.cur] = run.text[run.cur]]
  BY WriteNoteEffect
  DEF WriteNote, RunKeeps, HistKeeps, Inv, Closed, Busy
<1>2. PICK c \in Notes : c = run.cur
  BY DEF TypeOK, Runs
<1>3. /\ c \in run.hits /\ c \in journal.files /\ run.text[c] # Absent
      /\ c \in hist.escaped \/ (journal.logged /\ journal.log[c] # Absent)
  BY <1>1, <1>2 DEF Inv, Composed, Covered, InTry
<1>4. Rewritable(c) /\ run.text[c] = After(c)
  BY <1>3 DEF Traces, Versions, Rewritten
<1>5. /\ disk'[c] = After(c) /\ c \in Paths /\ Src \in Notes
      /\ \A n \in Notes \ {c} : disk'[n] = disk[n]
  BY <1>1, <1>2, <1>4, NotesAssumption DEF TypeOK, Paths
<1>6. Exists(Src) /\ Exists(Src)'
  BY <1>1, <1>4, <1>5, CalmHome, RewrittenIsText DEF Unmoved, Exists
<1>7. /\ Content(c)' = After(c)
      /\ \A n \in Notes \ {c} : Content(n)' = Content(n)
  BY <1>5, <1>6 DEF Content
<1>8. \A n \in Notes \ {c} : Changed(n)' <=> Changed(n)
  BY <1>1, <1>7 DEF Changed
<1>9. Versions'
  BY <1>1, StillVersions DEF Traces
<1>10. Whole'
  BY <1>1, <1>2, <1>4, <1>7, <1>8 DEF Traces, Whole, Rewritable, After
<1>11. Journaled' /\ Noted'
  BY <1>1, <1>3, <1>8 DEF Traces, Journaled, Noted, InTry
<1>12. Mapped'
  BY <1>1, <1>2, <1>8
  DEF Traces, Mapped, Classifying, InTry, Settlement
<1> QED
  BY <1>1, <1>9, <1>10, <1>11, <1>12
  DEF Traces, Unread, Reading, Listed, Chosen, NoneLeft, Undone, Undoing,
      Preparing, Settlement

LEMMA RecordWrittenTraces ==
  ASSUME TypeOK, Inv, Traces, RecordWritten
  PROVE  Traces'
<1>1. /\ run.pc = "record" /\ run'.pc \in {"renaming", "log"}
      /\ run'.hits = run.hits /\ run'.op = run.op /\ run'.text = run.text
      /\ run'.mem = [run.mem EXCEPT ![run.cur] = run.text[run.cur]]
      /\ UNCHANGED <<disk, journal, report, hist>>
  BY RecordWrittenEffect DEF RecordWritten, RunKeeps
<1>2. run.cur \in Notes /\ run.mem \in Entries
  BY DEF TypeOK, Runs
<1>3. run.text[run.cur] # Absent
  BY <1>1 DEF Inv, Composed
<1>4. /\ run'.mem[run.cur] # Absent
      /\ \A n \in Notes : /\ run'.mem[n] \in {run.mem[n], run.text[n]}
                          /\ run.mem[n] # Absent => run'.mem[n] # Absent
  BY <1>1, <1>2, <1>3 DEF Entries
<1> QED
  BY <1>1, <1>4, SameContent, TryTraces DEF InTry

LEMMA RenameNoteTraces ==
  ASSUME TypeOK, Inv, Traces, Calm, RenameNote
  PROVE  Traces'
<1>1. /\ run.pc = "rename" /\ run'.pc \in {"flag", "renamed"}
      /\ run'.hits = run.hits /\ run'.op = run.op /\ run'.text = run.text
      /\ run'.mem = run.mem /\ UNCHANGED <<journal, report>>
      /\ hist'.before = hist.before /\ hist'.cut = hist.cut
      /\ hist'.escaped = hist.escaped /\ disk[Src] # Absent
      /\ disk' = [disk EXCEPT ![Dest] = disk[Src], ![Src] = Absent]
  BY RenameNoteEffect DEF RenameNote, RunKeeps, HistKeeps, Exists
<1>2. Src \in Paths /\ Dest \in Paths /\ Src # Dest
      /\ \A n \in Notes : n \in Paths /\ n # Dest
  BY NotesAssumption DEF Paths
<1>3. /\ disk'[Dest] = disk[Src] /\ disk'[Src] = Absent
      /\ \A n \in Notes \ {Src} : disk'[n] = disk[n]
  BY <1>1, <1>2 DEF TypeOK
<1>4. \A n \in Notes : Content(n)' = Content(n)
  BY <1>1, <1>3 DEF Content, Exists
<1> QED
  BY <1>1, <1>4, TryTraces DEF InTry

\* The last statements of the transaction: a phase, a flag.
LEMMA PhaseTraces ==
  ASSUME TypeOK, Inv, Traces,
         \/ PhaseRenaming \/ FlagRenamed
         \/ PhaseRenamed /\ run.op # "trash"
  PROVE  Traces'
<1>1. /\ run.pc \in {"renaming", "flag", "renamed"}
      /\ run'.pc \in {"rename", "renamed", "verify"}
      /\ run'.hits = run.hits /\ run'.op = run.op /\ run'.text = run.text
      /\ run'.mem = run.mem /\ UNCHANGED <<disk, report, hist>>
  BY PhaseRenamingEffect, FlagRenamedEffect
  DEF PhaseRenaming, FlagRenamed, PhaseRenamed, RunKeeps, TypeOK, Runs
<1>2. /\ journal'.files = journal.files /\ journal'.logged = journal.logged
      /\ journal'.bak = journal.bak /\ journal'.sha = journal.sha
      /\ journal'.log = journal.log
  BY PhaseRenamingEffect, PhaseRenamedEffect DEF FlagRenamed, JournalKeeps
<1> QED
  BY <1>1, <1>2, SameContent, TryTraces DEF InTry

\* The transaction is left, by a commit or for the handler.
LEMMA LeaveTraces ==
  ASSUME TypeOK, Inv, Traces, run.pc \in InTry \cup {"clean"},
         run.pc = "clean" => run.ending \in {"applied", "trashed"},
         run'.pc \in {"clean", "handler", "undo"},
         run'.pc = "clean" => run.pc # "record" /\ run'.ending # "rolled-back",
         run'.op = run.op, run'.mem = run.mem, run'.text = NoEntries,
         UNCHANGED <<disk, report>>, hist'.before = hist.before,
         hist'.cut = hist.cut, hist.escaped \subseteq hist'.escaped,
         run.pc = "record" => run.cur \in hist'.escaped,
         journal'.bak = journal.bak, journal'.sha = journal.sha,
         journal'.log = journal.log, journal'.logged = journal.logged,
         journal'.files = journal.files,
         journal.phase = "none" => journal'.phase = "none"
  PROVE  Traces'
<1>1. report' = "none"
  BY DEF Inv, Closed, Busy, InTry
<1>2. Versions'
  BY StillVersions DEF Traces, NoEntries
<1>3. Undone'
  BY <1>1 DEF Undone, Undoing
<1>4. ~Reading' /\ run'.pc \notin InTry \cup Settlement
  BY DEF Reading, Preparing, InTry, Settlement
<1>5. run.pc # "restoring"
  BY DEF InTry
<1>6. ASSUME NEW n \in Notes, Changed(n), n \notin hist'.escaped
      PROVE  /\ \/ journal'.phase = "none"
                \/ /\ n \in journal'.files
                   /\ journal'.logged => journal'.log[n] # Absent
             /\ Classifying' => run'.mem[n] # Absent
  <2>1. n \notin hist.escaped /\ ~(run.pc = "record" /\ n = run.cur)
    BY <1>6
  <2>2. Classifying' => Classifying
    BY <1>4 DEF Classifying
  <2> QED
    BY <1>6, <2>1, <2>2 DEF Traces, Journaled, Mapped
<1> QED
  BY <1>1, <1>2, <1>3, <1>4, <1>5, <1>6, SameContent, StillTraces

LEMMA CommitTraces ==
  ASSUME TypeOK, Inv, Traces,
         Verify \/ (PhaseRenamed /\ run.op = "trash")
  PROVE  Traces'
<1>1. \E ending \in {"applied", "trashed"} : Commit(ending)
  BY DEF Verify, PhaseRenamed
<1>2. /\ run'.pc = "clean" /\ run'.ending \in {"applied", "trashed"}
      /\ run'.op = run.op /\ run'.mem = run.mem /\ run'.text = NoEntries
      /\ hist'.before = hist.before /\ hist'.cut = hist.cut
      /\ hist'.escaped = hist.escaped
  BY <1>1, CommitEffect DEF HistKeeps
<1>3. run.pc \in {"renamed", "verify"} /\ UNCHANGED <<disk, report>>
  BY DEF Verify, PhaseRenamed
<1>4. /\ journal'.bak = journal.bak /\ journal'.sha = journal.sha
      /\ journal'.log = journal.log /\ journal'.logged = journal.logged
      /\ journal'.files = journal.files
  BY PhaseRenamedEffect DEF Verify, JournalKeeps
<1>5. journal.phase # "none" \/ UNCHANGED journal
  BY <1>3 DEF Inv, Covered, InTry
<1> QED
  BY <1>2, <1>3, <1>4, <1>5, LeaveTraces DEF InTry

LEMMA ToHandlerTraces ==
  ASSUME TypeOK, Inv, Traces, StatementRaises \/ Interrupted
  PROVE  Traces'
<1>1. /\ run'.pc \in {"undo", "handler"} /\ run'.op = run.op
      /\ run'.mem = run.mem /\ run'.text = NoEntries
      /\ UNCHANGED <<disk, journal, report>>
  BY ToHandlerEffect DEF StatementRaises, Interrupted
<1>2. /\ hist'.before = hist.before /\ hist'.cut = hist.cut
      /\ hist.escaped \subseteq hist'.escaped
      /\ Interrupted /\ run.pc = "record" => run.cur \in hist'.escaped
  BY InterruptedEffect DEF StatementRaises, HistKeeps
<1>3. /\ run.pc \in InTry \cup {"clean"}
      /\ run.pc = "clean" => run.ending \in {"applied", "trashed"}
      /\ StatementRaises => run.pc # "record"
  BY DEF StatementRaises, Interrupted, MustRaise, FailingCleanup, Fallible,
         InTry
<1> QED
  BY <1>1, <1>2, <1>3, LeaveTraces

LEMMA RemoveEntryTraces ==
  ASSUME TypeOK, Inv, Traces, RemoveEntry
  PROVE  Traces'
<1>1. run.pc = "clean" /\ UNCHANGED <<disk, run, report, hist>>
  BY DEF RemoveEntry
<1>2. Versions'
  BY <1>1, RemoveEntryEffect, StillVersions DEF Traces
<1>3. ~Reading' /\ run'.pc \notin InTry \cup Settlement
  BY <1>1 DEF Reading, Preparing, InTry, Settlement
<1>4. \A n \in Notes : Changed(n) /\ n \notin hist'.escaped =>
        \/ journal'.phase = "none"
        \/ n \in journal'.files /\ (journal'.logged => journal'.log[n] # Absent)
  BY <1>1, RemoveEntryEffect DEF Traces, Journaled
<1>5. Classifying' => Classifying
  BY <1>1 DEF Classifying
<1>6. \A n \in Notes : Changed(n) /\ n \notin hist'.escaped /\ Classifying' =>
        run'.mem[n] # Absent
  BY <1>1, <1>5 DEF Traces, Mapped
<1>7. Undone' /\ (report' = "conflict" => hist'.cut)
  BY <1>1 DEF Traces, Undone, Undoing, NoneLeft
<1> QED
  BY <1>1, <1>2, <1>3, <1>4, <1>6, <1>7, SameContent, StillTraces

\* The note is moved back: each of the files has the bytes it had.
LEMMA MovedBackContent ==
  ASSUME TypeOK, AtDest, MovedBack
  PROVE  \A n \in Notes : Content(n)' = Content(n)
<1>1. /\ disk'[Src] = disk[Dest] /\ disk[Dest] # Absent /\ disk[Src] = Absent
      /\ \A n \in Notes \ {Src} : disk'[n] = disk[n]
  BY MovedBackEffect DEF AtDest, Exists
<1> QED
  BY <1>1 DEF Content, Exists

LEMMA HandlerMovesBackTraces ==
  ASSUME TypeOK, Inv, Traces, HandlerMovesBack
  PROVE  Traces'
<1>1. /\ run.pc = "handler" /\ run'.pc = "undo" /\ run'.op = run.op
      /\ run'.text = run.text /\ run'.mem = run.mem
      /\ UNCHANGED <<journal, report>>
  BY DEF HandlerMovesBack, TypeOK, Runs
<1>2. /\ hist'.before = hist.before /\ hist'.cut = hist.cut
      /\ hist'.escaped = hist.escaped
      /\ \A n \in Notes : Content(n)' = Content(n)
  <2>1. CASE UNCHANGED <<disk, hist>>
    BY <2>1, SameContent
  <2>2. CASE AtDest /\ MovedBack
    BY <2>2, MovedBackEffect, MovedBackContent DEF HistKeeps
  <2> QED
    BY <2>1, <2>2 DEF HandlerMovesBack
<1>3. report' = "none"
  BY <1>1 DEF Inv, Closed, Busy
<1>4. Versions'
  BY <1>1, <1>2, StillVersions DEF Traces
<1>5. ~Reading' /\ run'.pc \notin InTry \cup Settlement /\ Undone'
  BY <1>1, <1>3
  DEF Reading, Preparing, InTry, Settlement, Undone, Undoing
<1>6. Classifying' => Classifying
  BY <1>1 DEF Classifying, Settlement
<1>7. \A n \in Notes : Changed(n) /\ n \notin hist'.escaped =>
        /\ \/ journal'.phase = "none"
           \/ n \in journal'.files
                /\ (journal'.logged => journal'.log[n] # Absent)
        /\ Classifying' => run'.mem[n] # Absent
  BY <1>1, <1>2, <1>6 DEF Traces, Journaled, Mapped
<1> QED
  BY <1>1, <1>2, <1>3, <1>4, <1>5, <1>7, StillTraces

\* The rollback begins: everything that is changed is in the journal, and in
\* the map it has chosen to classify with.
LEMMA RollbackMovesBackTraces ==
  ASSUME TypeOK, Inv, Traces, RollbackMovesBack
  PROVE  Traces'
<1>1. /\ run.pc = "undo" /\ run'.pc = "classify" /\ run'.op = run.op
      /\ run'.text = run.text /\ run'.todo = journal.files /\ run'.left = {}
      /\ run'.mem = IF run.op = "relocate" THEN run.mem ELSE journal.log
      /\ run'.classify = (run.op = "relocate" \/ journal.logged)
      /\ journal.phase # "none" /\ UNCHANGED <<journal, report>>
  BY BeginClassifyEffect DEF RollbackMovesBack, RunKeeps
<1>2. /\ hist'.before = hist.before /\ hist'.cut = hist.cut
      /\ hist'.escaped = hist.escaped
      /\ \A n \in Notes : Content(n)' = Content(n)
  <2>1. CASE UNCHANGED <<disk, hist>>
    BY <2>1, SameContent
  <2>2. CASE AtDest /\ MovedBack
    BY <2>2, MovedBackEffect, MovedBackContent DEF HistKeeps
  <2> QED
    BY <2>1, <2>2 DEF RollbackMovesBack
<1>3. report' = "none"
  BY <1>1 DEF Inv, Closed, Busy
<1>4. \A n \in Notes : Changed(n)' <=> Changed(n)
  BY <1>2 DEF Changed
<1>5. Versions'
  BY <1>1, <1>2, StillVersions DEF Traces
<1>6. Whole'
  BY <1>1, <1>2, <1>4 DEF Traces, Whole, Rewritable, After
<1>7. Journaled' /\ Listed'
  BY <1>1, <1>2, <1>4 DEF Traces, Journaled, Listed
<1>8. Mapped'
  <2>1. ASSUME NEW n \in Notes, Changed(n), n \notin hist.escaped, run'.classify
        PROVE  run'.mem[n] # Absent
    <3>1. CASE run.op = "relocate"
      BY <1>1, <2>1, <3>1 DEF Traces, Mapped, Classifying
    <3>2. CASE run.op # "relocate"
      BY <1>1, <2>1, <3>2 DEF Traces, Journaled
    <3> QED
      BY <3>1, <3>2
  <2> QED
    BY <1>1, <1>2, <1>4, <2>1 DEF Mapped, Classifying, InTry
<1> QED
  BY <1>1, <1>3, <1>5, <1>6, <1>7, <1>8
  DEF Traces, Unread, Reading, Noted, Chosen, NoneLeft, Undone, Undoing,
      Preparing, InTry

\* A note at which the rollback looks holds what the plan found or what vv
\* wrote, and the map knows it.
LEMMA LookedAt ==
  ASSUME TypeOK, Inv, Traced, Calm, run.pc = "classify", NEW n \in run.todo
  PROVE  /\ n \in Notes /\ Content(n) = disk[n]
         /\ Untouched(n) <=> ~Changed(n)
         /\ NotOurs(n) /\ Changed(n) => n \in hist.escaped
         /\ Changed(n) /\ ~hist.cut /\ ~NotOurs(n) => ~Foreign(n)
<1>1. n \in Notes /\ Exists(Src)
  BY CalmHome DEF TypeOK, Runs, Settlement
<1>2. Content(n) = disk[n]
  BY <1>1, ContentAtHome
<1>3. journal.sha[n] = hist.before[n] /\ journal.sha[n] # Absent
  BY <1>1 DEF Traced, Hashed, Traces, Versions, Original, Settlement
<1>4. Untouched(n) <=> ~Changed(n)
  BY <1>2, <1>3 DEF Untouched, Changed, Exists
<1>5. NotOurs(n) /\ Changed(n) => n \in hist.escaped
  BY <1>1 DEF NotOurs, Traced, Traces, Mapped, Classifying, Settlement
<1>6. ASSUME Changed(n), ~hist.cut, ~NotOurs(n) PROVE ~Foreign(n)
  <2>1. disk[n] = After(n)
    BY <1>1, <1>2, <1>6 DEF Traced, Traces, Whole
  <2>2. run.classify => run.mem[n] = After(n)
    BY <1>1, <1>6 DEF NotOurs, Traced, Traces, Versions, Rewritten
  <2> QED
    BY <2>1, <2>2 DEF Foreign
<1> QED
  BY <1>1, <1>2, <1>4, <1>5, <1>6

\* One turn of the rollback's loop that leaves the note as it is.
LEMMA TurnTraces ==
  ASSUME TypeOK, Inv, Traced, Calm, run.pc = "classify", NEW n \in run.todo,
         UNCHANGED <<disk, journal, report>>,
         hist'.before = hist.before, hist'.cut = hist.cut,
         hist'.escaped = hist.escaped,
         run'.op = run.op, run'.text = run.text, run'.mem = run.mem,
         run'.classify = run.classify, run'.todo = run.todo \ {n},
         \/ /\ run'.pc = "classify" /\ run'.left = run.left
            /\ Changed(n) => n \in hist.escaped
         \/ /\ run'.pc = "classify" /\ run'.left = run.left \cup {n} /\ hist.cut
         \/ /\ run'.pc = "restore" /\ run'.left = run.left /\ run'.cur = n
            /\ Changed(n)
  PROVE  Traces'
<1> USE DEF Traced
<1>1. \A m \in Notes : Content(m)' = Content(m) /\ (Changed(m)' <=> Changed(m))
  BY SameContent DEF Changed
<1>2. report' = "none"
  BY DEF Inv, Closed, Busy
<1>3. Versions'
  BY StillVersions DEF Traces
<1>4. Whole'
  BY <1>1 DEF Traces, Whole, Rewritable, After
<1>5. Journaled'
  BY <1>1 DEF Traces, Journaled
<1>6. Mapped'
  BY <1>1 DEF Traces, Mapped, Classifying, InTry, Settlement
<1>7. Listed'
  BY <1>1 DEF Traces, Listed, Settlement
<1>8. Chosen'
  <2>1. n \in Notes
    BY DEF TypeOK, Runs
  <2>2. run'.pc = "restore" => Changed(n)' /\ run'.cur = n
    BY <1>1, <2>1
  <2>3. run'.pc # "restoring"
    OBVIOUS
  <2> QED
    BY <2>2, <2>3 DEF Chosen, Changed, Content
<1>9. NoneLeft'
  BY <1>2 DEF Traces, NoneLeft, Settlement
<1> QED
  BY <1>2, <1>3, <1>4, <1>5, <1>6, <1>7, <1>8, <1>9
  DEF Traces, Unread, Reading, Noted, Undone, Undoing, Preparing, InTry

LEMMA LoopTraces ==
  ASSUME TypeOK, Inv, Traced, Calm, NEW n \in Notes,
         LeaveNote(n) \/ ReportForeign(n) \/ ChooseRestore(n)
  PROVE  Traces'
<1>1. /\ run.pc = "classify" /\ n \in run.todo
      /\ UNCHANGED <<disk, journal, report>>
  BY DEF LeaveNote, ReportForeign, ChooseRestore
<1>2. /\ hist'.before = hist.before /\ hist'.cut = hist.cut
      /\ hist'.escaped = hist.escaped
  BY LeaveNoteEffect DEF ReportForeign, ChooseRestore, HistKeeps
<1>3. /\ run'.op = run.op /\ run'.text = run.text /\ run'.mem = run.mem
      /\ run'.classify = run.classify /\ run'.todo = run.todo \ {n}
  BY LeaveNoteEffect, ReportForeignEffect, ChooseRestoreEffect DEF RunKeeps
<1>4. CASE LeaveNote(n)
  <2>1. run'.pc = "classify" /\ run'.left = run.left
    BY <1>1, <1>4, LeaveNoteEffect DEF RunKeeps
  <2>2. Changed(n) => n \in hist.escaped
    BY <1>1, <1>4, LookedAt DEF LeaveNote
  <2> QED
    BY <1>1, <1>2, <1>3, <2>1, <2>2, TurnTraces
<1>5. CASE ReportForeign(n)
  <2>1. run'.pc = "classify" /\ run'.left = run.left \cup {n}
    BY <1>1, <1>5, ReportForeignEffect DEF RunKeeps
  <2>2. hist.cut
    BY <1>1, <1>5, LookedAt DEF ReportForeign
  <2> QED
    BY <1>1, <1>2, <1>3, <2>1, <2>2, TurnTraces
<1>6. CASE ChooseRestore(n)
  <2>1. run'.pc = "restore" /\ run'.left = run.left /\ run'.cur = n
    BY <1>6, ChooseRestoreEffect DEF RunKeeps
  <2>2. Changed(n)
    BY <1>1, <1>6, LookedAt DEF ChooseRestore
  <2> QED
    BY <1>1, <1>2, <1>3, <2>1, <2>2, TurnTraces
<1> QED
  BY <1>4, <1>5, <1>6

\* A note of the loop is overwritten.
LEMMA RestoringContent ==
  ASSUME TypeOK, Inv, Calm, run.pc \in {"restore", "restoring"}, NEW b,
         b # Absent, disk' = [disk EXCEPT ![run.cur] = b]
  PROVE  /\ Exists(Src) /\ Exists(Src)'
         /\ \A n \in Notes :
              /\ Content(n)' = IF n = run.cur THEN b ELSE Content(n)
              /\ disk'[n] = Content(n)'
<1>1. PICK c \in Notes : c = run.cur
  BY DEF TypeOK, Runs
<1>2. /\ disk'[c] = b /\ Src \in Notes
      /\ \A n \in Notes \ {c} : disk'[n] = disk[n]
  BY <1>1, NotesAssumption DEF TypeOK, Paths
<1>3. Exists(Src) /\ Exists(Src)'
  BY <1>2, CalmHome DEF Settlement, Exists
<1>4. \A n \in Notes : Content(n)' = disk'[n] /\ Content(n) = disk[n]
  BY <1>3 DEF Content
<1> QED
  BY <1>1, <1>2, <1>3, <1>4

LEMMA TruncateNoteTraces ==
  ASSUME TypeOK, Inv, Traced, Calm, TruncateNote
  PROVE  Traces'
<1> USE DEF Traced
<1>1. /\ run.pc = "restore" /\ run'.pc = "restoring" /\ run'.cur = run.cur
      /\ run'.op = run.op /\ run'.text = run.text /\ run'.mem = run.mem
      /\ run'.classify = run.classify /\ run'.todo = run.todo
      /\ run'.left = run.left /\ hist'.before = hist.before
      /\ hist'.cut = hist.cut /\ hist'.escaped = hist.escaped
      /\ disk' = [disk EXCEPT ![run.cur] = Torn]
      /\ UNCHANGED <<journal, report>>
  BY TruncateNoteEffect DEF TruncateNote, RunKeeps, HistKeeps
<1>2. Torn # Absent
  BY SentinelAssumption DEF Bytes
<1>3. PICK c \in Notes : c = run.cur
  BY DEF TypeOK, Runs
<1>4. /\ \A n \in Notes \ {c} : Content(n)' = Content(n)
      /\ disk'[c] = Torn
  BY <1>1, <1>2, <1>3, RestoringContent
<1>5. \A n \in Notes \ {c} : Changed(n)' <=> Changed(n)
  BY <1>1, <1>4 DEF Changed
<1>6. Changed(c) /\ report' = "none"
  BY <1>1, <1>3 DEF Traces, Chosen, Inv, Closed, Busy
<1>7. Versions'
  BY <1>1, StillVersions DEF Traces
<1>8. Whole'
  BY <1>1, <1>3, <1>4, <1>5 DEF Traces, Whole, Rewritable, After
<1>9. Journaled' /\ Mapped'
  BY <1>1, <1>5, <1>6
  DEF Traces, Journaled, Mapped, Classifying, InTry, Settlement
<1>10. Listed'
  BY <1>1, <1>3, <1>5 DEF Traces, Listed, Settlement
<1>11. Chosen'
  BY <1>1, <1>3, <1>4 DEF Chosen
<1> QED
  BY <1>1, <1>6, <1>7, <1>8, <1>9, <1>10, <1>11
  DEF Traces, Unread, Reading, Noted, NoneLeft, Undone, Undoing, Preparing,
      InTry, Settlement

LEMMA FillNoteTraces ==
  ASSUME TypeOK, Inv, Traced, Calm, FillNote
  PROVE  Traces'
<1> USE DEF Traced
<1>1. /\ run.pc = "restoring" /\ run'.pc = "classify"
      /\ run'.op = run.op /\ run'.text = run.text /\ run'.mem = run.mem
      /\ run'.classify = run.classify /\ run'.todo = run.todo
      /\ run'.left = run.left /\ hist'.before = hist.before
      /\ hist'.cut = hist.cut /\ hist'.escaped = hist.escaped
      /\ UNCHANGED <<journal, report>>
  BY FillNoteEffect DEF FillNote, RunKeeps, HistKeeps
<1>2. disk[run.cur] # Absent
  BY <1>1, SentinelAssumption DEF Traces, Chosen, Bytes
<1>3. PICK c \in Notes : c = run.cur
  BY DEF TypeOK, Runs
<1>4. journal.bak[c] # Absent /\ journal.bak[c] = hist.before[c]
  BY <1>1, <1>3
  DEF Inv, Accounted, Settlement, Traces, Versions, Original
<1>5. disk' = [disk EXCEPT ![run.cur] = journal.bak[c]]
  BY <1>2, <1>3 DEF FillNote, Exists
<1>6. /\ \A n \in Notes \ {c} : Content(n)' = Content(n)
      /\ Content(c)' = hist.before[c]
  BY <1>1, <1>3, <1>4, <1>5, RestoringContent
<1>7. /\ \A n \in Notes \ {c} : Changed(n)' <=> Changed(n)
      /\ ~Changed(c)'
  BY <1>1, <1>6 DEF Changed
<1>8. report' = "none"
  BY <1>1 DEF Inv, Closed, Busy
<1>9. Versions'
  BY <1>1, StillVersions DEF Traces
<1>10. Whole'
  BY <1>1, <1>3, <1>6, <1>7 DEF Traces, Whole, Rewritable, After
<1>11. Journaled' /\ Mapped'
  BY <1>1, <1>7
  DEF Traces, Journaled, Mapped, Classifying, InTry, Settlement
<1>12. Listed'
  BY <1>1, <1>3, <1>7 DEF Traces, Listed, Settlement
<1> QED
  BY <1>1, <1>8, <1>9, <1>10, <1>11, <1>12
  DEF Traces, Unread, Reading, Noted, Chosen, NoneLeft, Undone, Undoing,
      Preparing, InTry, Settlement

\* When nothing is left to look at and nothing escaped, all is as it was.
LEMMA NothingChanged ==
  ASSUME TypeOK, Inv, Traced, TypeOK, Calm, run.pc = "classify", run.todo = {},
         run.left = {}, hist.escaped = {}
  PROVE  disk = hist.before
<1>1. Exists(Src) /\ ~Exists(Dest)
  BY CalmHome DEF Settlement
<1>2. \A n \in Notes : disk[n] = hist.before[n]
  BY <1>1, ContentAtHome DEF Traced, Traces, Listed, Changed, Settlement
<1>3. disk[Dest] = hist.before[Dest]
  BY <1>1 DEF Exists, Traced, Ends
<1>4. \A p \in Paths : disk[p] = hist.before[p]
  BY <1>2, <1>3 DEF Paths
<1>5. /\ disk \in [Paths -> Bytes \cup {Absent}]
      /\ hist.before \in [Paths -> Bytes \cup {Absent}]
  BY DEF TypeOK, Histories
<1> QED
  BY <1>4, <1>5

LEMMA EndRollbackTraces ==
  ASSUME TypeOK, Inv, Traced, Calm, EndRollback
  PROVE  Traces'
<1> USE DEF Traced
<1>1. /\ run.pc = "classify" /\ run.todo = {}
      /\ UNCHANGED <<disk, journal, hist>>
  BY DEF EndRollback
<1>2. \A n \in Notes : Changed(n) /\ n \notin hist.escaped =>
        \/ journal.phase = "none"
        \/ n \in journal.files /\ (journal.logged => journal.log[n] # Absent)
  BY DEF Traces, Journaled
<1>3. CASE run.op = "trash" /\ Exit("traceback")
  BY <1>1, <1>2, <1>3, EndTraces
<1>4. CASE run.left # {} /\ Exit("conflict")
  <2>1. hist.cut
    BY <1>1, <1>4 DEF Traces, NoneLeft, Settlement
  <2> QED
    BY <1>1, <1>2, <1>4, <2>1, EndTraces
<1>5. CASE /\ run.left = {} /\ UNCHANGED report
           /\ run' = [Idle EXCEPT !.op = run.op, !.pc = "clean",
                        !.ending = "rolled-back"]
  <2>1. /\ run'.pc = "clean" /\ run'.ending = "rolled-back"
        /\ run'.text = NoEntries /\ run'.mem = NoEntries
    BY <1>5 DEF Idle
  <2>2. report' = "none"
    BY <1>1, <1>5 DEF Inv, Closed, Busy
  <2>3. Versions'
    BY <1>1, <2>1, StillVersions DEF Traces, NoEntries
  <2>4. Undone'
    BY <1>1, <1>5, NothingChanged DEF Undone
  <2>5. ~Reading' /\ ~Classifying' /\ run'.pc \notin InTry \cup Settlement
    BY <2>1 DEF Reading, Classifying, Preparing, InTry, Settlement
  <2> QED
    BY <1>1, <1>2, <2>2, <2>3, <2>4, <2>5, SameContent, StillTraces
<1> QED
  BY <1>3, <1>4, <1>5 DEF EndRollback

LEMMA DoctorTraces ==
  ASSUME TypeOK, Inv, Traces, DoctorRollback \/ DoctorDiscard
  PROVE  Traces'
<1>1. /\ run.pc = "idle" /\ run'.op = "doctor" /\ run'.pc \in {"undo", "clean"}
      /\ run'.pc = "clean" => run'.ending = "discarded"
      /\ run'.text = run.text /\ run'.mem = run.mem
      /\ report' = "none" /\ UNCHANGED <<disk, journal>>
  BY DoctorRollbackEffect, DoctorDiscardEffect
  DEF DoctorRollback, DoctorDiscard, RunKeeps, Busy
<1>2. /\ hist'.before = hist.before /\ hist'.cut = hist.cut
      /\ hist'.escaped = hist.escaped
  BY DoctorDiscardEffect DEF DoctorRollback, HistKeeps
<1>3. Versions'
  BY <1>1, <1>2, StillVersions DEF Traces
<1>4. ~Reading' /\ ~Classifying' /\ run'.pc \notin InTry \cup Settlement
  BY <1>1 DEF Reading, Classifying, Preparing, InTry, Settlement
<1>5. Undone'
  BY <1>1 DEF Undone, Undoing
<1> QED
  BY <1>1, <1>2, <1>3, <1>4, <1>5, SameContent, StillTraces
  DEF Traces, Journaled

LEMMA KillTraces ==
  ASSUME TypeOK, Inv, Traces, Kill
  PROVE  Traces'
<1>1. /\ journal'.bak = journal.bak /\ journal'.sha = journal.sha
      /\ journal'.log = journal.log /\ journal'.phase = journal.phase
      /\ journal'.files = journal.files
      /\ journal'.logged => journal.logged \/ run.pc = "log"
  BY KillEffect DEF JournalKeeps
<1>2. /\ hist'.before = hist.before /\ hist'.escaped = hist.escaped
      /\ hist'.cut = (hist.cut \/ run.pc = "restoring")
  BY KillEffect DEF HistKeeps
<1>3. ASSUME NEW n \in Notes, Changed(n), n \notin hist'.escaped
      PROVE  \/ journal'.phase = "none"
             \/ /\ n \in journal'.files
                /\ journal'.logged => journal'.log[n] # Absent
  BY <1>1, <1>2, <1>3 DEF Traces, Journaled, Noted, InTry
<1> QED
  BY <1>1, <1>2, <1>3, EndTraces DEF Kill

LEMMA RemoveDirectoryTraces ==
  ASSUME TypeOK, Inv, Traces, RemoveDirectory
  PROVE  Traces'
<1>1. /\ run.pc = "clean" /\ Exit(run.ending) /\ UNCHANGED <<disk, hist>>
      /\ journal' = NoJournal
  BY DEF RemoveDirectory
<1>2. run.ending # "conflict"
  BY DEF TypeOK, Runs, Endings
<1>3. run.ending = "rolled-back" => Undoing
  BY <1>1 DEF Undoing
<1> QED
  BY <1>1, <1>2, <1>3, EndTraces DEF NoJournal, NoEntries

LEMMA NextTraced ==
  ASSUME TypeOK, Inv, Traced, [Next]_vars
  PROVE  Traced'
<1>1. Fresh' /\ Hashed'
  BY NextFresh, NextHashed DEF Traced
<1>2. CASE User
  <2>1. PICK op \in {"relocate", "trash"} : Plan(op)
    BY <1>2 DEF User
  <2>2. Ends'
    BY <2>1, PlanEffect DEF Plan, Exists, Traced, Ends, HistKeeps
  <2>3. Calm' => Traces'
    BY <2>1, PlanTraces DEF Traced
  <2> QED
    BY <1>1, <2>2, <2>3 DEF Traced
\* No other step changes what the plan found, nor calms the vault down.
<1>3. ASSUME hist'.before = hist.before, hist.edited \subseteq hist'.edited,
             hist.escaped \subseteq hist'.escaped, Calm /\ Calm' => Traces'
      PROVE  Traced'
  BY <1>1, <1>3 DEF Traced, Ends, Calm
<1>4. CASE \/ DirtyGate \/ SetupFails \/ HandlerMoveFails \/ NoManifest
           \/ BackupMissing
  <2>1. UNCHANGED <<disk, journal, hist>>
    BY <1>4
    DEF DirtyGate, SetupFails, HandlerMoveFails, NoManifest, BackupMissing
  <2>2. /\ run.pc # "restoring"
        /\ \E r \in {"dirty", "traceback", "no-manifest"} : Exit(r)
    BY <1>4
    DEF DirtyGate, SetupFails, HandlerMoveFails, NoManifest, BackupMissing,
        BeforeTry
  <2>3. Calm => Traces'
    BY <2>1, <2>2, EndTraces DEF Traced, Traces, Journaled
  <2> QED
    BY <1>3, <2>1, <2>3
<1>5. CASE \/ MakeJournal \/ HashOriginal \/ WriteManifest
           \/ \E n \in Notes : CopyBackup(n) \/ ReadAndRewrite(n)
  <2>1. UNCHANGED hist
    BY <1>5
    DEF MakeJournal, HashOriginal, WriteManifest, CopyBackup, ReadAndRewrite
  <2>2. Calm => Traces'
    BY <1>5, PreparingTraces, ReadAndRewriteTraces DEF Traced
  <2> QED
    BY <1>3, <2>1, <2>2
<1>6. CASE \/ \E n \in Notes : LogIntent(n) \/ LogIntentFails(n)
           \/ WriteNote \/ RecordWritten \/ RenameNote
  <2>1. /\ hist'.before = hist.before /\ hist'.edited = hist.edited
        /\ hist.escaped \subseteq hist'.escaped
    BY <1>6, LogIntentFailsEffect, WriteNoteEffect, RenameNoteEffect
    DEF LogIntent, RecordWritten, HistKeeps
  <2>2. Calm => Traces'
    BY <1>6, LogTraces, WriteNoteTraces, RecordWrittenTraces, RenameNoteTraces
    DEF Traced
  <2> QED
    BY <1>3, <2>1, <2>2
<1>7. CASE PhaseRenaming \/ FlagRenamed \/ PhaseRenamed \/ Verify
  <2>1. PhaseRenamed \/ Verify =>
          hist' = hist \/ \E e \in {"trashed", "applied"} : Commit(e)
    BY DEF PhaseRenamed, Verify
  <2>2. /\ hist'.before = hist.before /\ hist'.edited = hist.edited
        /\ hist'.escaped = hist.escaped
    BY <1>7, <2>1, CommitEffect DEF PhaseRenaming, FlagRenamed, HistKeeps
  <2>3. Calm => Traces'
    BY <1>7, PhaseTraces, CommitTraces DEF Traced
  <2> QED
    BY <1>3, <2>2, <2>3
<1>8. CASE StatementRaises \/ Interrupted
  <2>1. /\ hist'.before = hist.before /\ hist'.edited = hist.edited
        /\ hist.escaped \subseteq hist'.escaped
    BY <1>8, InterruptedEffect DEF StatementRaises, HistKeeps
  <2>2. Calm => Traces'
    BY <1>8, ToHandlerTraces DEF Traced
  <2> QED
    BY <1>3, <2>1, <2>2
<1>9. CASE RemoveEntry \/ RemoveDirectory
  <2>1. UNCHANGED hist
    BY <1>9 DEF RemoveEntry, RemoveDirectory
  <2>2. Calm => Traces'
    BY <1>9, RemoveEntryTraces, RemoveDirectoryTraces DEF Traced
  <2> QED
    BY <1>3, <2>1, <2>2
<1>10. CASE HandlerMovesBack \/ RollbackMovesBack
  <2>1. UNCHANGED hist \/ MovedBack
    BY <1>10 DEF HandlerMovesBack, RollbackMovesBack
  <2>2. /\ hist'.before = hist.before /\ hist'.edited = hist.edited
        /\ hist'.escaped = hist.escaped
    BY <2>1, MovedBackEffect DEF HistKeeps
  <2>3. Calm => Traces'
    BY <1>10, HandlerMovesBackTraces, RollbackMovesBackTraces DEF Traced
  <2> QED
    BY <1>3, <2>2, <2>3
<1>11. CASE RollbackMoveFails
  BY <1>3, <1>11, RollbackMoveFailsEffect DEF HistKeeps, Calm
<1>12. CASE \E n \in Notes :
              LeaveNote(n) \/ ReportForeign(n) \/ ChooseRestore(n)
  <2>1. /\ hist'.before = hist.before /\ hist'.edited = hist.edited
        /\ hist'.escaped = hist.escaped
    BY <1>12, LeaveNoteEffect DEF ReportForeign, ChooseRestore, HistKeeps
  <2>2. Calm => Traces'
    BY <1>12, LoopTraces
  <2> QED
    BY <1>3, <2>1, <2>2
<1>13. CASE TruncateNote \/ FillNote
  <2>1. /\ hist'.before = hist.before /\ hist'.edited = hist.edited
        /\ hist'.escaped = hist.escaped
    BY <1>13, TruncateNoteEffect, FillNoteEffect DEF HistKeeps
  <2>2. Calm => Traces'
    BY <1>13, TruncateNoteTraces, FillNoteTraces
  <2> QED
    BY <1>3, <2>1, <2>2
<1>14. CASE EndRollback
  BY <1>3, <1>14, EndRollbackTraces DEF EndRollback
<1>15. CASE DoctorRollback \/ DoctorDiscard
  <2>1. /\ hist'.before = hist.before /\ hist'.edited = hist.edited
        /\ hist'.escaped = hist.escaped
    BY <1>15, DoctorDiscardEffect DEF DoctorRollback, HistKeeps
  <2>2. Calm => Traces'
    BY <1>15, DoctorTraces DEF Traced
  <2> QED
    BY <1>3, <2>1, <2>2
<1>16. CASE Kill
  <2>1. /\ hist'.before = hist.before /\ hist'.edited = hist.edited
        /\ hist'.escaped = hist.escaped
    BY <1>16, KillEffect DEF HistKeeps
  <2>2. Calm => Traces'
    BY <1>16, KillTraces DEF Traced
  <2> QED
    BY <1>3, <2>1, <2>2
<1>17. CASE Editor
  <2>1. PICK ps, moved : ps # {} /\ External(ps, moved)
    BY <1>17 DEF Editor, EditorSaves, EditorDeletes, EditorRenames
  <2>2. /\ hist'.before = hist.before /\ hist'.edited = hist.edited \cup ps
        /\ hist'.escaped = hist.escaped
    BY <2>1, ExternalEffect DEF HistKeeps
  <2> QED
    BY <1>3, <2>1, <2>2 DEF Calm
<1>18. CASE UNCHANGED vars
  <2>1. UNCHANGED <<disk, journal, run, report, hist>>
    BY <1>18 DEF vars
  <2>2. Calm => Traces'
    BY <2>1
    DEF Traced, Traces, Unread, Reading, Versions, Original, Rewritten, Whole,
        Journaled, Noted, Mapped, Classifying, Listed, Chosen, NoneLeft,
        Undone, Undoing, Changed, Content, Exists, Rewritable, After
  <2> QED
    BY <1>3, <2>1, <2>2
<1> QED
  BY <1>2, <1>4, <1>5, <1>6, <1>7, <1>8, <1>9, <1>10, <1>11, <1>12, <1>13,
     <1>14, <1>15, <1>16, <1>17, <1>18 DEF Next, Step

LEMMA InitTraced == Init => Traced
<1> SUFFICES ASSUME Init PROVE Traced
  OBVIOUS
<1>1. /\ run.pc = "idle" /\ run.op = "none" /\ report = "none"
      /\ disk = hist.before /\ disk[Src] # Absent
  BY NotesAssumption DEF Init, Idle, NothingYet
<1>2. Versions
  BY DEF Init, Versions, Original, Rewritten, NoJournal, Idle, NoEntries
<1>3. \A n \in Notes : ~Changed(n)
  BY <1>1 DEF Changed, Content, Exists
<1>4. Traces
  BY <1>1, <1>2, <1>3
  DEF Traces, Unread, Whole, Journaled, Noted, Mapped, Listed, Chosen,
      NoneLeft, Undone, InTry, Settlement
<1> QED
  BY <1>4, InitFresh, InitHashed DEF Traced

\* As long as nobody else has written, the bytes of every note are one of two
\* versions, and backups, record and memory tell which: what RollbackIsWhole and
\* ConflictsAreExplained rest on.
THEOREM TracedInductive == Spec => []Traced
<1>1. TypeOK /\ Inv /\ Traced /\ [Next]_vars => Traced'
  BY NextTraced
<1> QED
  BY <1>1, InitTraced, Inductive, PTL DEF Spec

\* A rollback that says "rolled-back" has undone the whole operation: where
\* nobody else has written since the plan and no change escaped, the vault is
\* byte for byte what the plan found, however many processes have died between
\* the plan and that report, also when they died rolling back.
THEOREM RollbackIsWhole == Spec => []RolledBackIsWhole
<1>1. Traced => RolledBackIsWhole
  BY DEF Traced, Calm, Traces, Undone, Undoing, RolledBackIsWhole
<1> QED
  BY <1>1, TracedInductive, PTL

\* A rollback never takes vv's own bytes for those of another writer: it stops
\* with a conflict only if somebody else wrote, a copy of its own was cut off,
\* or the note could not be moved back.
THEOREM ConflictsAreExplained == Spec => []ConflictIsExplained
<1>1. Traced => ConflictIsExplained
  BY DEF Traced, Calm, Traces, NoneLeft, ConflictIsExplained
<1> QED
  BY <1>1, TracedInductive, PTL

----------------------------------------------------------------------------
(* Without the other adversities: the bytes are texts, every file of a     *)
(* journal in force has its backup, and nothing escapes, is edited or cut. *)

Texts ==
  /\ hist.edited = {} /\ hist.escaped = {} /\ ~hist.cut
  /\ hist.before \in [Paths -> Text \cup {Absent}]

\* A journal is removed as a whole: what runs to its end is not killed.
Backed ==
  journal.phase # "none" /\ run.pc # "clean" =>
    /\ journal.dir
    /\ \A n \in journal.files : journal.bak[n] # Absent

\* Nothing of it is removed before the handler has run.
Handled == run.pc = "handler" => journal.phase # "none"

Simple == Texts /\ Backed /\ Handled

Few == Faults \subseteq {"raise", "kill"}

LEMMA NoTornText == Torn \notin Text \cup {Absent}
BY SentinelAssumption DEF Bytes

\* The vault then holds texts, but for the file that is being restored.
LEMMA DiskOfTexts ==
  ASSUME TypeOK, Inv, Traced, Simple, run.pc # "restoring"
  PROVE  disk \in [Paths -> Text \cup {Absent}]
<1>1. Calm /\ Traces
  BY DEF Simple, Texts, Calm, Traced
<1>2. \A n \in Notes : Content(n) \in Text \cup {Absent}
  <2>1. \A n \in Notes : n \in Paths
    BY DEF Paths
  <2> QED
    BY <1>1, <2>1, RewrittenIsText
    DEF Traces, Whole, Changed, Simple, Texts
<1>3. \A n \in Notes : disk[n] \in Text \cup {Absent}
  BY <1>2 DEF Content, Exists
<1>4. disk[Dest] \in Text \cup {Absent}
  BY <1>1, <1>2, CalmHome, NotesAssumption DEF Content, Exists
<1>5. \A p \in Paths : disk[p] \in Text \cup {Absent}
  BY <1>3, <1>4 DEF Paths
<1> QED
  BY <1>5 DEF TypeOK

LEMMA InitSimple == Init => Simple
<1> SUFFICES ASSUME Init PROVE Simple
  OBVIOUS
<1>1. hist.before = disk /\ hist.edited = {} /\ hist.escaped = {} /\ ~hist.cut
  BY DEF Init, NothingYet
<1>2. 0 \in 0 .. MaxEdits
  BY BoundsAssumption
<1>3. disk \in [Paths -> Text \cup {Absent}]
  BY <1>2 DEF Init, Text, Links
<1> QED
  BY <1>1, <1>3 DEF Simple, Texts, Backed, Handled, Init, NoJournal, Idle

----------------------------------------------------------------------------
(* What recovery would leave.                                              *)

\* A journal in force stands for the vault as the plan found it.
LEMMA InForceIsBefore ==
  ASSUME TypeOK, Inv, Traced, Simple, InForce
  PROVE  Recovered = hist.before
<1>1. Calm /\ Traces /\ Hashed /\ Ends
  BY DEF Simple, Texts, Calm, Traced
<1>2. /\ Src \in Notes /\ Src \in Paths /\ Dest \in Paths /\ Src # Dest
      /\ \A n \in Notes : n \in Paths /\ n # Dest
  BY NotesAssumption DEF Paths
<1>3. \A n \in journal.files :
        journal.bak[n] = hist.before[n] /\ journal.sha[n] = hist.before[n]
  BY <1>1 DEF InForce, Simple, Backed, Hashed, Traces, Versions, Original,
              TypeOK, Journals
<1>4. /\ Settling \in [Paths -> Bytes \cup {Absent}]
      /\ \A n \in Paths : (n = run.cur /\ run.pc = "restoring")
                            \/ Settling[n] = disk[n]
      /\ run.pc = "restoring" => Settling[run.cur] = hist.before[run.cur]
  <2>1. run.cur \in Paths /\ run.cur \in Notes /\ journal.bak \in Entries
    BY DEF TypeOK, Runs, Paths, Journals
  <2>2. CASE run.pc = "restoring"
    <3>1. journal.bak[run.cur] = hist.before[run.cur]
      BY <1>1, <2>1, <2>2
      DEF Inv, Accounted, Settlement, Traces, Versions, Original
    <3> QED
      BY <2>1, <2>2, <3>1 DEF Settling, TypeOK, Entries
  <2>3. CASE run.pc # "restoring"
    BY <2>3 DEF Settling, TypeOK
  <2> QED
    BY <2>2, <2>3
\* The move back puts every note's bytes at its old path.
<1>5. /\ MovedHome \in [Paths -> Bytes \cup {Absent}]
      /\ MovedHome[Dest] = Absent
      /\ \A n \in Notes : MovedHome[n] =
           IF run.pc = "restoring" /\ n = run.cur THEN hist.before[n]
           ELSE Content(n)
  <2>1. CASE run.pc = "restoring"
    <3>1. Exists(Src) /\ ~Exists(Dest)
      BY <1>1, <2>1, CalmHome DEF Settlement
    <3>2. Settling[Dest] = Absent
      BY <1>2, <1>4, <3>1 DEF Exists, TypeOK, Runs
    <3>3. MovedHome = Settling
      BY <3>2 DEF MovedHome
    <3> QED
      BY <1>2, <1>4, <2>1, <3>1, <3>2, <3>3 DEF Content
  <2>2. CASE run.pc # "restoring" /\ Exists(Src)
    <3>1. ~Exists(Dest)
      BY <1>1, <2>2, CalmHome
    <3>2. Settling = disk
      BY <2>2 DEF Settling
    <3> QED
      BY <1>2, <1>4, <2>2, <3>1, <3>2 DEF MovedHome, Exists, Content
  <2>3. CASE run.pc # "restoring" /\ ~Exists(Src)
    <3>1. Exists(Dest)
      BY <1>1, <2>3, CalmHome
    <3>2. Settling = disk
      BY <2>3 DEF Settling
    <3>3. MovedHome = [disk EXCEPT ![Src] = disk[Dest], ![Dest] = Absent]
      BY <2>3, <3>1, <3>2 DEF MovedHome, Exists
    <3>4. disk \in [Paths -> Bytes \cup {Absent}]
      BY DEF TypeOK
    <3> QED
      BY <1>2, <2>3, <3>3, <3>4 DEF Content
  <2> QED
    BY <2>1, <2>2, <2>3
<1>6. \A n \in Notes :
        (IF Restorable(n, MovedHome[n]) THEN journal.bak[n] ELSE MovedHome[n])
          = hist.before[n]
  <2> SUFFICES ASSUME NEW n \in Notes
               PROVE  (IF Restorable(n, MovedHome[n])
                       THEN journal.bak[n] ELSE MovedHome[n]) = hist.before[n]
    OBVIOUS
  <2>1. CASE MovedHome[n] = hist.before[n]
    BY <1>3, <2>1 DEF Restorable
  <2>2. CASE MovedHome[n] # hist.before[n]
    <3>1. Changed(n) /\ MovedHome[n] = Content(n)
            /\ ~(run.pc = "restoring" /\ n = run.cur)
      BY <1>5, <2>2 DEF Changed
    <3>2. MovedHome[n] = After(n)
      BY <1>1, <3>1 DEF Traces, Whole, Simple, Texts
    <3>3. n \in journal.files /\ (journal.logged => journal.log[n] # Absent)
      BY <1>1, <3>1 DEF Traces, Journaled, InForce, Simple, Texts
    <3>4. journal.logged => journal.log[n] = After(n)
      BY <1>1, <3>3 DEF Traces, Versions, Rewritten
    <3>5. Restorable(n, MovedHome[n])
      BY <1>3, <2>2, <3>2, <3>3, <3>4 DEF Restorable
    <3> QED
      BY <1>3, <3>3, <3>5
  <2> QED
    BY <2>1, <2>2
<1>7. hist.before \in [Paths -> Text \cup {Absent}] /\ hist.before[Dest] = Absent
  BY <1>1 DEF Simple, Texts, Ends
<1>8. Recovered =
        [p \in Paths |-> IF p \in Notes /\ Restorable(p, MovedHome[p])
                         THEN journal.bak[p] ELSE MovedHome[p]]
  BY DEF Recovered
<1>9. \A p \in Paths :
        (IF p \in Notes /\ Restorable(p, MovedHome[p])
         THEN journal.bak[p] ELSE MovedHome[p]) = hist.before[p]
  BY <1>2, <1>5, <1>6, <1>7 DEF Paths
<1> QED
  BY <1>7, <1>8, <1>9


\* What the vault stands for.
Abstract == Recovered = IF InForce THEN hist.before ELSE disk

LEMMA AbstractVault == TypeOK /\ Inv /\ Traced /\ Simple => Abstract
<1>1. ~InForce => Recovered = disk
  BY DEF Recovered
<1> QED
  BY <1>1, InForceIsBefore DEF Abstract

----------------------------------------------------------------------------
(* The steps keep it simple.                                               *)

LEMMA QuietBacked ==
  ASSUME Simple, run.pc = "clean" => run'.pc = "clean",
         \/ journal'.phase = "none"
         \/ /\ journal.phase # "none" /\ journal'.dir = journal.dir
            /\ journal'.files = journal.files /\ journal'.bak = journal.bak
  PROVE  Backed'
BY DEF Simple, Backed

\* What these faults leave out.
LEMMA LeftOut ==
  ASSUME Few
  PROVE  /\ ~Editor /\ ~Interrupted /\ ~RollbackMoveFails /\ ~HandlerMoveFails
         /\ \A n \in Notes : ~LogIntentFails(n)
         /\ ~FailingCleanup
         /\ Kill => run.pc \notin {"restoring", "clean"}
BY DEF Few, Editor, EditorSaves, EditorDeletes, EditorRenames, External,
       Interrupted, RollbackMoveFails, HandlerMoveFails, LogIntentFails,
       FailingCleanup, Kill

LEMMA NextSimple ==
  ASSUME Few, TypeOK, Inv, Traced, Simple, [Next]_vars
  PROVE  Simple'
<1> USE DEF Simple
<1>1. /\ ~Editor /\ ~Interrupted /\ ~RollbackMoveFails /\ ~HandlerMoveFails
      /\ \A n \in Notes : ~LogIntentFails(n)
      /\ ~FailingCleanup
      /\ Kill => run.pc \notin {"restoring", "clean"}
  BY LeftOut
\* A step that writes nothing down but in memory.
<1>2. ASSUME UNCHANGED journal, run.pc = "clean" => run'.pc = "clean",
             hist'.before = hist.before, hist'.escaped = hist.escaped,
             hist'.edited = hist.edited, hist'.cut = hist.cut,
             run'.pc = "handler" => run.pc \in InTry
      PROVE  Simple'
  <2>1. Backed'
    BY <1>2, QuietBacked
  <2>2. Handled'
    BY <1>2 DEF Handled, Inv, Covered
  <2> QED
    BY <1>2, <2>1, <2>2 DEF Texts
\* A step of the journal.
<1>3. ASSUME UNCHANGED hist, Backed', run'.pc # "handler"
      PROVE  Simple'
  BY <1>3 DEF Texts, Handled
<1>4. CASE User
  <2>1. PICK op \in {"relocate", "trash"} : Plan(op)
    BY <1>4 DEF User
  <2>2. run.pc = "idle" /\ run'.pc = "planned" /\ UNCHANGED <<disk, journal>>
    BY <2>1, PlanEffect DEF Plan, Busy
  <2>3. disk \in [Paths -> Text \cup {Absent}]
    BY <2>2, DiskOfTexts
  <2>4. Texts'
    <3>1. CASE journal.dir
      BY <2>1, <3>1, PlanEffect DEF HistKeeps, Texts
    <3>2. CASE ~journal.dir
      BY <2>1, <2>3, <3>2, PlanEffect DEF Texts
    <3> QED
      BY <3>1, <3>2
  <2>5. Backed'
    BY <2>2, QuietBacked
  <2> QED
    BY <2>2, <2>4, <2>5 DEF Handled
<1>5. CASE DirtyGate \/ SetupFails \/ NoManifest \/ BackupMissing
  <2>1. /\ UNCHANGED <<journal, hist>> /\ run.pc # "clean"
        /\ \E r \in Reports : Exit(r)
    BY <1>5
    DEF DirtyGate, SetupFails, NoManifest, BackupMissing, BeforeTry, Reports
  <2>2. run'.pc = "idle"
    BY <2>1 DEF Exit, Idle
  <2> QED
    BY <1>2, <2>1, <2>2
<1>6. CASE MakeJournal
  <2>1. journal'.phase = "none" /\ run'.pc = "copy" /\ UNCHANGED hist
    BY <1>6, MakeJournalEffect DEF MakeJournal
  <2> QED
    BY <1>3, <2>1 DEF Backed
<1>7. CASE HashOriginal \/ \E n \in Notes : CopyBackup(n)
  <2>1. /\ run.pc \in {"hash", "copy"} /\ UNCHANGED hist
        /\ run'.pc \in {"hash", "copy", "manifest"}
    BY <1>7, HashOriginalEffect, CopyBackupEffect DEF HashOriginal, CopyBackup
  <2>2. journal'.phase = journal.phase
    <3>1. CASE HashOriginal
      BY <3>1, HashOriginalEffect DEF JournalKeeps
    <3>2. ASSUME NEW n \in Notes, CopyBackup(n)
          PROVE  journal'.phase = journal.phase
      BY <3>2, CopyBackupEffect DEF JournalKeeps
    <3> QED
      BY <1>7, <3>1, <3>2
  <2>3. journal.phase = "none"
    BY <2>1 DEF Inv, Prepared
  <2> QED
    BY <1>3, <2>1, <2>2, <2>3 DEF Backed
<1>8. CASE WriteManifest
  <2>1. /\ run.pc = "manifest" /\ run'.pc \in {"renaming", "read"}
        /\ journal'.files = Targets /\ journal'.dir = journal.dir
        /\ journal'.bak = journal.bak /\ UNCHANGED hist
    BY <1>8, WriteManifestEffect DEF WriteManifest, JournalKeeps
  <2>2. journal.dir /\ \A n \in Targets : journal.bak[n] # Absent
    BY <2>1 DEF Inv, Prepared
  <2> QED
    BY <1>3, <2>1, <2>2 DEF Backed
<1>9. CASE \E n \in Notes : LogIntent(n)
  <2>1. PICK n \in Notes : LogIntent(n)
    BY <1>9
  <2>2. /\ run.pc = "log" /\ run'.pc = "write" /\ UNCHANGED hist
        /\ journal'.dir = journal.dir /\ journal'.bak = journal.bak
        /\ journal'.phase = journal.phase /\ journal'.files = journal.files
    BY <2>1, LogIntentEffect DEF LogIntent, JournalKeeps
  <2> QED
    BY <1>3, <2>2, QuietBacked
<1>10. CASE PhaseRenaming \/ PhaseRenamed
  <2>1. run.pc \in {"renaming", "renamed"}
    BY <1>10 DEF PhaseRenaming, PhaseRenamed
  <2>2. journal.phase # "none"
    BY <2>1 DEF Inv, Covered, InTry
  <2>3. /\ journal'.dir = journal.dir /\ journal'.bak = journal.bak
        /\ journal'.files = journal.files
    BY <1>10, PhaseRenamingEffect, PhaseRenamedEffect DEF JournalKeeps
  <2>4. Backed'
    BY <2>1, <2>2, <2>3, QuietBacked
  <2>5. run'.pc \in {"rename", "clean", "verify"}
    BY <1>10, PhaseRenamingEffect, PhaseRenamedEffect, CommitEffect
  <2>6. /\ hist'.before = hist.before /\ hist'.escaped = hist.escaped
        /\ hist'.edited = hist.edited /\ hist'.cut = hist.cut
    BY <1>10, PhaseRenamedEffect, CommitEffect DEF PhaseRenaming, HistKeeps
  <2> QED
    BY <2>4, <2>5, <2>6 DEF Texts, Handled
<1>11. CASE RemoveEntry
  BY <1>3, <1>11 DEF RemoveEntry, Backed
<1>12. CASE RemoveDirectory
  <2>1. journal'.phase = "none" /\ run'.pc = "idle" /\ UNCHANGED hist
    BY <1>12 DEF RemoveDirectory, NoJournal, Exit, Idle
  <2> QED
    BY <1>3, <2>1 DEF Backed
<1>13. CASE \/ \E n \in Notes : ReadAndRewrite(n)
            \/ WriteNote \/ RecordWritten \/ RenameNote \/ FlagRenamed
  <2>1. /\ run.pc \in InTry /\ UNCHANGED journal
        /\ run'.pc \in {"read", "log", "record", "renaming", "renamed", "flag"}
    BY <1>13, ReadAndRewriteEffect, WriteNoteEffect, RecordWrittenEffect,
       RenameNoteEffect, FlagRenamedEffect
    DEF ReadAndRewrite, WriteNote, RecordWritten, RenameNote, FlagRenamed,
        InTry
  <2>2. /\ hist'.before = hist.before /\ hist'.escaped = hist.escaped
        /\ hist'.edited = hist.edited /\ hist'.cut = hist.cut
    BY <1>13, WriteNoteEffect, RenameNoteEffect
    DEF ReadAndRewrite, RecordWritten, FlagRenamed, HistKeeps
  <2> QED
    BY <1>2, <2>1, <2>2 DEF InTry
<1>14. CASE Verify
  <2>1. run'.pc = "clean" /\ UNCHANGED journal
    BY <1>14, CommitEffect DEF Verify
  <2>2. /\ hist'.before = hist.before /\ hist'.escaped = hist.escaped
        /\ hist'.edited = hist.edited /\ hist'.cut = hist.cut
    BY <1>14, CommitEffect DEF Verify, HistKeeps
  <2> QED
    BY <1>2, <2>1, <2>2
<1>15. CASE StatementRaises
  <2>1. run.pc \in InTry
    BY <1>1, <1>15 DEF StatementRaises, MustRaise, Fallible, InTry
  <2> QED
    BY <1>2, <1>15, <2>1 DEF StatementRaises, InTry
<1>16. CASE HandlerMovesBack \/ RollbackMovesBack
  <2>1. /\ run.pc \in {"handler", "undo"} /\ UNCHANGED journal
        /\ UNCHANGED hist \/ MovedBack
    BY <1>16 DEF HandlerMovesBack, RollbackMovesBack
  <2>2. HandlerMovesBack => run'.pc = "undo"
    BY DEF HandlerMovesBack, TypeOK, Runs
  <2>3. RollbackMovesBack => run'.pc = "classify"
    BY BeginClassifyEffect DEF RollbackMovesBack
  <2>4. /\ hist'.before = hist.before /\ hist'.escaped = hist.escaped
        /\ hist'.edited = hist.edited /\ hist'.cut = hist.cut
    BY <2>1, MovedBackEffect DEF HistKeeps
  <2> QED
    BY <1>2, <1>16, <2>1, <2>2, <2>3, <2>4
<1>17. CASE \/ \E n \in Notes :
                 LeaveNote(n) \/ ReportForeign(n) \/ ChooseRestore(n)
            \/ TruncateNote \/ FillNote
  <2>1. /\ run.pc \in Settlement /\ UNCHANGED journal
        /\ run'.pc \in {"classify", "restore", "restoring"}
    BY <1>17, LeaveNoteEffect, ReportForeignEffect, ChooseRestoreEffect,
       TruncateNoteEffect, FillNoteEffect
    DEF LeaveNote, ReportForeign, ChooseRestore, TruncateNote, FillNote,
        RunKeeps, Settlement
  <2>2. /\ hist'.before = hist.before /\ hist'.escaped = hist.escaped
        /\ hist'.edited = hist.edited /\ hist'.cut = hist.cut
    BY <1>17, LeaveNoteEffect, TruncateNoteEffect, FillNoteEffect
    DEF ReportForeign, ChooseRestore, HistKeeps
  <2> QED
    BY <1>2, <2>1, <2>2 DEF Settlement
<1>18. CASE EndRollback
  <2>1. run.pc = "classify" /\ UNCHANGED <<journal, hist>>
    BY <1>18 DEF EndRollback
  <2>2. CASE \E r \in {"traceback", "conflict"} : Exit(r)
    BY <1>2, <2>1, <2>2 DEF Exit, Idle
  <2>3. CASE run' = [Idle EXCEPT !.op = run.op, !.pc = "clean",
                       !.ending = "rolled-back"]
    BY <1>2, <2>1, <2>3 DEF Idle
  <2> QED
    BY <1>18, <2>2, <2>3 DEF EndRollback
<1>19. CASE DoctorRollback \/ DoctorDiscard
  <2>1. /\ run.pc = "idle" /\ run'.pc \in {"undo", "clean"} /\ UNCHANGED journal
    BY <1>19, DoctorRollbackEffect, DoctorDiscardEffect
    DEF DoctorRollback, DoctorDiscard, Busy
  <2>2. /\ hist'.before = hist.before /\ hist'.escaped = hist.escaped
        /\ hist'.edited = hist.edited /\ hist'.cut = hist.cut
    BY <1>19, DoctorDiscardEffect DEF DoctorRollback, HistKeeps
  <2> QED
    BY <1>2, <2>1, <2>2
<1>20. CASE Kill
  <2>1. /\ journal'.dir = journal.dir /\ journal'.bak = journal.bak
        /\ journal'.phase = journal.phase /\ journal'.files = journal.files
    BY <1>20, KillEffect DEF JournalKeeps
  <2>2. /\ hist'.before = hist.before /\ hist'.escaped = hist.escaped
        /\ hist'.edited = hist.edited /\ ~hist'.cut
    BY <1>1, <1>20, KillEffect DEF HistKeeps, Texts
  <2>3. run'.pc = "idle" /\ run.pc # "clean"
    BY <1>1, <1>20 DEF Kill, Exit, Idle
  <2>4. Backed'
    BY <2>1, <2>3, QuietBacked
  <2> QED
    BY <2>2, <2>3, <2>4 DEF Texts, Handled
<1>21. CASE UNCHANGED vars
  BY <1>21 DEF vars, Texts, Backed, Handled
<1> QED
  BY <1>1, <1>4, <1>5, <1>6, <1>7, <1>8, <1>9, <1>10, <1>11, <1>12, <1>13,
     <1>14, <1>15, <1>16, <1>17, <1>18, <1>19, <1>20, <1>21 DEF Next, Step

----------------------------------------------------------------------------
(* The steps of the code are steps of the atomic refactoring.              *)

\* A vault with the notes of W rewritten is the image of what the plan found.
LEMMA ImageOfVault ==
  ASSUME TypeOK, Inv, Traced, Simple, Recovered = hist.before,
         NEW W \in SUBSET Notes, NEW moved \in BOOLEAN, moved <=> AtDest,
         \A n \in Notes :
           Content(n) = IF n \in W THEN After(n) ELSE hist.before[n]
  PROVE  disk = Atomic!Image(W, moved)
<1>1. /\ Calm /\ hist.before[Dest] = Absent
      /\ Exists(Src) <=> ~Exists(Dest)
  BY CalmHome DEF Simple, Texts, Calm, Traced, Ends
<1>2. Src \in Notes /\ \A n \in Notes : n # Dest
  BY NotesAssumption
<1> DEFINE text(n) == IF n \in W THEN After(n) ELSE hist.before[n]
<1>3. Atomic!Image(W, moved) =
        [p \in Paths |->
           IF p = Dest THEN IF moved THEN text(Src) ELSE hist.before[Dest]
           ELSE IF p = Src /\ moved THEN Absent ELSE text(p)]
  BY DEF Atomic!Image, Atomic!Paths, Atomic!Rewritten, After, Rewrite, Paths
<1>4. \A n \in Notes : Content(n) = text(n)
  OBVIOUS
<1> HIDE DEF text
<1>5. \A n \in Notes : disk[n] = IF n = Src /\ moved THEN Absent ELSE text(n)
  BY <1>1, <1>4 DEF AtDest, Exists, Content
<1>6. disk[Dest] = IF moved THEN text(Src) ELSE hist.before[Dest]
  BY <1>1, <1>2, <1>4 DEF AtDest, Exists, Content
<1>7. disk = [p \in Paths |-> disk[p]]
  BY DEF TypeOK
<1>8. \A p \in Paths : disk[p] =
        IF p = Dest THEN IF moved THEN text(Src) ELSE hist.before[Dest]
        ELSE IF p = Src /\ moved THEN Absent ELSE text(p)
  BY <1>2, <1>5, <1>6 DEF Paths
<1> QED
  BY <1>3, <1>7, <1>8

\* The links that the plan counts.
LEMMA LinksOfVault ==
  ASSUME Simple, Traced, Recovered = hist.before
  PROVE  /\ Atomic!Movable
         /\ \A n \in Notes : Atomic!LinksHere(n) <=> Rewritable(n)
<1>1. Atomic!Movable
  BY DEF Atomic!Movable, Traced, Ends
<1>2. \A n \in Notes : hist.before[n] \in Text \cup {Absent}
  BY DEF Simple, Texts, Paths
<1>3. Absent \notin Text
  BY SentinelAssumption DEF Bytes
<1>4. \A n \in Notes : Atomic!LinksHere(n) <=> Rewritable(n)
  BY <1>2, <1>3 DEF Atomic!LinksHere, Rewritable, LinksOf
<1> QED
  BY <1>1, <1>4

\* A relocation is committed when every link it found is rewritten.
LEMMA VerifyIsRelocate ==
  ASSUME TypeOK, Inv, Traced, Applies, Simple, Recovered = hist.before,
         Applies', Verify, Recovered' = disk', UNCHANGED hist.gaveUp
  PROVE  Atomic!Relocate
<1>1. /\ Calm /\ Traces /\ run.pc = "verify" /\ UNCHANGED disk
      /\ hist.edited = {} /\ hist'.edited = {} /\ ~hist.cut
      /\ run'.pc = "clean" /\ run'.ending = "applied"
  BY CommitEffect DEF Verify, Simple, Texts, Calm, Traced, HistKeeps
<1>2. AtDest /\ \A n \in Notes : LinksOf(disk[Where(n)]) # "old"
  BY <1>1
  DEF Applies, Verified, Verifying, Unedited, AtDest, Exists, LinksOf, Where
<1>3. \A n \in Notes : Content(n) = disk[Where(n)]
  BY <1>2 DEF AtDest, Content, Where
<1>4. \A n \in Notes :
        Content(n) = IF Rewritable(n) THEN After(n) ELSE hist.before[n]
  BY <1>1, <1>2, <1>3 DEF Traces, Whole, Changed, Rewritable
<1>5. Atomic!Movable /\ {n \in Notes : Atomic!LinksHere(n)}
                          = {n \in Notes : Rewritable(n)}
  BY LinksOfVault
<1>6. disk = Atomic!Image({n \in Notes : Rewritable(n)}, TRUE)
  BY <1>2, <1>4, ImageOfVault
<1> QED
  BY <1>1, <1>5, <1>6 DEF Atomic!Relocate

\* A trash is committed when the note has been moved.
LEMMA PhaseRenamedIsTrash ==
  ASSUME TypeOK, Inv, Traced, Applies, Simple, Recovered = hist.before,
         PhaseRenamed, run.op = "trash", Recovered' = disk',
         UNCHANGED hist.gaveUp
  PROVE  Atomic!Trash
<1>1. /\ Calm /\ Traces /\ run.pc = "renamed" /\ UNCHANGED disk
      /\ hist.edited = {}
  BY DEF PhaseRenamed, Simple, Texts, Calm, Traced
<1>2. AtDest
  BY <1>1 DEF Applies, Arrived, Moving
<1>3. \A n \in Notes : Content(n) = hist.before[n]
  BY <1>1 DEF Traces, Noted, Changed, Inv, TrashRewritesNothing, InTry
<1>4. disk = Atomic!Image({}, TRUE)
  BY <1>2, <1>3, ImageOfVault
<1> QED
  BY <1>1, <1>4, LinksOfVault DEF Atomic!Trash

\* A user who discards the journal keeps what has been changed so far.
LEMMA DiscardIsGiveUp ==
  ASSUME TypeOK, Inv, Traced, Simple, Abstract, DoctorDiscard,
         Recovered' = disk'
  PROVE  Atomic!GiveUp
<1>1. run.pc = "idle" /\ UNCHANGED disk /\ hist'.gaveUp = TRUE
  BY DoctorDiscardEffect DEF DoctorDiscard, Busy, TypeOK, Histories
<1>2. CASE ~InForce
  BY <1>1, <1>2 DEF Abstract, Atomic!GiveUp
<1>3. CASE InForce
  <2> DEFINE W == {n \in Notes : Changed(n)}
  <2>1. Recovered = hist.before /\ Calm /\ Traces /\ ~hist.cut
    BY <1>3 DEF Abstract, Simple, Texts, Calm, Traced
  <2>2. \A n \in W : Rewritable(n) /\ Content(n) = After(n)
    BY <1>1, <2>1 DEF Traces, Whole
  <2>3. \A n \in Notes :
          Content(n) = IF n \in W THEN After(n) ELSE hist.before[n]
    BY <2>2 DEF Changed
  <2>4. W \in SUBSET {n \in Notes : Atomic!LinksHere(n)} /\ Atomic!Movable
    BY <2>1, <2>2, LinksOfVault
  <2>5. W \in SUBSET Notes
    OBVIOUS
  <2> HIDE DEF W
  <2>6. PICK moved \in BOOLEAN : moved <=> AtDest
    OBVIOUS
  <2>7. disk = Atomic!Image(W, moved)
    BY <2>1, <2>3, <2>5, <2>6, ImageOfVault
  <2> QED
    BY <1>1, <2>4, <2>6, <2>7 DEF Atomic!GiveUp
<1> QED
  BY <1>2, <1>3

----------------------------------------------------------------------------
(* And every other step stands still.                                      *)

LEMMA NextSimulates ==
  ASSUME Few, TypeOK, Inv, Traced, Applies, Simple, Abstract,
         [Next]_vars, Applies', Abstract'
  PROVE  [Atomic!Next]_(Atomic!vars)
<1> USE DEF Atomic!vars
<1>1. /\ Calm /\ Traces /\ hist.escaped = {} /\ Hashed
  BY DEF Simple, Texts, Calm, Traced
\* The journal stays in force.
<1>2. ASSUME InForce, run'.pc # "clean",
             journal'.dir = journal.dir, journal'.phase # "none",
             hist'.before = hist.before, hist'.gaveUp = hist.gaveUp
      PROVE  [Atomic!Next]_(Atomic!vars)
  BY <1>2 DEF InForce, Abstract
\* It is in force neither before nor after.
<1>3. ASSUME ~InForce, ~InForce', UNCHANGED disk, hist'.gaveUp = hist.gaveUp
      PROVE  [Atomic!Next]_(Atomic!vars)
  BY <1>3 DEF Abstract
\* It is what it was.
<1>4. ASSUME UNCHANGED disk, journal'.dir = journal.dir,
             journal'.phase = journal.phase, run.pc # "clean",
             run'.pc # "clean", hist'.gaveUp = hist.gaveUp,
             journal.dir => hist'.before = hist.before
      PROVE  [Atomic!Next]_(Atomic!vars)
  <2>1. CASE InForce
    BY <1>2, <1>4, <2>1 DEF InForce
  <2>2. CASE ~InForce
    <3>1. ~InForce'
      BY <1>4, <2>2 DEF InForce
    <3> QED
      BY <1>3, <1>4, <2>2, <3>1
  <2> QED
    BY <2>1, <2>2
\* In the transaction it is in force.
<1>5. run.pc \in InTry => InForce
  BY DEF Inv, Covered, InForce, InTry
\* And in a rollback.
<1>6. run.pc \in Settlement \cup {"handler"} => InForce
  <2>1. run.pc \in Settlement \cup {"handler"} => journal.phase # "none"
    BY <1>1 DEF Hashed, Simple, Handled
  <2> QED
    BY <2>1 DEF Simple, Backed, InForce, Settlement
<1>7. CASE User
  <2>1. PICK op \in {"relocate", "trash"} : Plan(op)
    BY <1>7 DEF User
  <2>2. /\ run.pc = "idle" /\ run'.pc = "planned" /\ UNCHANGED <<disk, journal>>
        /\ hist'.gaveUp = hist.gaveUp
        /\ journal.dir => hist'.before = hist.before
    BY <2>1, PlanEffect DEF Plan, Busy, HistKeeps
  <2> QED
    BY <1>4, <2>2
<1>8. CASE DirtyGate \/ SetupFails \/ NoManifest \/ BackupMissing
  <2>1. /\ UNCHANGED <<disk, journal, hist>> /\ run.pc # "clean"
        /\ \E r \in Reports : Exit(r)
    BY <1>8
    DEF DirtyGate, SetupFails, NoManifest, BackupMissing, BeforeTry, Reports
  <2>2. run'.pc = "idle"
    BY <2>1 DEF Exit, Idle
  <2> QED
    BY <1>4, <2>1, <2>2
<1>9. CASE MakeJournal
  <2>1. /\ ~journal.dir /\ journal'.phase = "none"
        /\ UNCHANGED <<disk, hist>>
    BY <1>9, MakeJournalEffect DEF MakeJournal
  <2> QED
    BY <1>3, <2>1 DEF InForce
<1>10. CASE HashOriginal \/ \E n \in Notes : CopyBackup(n)
  <2>1. /\ run.pc \in {"hash", "copy"} /\ UNCHANGED <<disk, hist>>
        /\ run'.pc \in {"hash", "copy", "manifest"}
    BY <1>10, HashOriginalEffect, CopyBackupEffect DEF HashOriginal, CopyBackup
  <2>2. journal'.phase = journal.phase
    <3>1. CASE HashOriginal
      BY <3>1, HashOriginalEffect DEF JournalKeeps
    <3>2. ASSUME NEW n \in Notes, CopyBackup(n)
          PROVE  journal'.phase = journal.phase
      BY <3>2, CopyBackupEffect DEF JournalKeeps
    <3> QED
      BY <1>10, <3>1, <3>2
  <2>3. journal.phase = "none"
    BY <2>1 DEF Inv, Prepared
  <2> QED
    BY <1>3, <2>1, <2>2, <2>3 DEF InForce
<1>11. CASE WriteManifest
  <2>1. /\ run.pc = "manifest" /\ run'.pc \in {"renaming", "read"}
        /\ journal'.phase = "prepare" /\ journal'.dir = journal.dir
        /\ UNCHANGED <<disk, hist>>
    BY <1>11, WriteManifestEffect DEF WriteManifest, JournalKeeps
  <2>2. journal.dir /\ ~InForce
    BY <2>1 DEF Inv, Prepared, InForce
  <2>3. InForce'
    BY <2>1, <2>2 DEF InForce
  <2>4. disk = hist.before
    BY <1>1, <2>1 DEF Traces, Unread, Reading, Preparing
  <2> QED
    BY <2>1, <2>2, <2>3, <2>4 DEF Abstract
<1>12. CASE \/ \E n \in Notes : ReadAndRewrite(n) \/ LogIntent(n)
            \/ WriteNote \/ RecordWritten \/ PhaseRenaming \/ RenameNote
            \/ FlagRenamed
  <2>1. /\ run.pc \in InTry
        /\ run'.pc \in {"read", "log", "write", "record", "renaming",
                        "rename", "renamed", "flag"}
    BY <1>12, ReadAndRewriteEffect, LogIntentEffect, WriteNoteEffect,
       RecordWrittenEffect, PhaseRenamingEffect, RenameNoteEffect,
       FlagRenamedEffect
    DEF ReadAndRewrite, LogIntent, WriteNote, RecordWritten, PhaseRenaming,
        RenameNote, FlagRenamed, InTry
  <2>2. /\ journal'.dir = journal.dir
        /\ journal'.phase = journal.phase \/ journal'.phase = "renaming"
    BY <1>12, LogIntentEffect, PhaseRenamingEffect
    DEF ReadAndRewrite, WriteNote, RecordWritten, RenameNote, FlagRenamed,
        JournalKeeps
  <2>3. hist'.before = hist.before /\ hist'.gaveUp = hist.gaveUp
    BY <1>12, WriteNoteEffect, RenameNoteEffect
    DEF ReadAndRewrite, LogIntent, RecordWritten, PhaseRenaming, FlagRenamed,
        HistKeeps
  <2>4. journal.phase # "none"
    BY <1>5, <2>1 DEF InForce
  <2> QED
    BY <1>2, <1>5, <2>1, <2>2, <2>3, <2>4
<1>13. CASE PhaseRenamed
  <2>1. /\ run.pc \in InTry /\ UNCHANGED disk
        /\ journal'.phase = "renamed" /\ journal'.dir = journal.dir
    BY <1>13, PhaseRenamedEffect DEF PhaseRenamed, InTry, JournalKeeps
  <2>2. CASE run.op = "trash"
    <3>1. run'.pc = "clean" /\ hist'.gaveUp = hist.gaveUp
      BY <1>13, <2>2, CommitEffect DEF PhaseRenamed, HistKeeps
    <3>2. Recovered' = disk'
      BY <3>1 DEF Abstract, InForce
    <3>3. Recovered = hist.before
      BY <1>5, <2>1 DEF Abstract
    <3> QED
      BY <1>13, <2>2, <3>1, <3>2, <3>3, PhaseRenamedIsTrash DEF Atomic!Next
  <2>3. CASE run.op # "trash"
    <3>1. run'.pc = "verify" /\ UNCHANGED hist
      BY <1>13, <2>3 DEF PhaseRenamed, TypeOK, Runs
    <3> QED
      BY <1>2, <1>5, <2>1, <3>1
  <2> QED
    BY <2>2, <2>3
<1>14. CASE Verify
  <2>1. run.pc \in InTry /\ run'.pc = "clean" /\ hist'.gaveUp = hist.gaveUp
    BY <1>14, CommitEffect DEF Verify, HistKeeps, InTry
  <2>2. Recovered' = disk'
    BY <2>1 DEF Abstract, InForce
  <2>3. Recovered = hist.before
    BY <1>5, <2>1 DEF Abstract
  <2> QED
    BY <1>14, <2>1, <2>2, <2>3, VerifyIsRelocate DEF Atomic!Next
<1>15. CASE RemoveEntry \/ RemoveDirectory
  <2>1. run.pc = "clean" /\ UNCHANGED <<disk, hist>>
    BY <1>15 DEF RemoveEntry, RemoveDirectory
  <2>2. run'.pc = "clean" \/ journal'.phase = "none"
    BY <1>15, <2>1 DEF RemoveEntry, RemoveDirectory, NoJournal
  <2> QED
    BY <1>3, <2>1, <2>2 DEF InForce
<1>16. CASE StatementRaises
  <2>1. run.pc \in InTry
    BY <1>16, LeftOut DEF StatementRaises, MustRaise, Fallible, InTry
  <2>2. run'.pc \in {"undo", "handler"} /\ UNCHANGED <<journal, hist>>
    BY <1>16, ToHandlerEffect DEF StatementRaises
  <2> QED
    BY <1>2, <1>5, <2>1, <2>2 DEF InForce
<1>17. CASE HandlerMovesBack \/ RollbackMovesBack
  <2>1. InForce
    BY <1>6, <1>17 DEF HandlerMovesBack, RollbackMovesBack, Simple, Backed,
                       InForce
  <2>2. UNCHANGED journal /\ (UNCHANGED hist \/ MovedBack)
    BY <1>17 DEF HandlerMovesBack, RollbackMovesBack
  <2>3. run'.pc \in {"undo", "classify"}
    BY <1>17, BeginClassifyEffect
    DEF HandlerMovesBack, RollbackMovesBack, TypeOK, Runs
  <2>4. hist'.before = hist.before /\ hist'.gaveUp = hist.gaveUp
    BY <2>2, MovedBackEffect DEF HistKeeps
  <2> QED
    BY <1>2, <2>1, <2>2, <2>3, <2>4 DEF InForce
<1>18. CASE \/ \E n \in Notes :
                 LeaveNote(n) \/ ReportForeign(n) \/ ChooseRestore(n)
            \/ TruncateNote \/ FillNote
  <2>1. /\ run.pc \in Settlement /\ UNCHANGED journal
        /\ run'.pc \in {"classify", "restore", "restoring"}
    BY <1>18, LeaveNoteEffect, ReportForeignEffect, ChooseRestoreEffect,
       TruncateNoteEffect, FillNoteEffect
    DEF LeaveNote, ReportForeign, ChooseRestore, TruncateNote, FillNote,
        RunKeeps, Settlement
  <2>2. hist'.before = hist.before /\ hist'.gaveUp = hist.gaveUp
    BY <1>18, LeaveNoteEffect, TruncateNoteEffect, FillNoteEffect
    DEF ReportForeign, ChooseRestore, HistKeeps
  <2> QED
    BY <1>2, <1>6, <2>1, <2>2 DEF InForce
\* A rollback that ends well has left the vault as the plan found it.
<1>19. CASE EndRollback
  <2>1. /\ run.pc = "classify" /\ run.todo = {}
        /\ UNCHANGED <<disk, journal, hist>>
    BY <1>19 DEF EndRollback
  <2>2. CASE \E r \in {"traceback", "conflict"} : Exit(r)
    <3>1. run'.pc = "idle"
      BY <2>2 DEF Exit, Idle
    <3> QED
      BY <1>4, <2>1, <3>1
  <2>3. CASE run.left = {} /\ run' = [Idle EXCEPT !.op = run.op, !.pc = "clean",
                                        !.ending = "rolled-back"]
    <3>1. run'.pc = "clean"
      BY <2>3 DEF Idle
    <3>2. disk = hist.before
      BY <1>1, <2>1, <2>3, NothingChanged
    <3>3. Recovered = hist.before /\ Recovered' = disk'
      BY <1>6, <2>1, <3>1 DEF Abstract, InForce, Settlement
    <3> QED
      BY <2>1, <3>2, <3>3
  <2> QED
    BY <1>19, <2>2, <2>3 DEF EndRollback
<1>20. CASE DoctorRollback
  <2>1. /\ run.pc = "idle" /\ run'.pc = "undo"
        /\ UNCHANGED <<disk, journal, hist>>
    BY <1>20, DoctorRollbackEffect DEF DoctorRollback, Busy
  <2> QED
    BY <1>4, <2>1
<1>21. CASE DoctorDiscard
  <2>1. run'.pc = "clean"
    BY <1>21, DoctorDiscardEffect
  <2>2. Recovered' = disk'
    BY <2>1 DEF Abstract, InForce
  <2> QED
    BY <1>21, <2>2, DiscardIsGiveUp DEF Atomic!Next
<1>22. CASE Kill
  <2>1. journal'.dir = journal.dir /\ journal'.phase = journal.phase
    BY <1>22, KillEffect DEF JournalKeeps
  <2>2. hist'.before = hist.before /\ hist'.gaveUp = hist.gaveUp
    BY <1>22, KillEffect DEF HistKeeps
  <2>3. run'.pc = "idle" /\ run.pc # "clean" /\ UNCHANGED disk
    BY <1>22, LeftOut DEF Kill, Exit, Idle
  <2> QED
    BY <1>4, <2>1, <2>2, <2>3
<1>23. CASE UNCHANGED vars
  <2>1. UNCHANGED <<disk, journal, run, hist>>
    BY <1>23 DEF vars
  <2> QED
    BY <2>1 DEF Abstract, InForce
<1> QED
  BY LeftOut, <1>7, <1>8, <1>9, <1>10, <1>11, <1>12, <1>13, <1>14, <1>15,
     <1>16, <1>17, <1>18, <1>19, <1>20, <1>21, <1>22, <1>23 DEF Next, Step

LEMMA InitSimulates == Init => Atomic!Init
<1> SUFFICES ASSUME Init PROVE Atomic!Init
  OBVIOUS
<1>1. Recovered = disk
  BY DEF Init, NoJournal, InForce, Recovered
<1>2. hist.gaveUp = FALSE
  BY DEF Init, NothingYet
<1> QED
  BY <1>1, <1>2 DEF Init, Atomic!Init, Atomic!Paths, Paths

\* Where statements raise and processes die between two statements, the
\* journaled refactoring is the atomic one: at every moment the vault that
\* recovery would leave is the one the plan found or the one with the whole
\* operation done, and it goes from the first to the second in one step; only
\* a user who discards the journal can keep part of an operation.
THEOREM Atomicity ==
  ASSUME Few
  PROVE  Spec => RefactoringIsAtomic
<1>1. TypeOK /\ Inv /\ Traced /\ Simple /\ [Next]_vars => Simple'
  BY NextSimple
<1>2. TypeOK /\ Inv /\ Applies /\ [Next]_vars => Applies'
  BY NextApplies
<1>3. /\ TypeOK /\ Inv /\ Traced /\ Applies /\ Simple /\ Abstract
      /\ [Next]_vars /\ Applies' /\ Abstract'
      => [Atomic!Next]_(Atomic!vars)
  BY NextSimulates
<1> QED
  BY <1>1, <1>2, <1>3, InitSimple, InitApplies, InitSimulates, AbstractVault,
     Inductive, TracedInductive, PTL DEF Spec, RefactoringIsAtomic, Atomic!Spec

=============================================================================
