------------------------- MODULE RelocateInvariant -------------------------
(***************************************************************************)
(* The inductive invariant of the journaled refactoring: what must hold at *)
(* each statement for the journal to be able to undo what has been done.   *)
(***************************************************************************)
EXTENDS Relocate

\* What vv changed and recovery still answers for.
Owed == hist.dirty \ hist.escaped

Unmoved ==
  {"planned", "copy", "hash", "manifest", "read", "log", "write", "record",
   "renaming", "rename"}
Settlement == {"classify", "restore", "restoring"}

\* A trash rewrites no note.
TrashRewritesNothing == run.op = "trash" => run.hits = {}

\* While the journal is made there is no manifest, and every file that is
\* done has its backup.
Prepared ==
  run.pc \in {"copy", "hash", "manifest"} =>
    /\ journal.dir /\ journal.phase = "none"
    /\ \A n \in Targets \ run.todo : journal.bak[n] # Absent
    /\ run.pc = "hash" => journal.bak[run.cur] # Absent
    /\ run.pc = "manifest" => run.todo = {}

\* In the transaction the journal covers every note to rewrite, and its
\* phase is the one of the statement.
Covered ==
  run.pc \in InTry =>
    /\ journal.dir /\ journal.phase # "none"
    /\ run.hits \subseteq journal.files
    /\ \A n \in journal.files : journal.bak[n] # Absent
    /\ run.pc \in {"read", "log", "write", "record"} => journal.phase = "prepare"
    /\ run.pc = "rename" => journal.phase = "renaming"

\* No note is written before every text is at hand, nor without a record.
Composed ==
  /\ run.pc = "read" =>
       /\ run.todo \subseteq run.hits
       /\ \A n \in run.hits \ run.todo : run.text[n] # Absent
  /\ run.pc \in {"log", "write", "record"} =>
       /\ run.todo \subseteq run.hits
       /\ \A n \in run.hits : run.text[n] # Absent
  /\ run.pc \in {"write", "record"} =>
       /\ run.cur \in run.hits
       /\ \/ run.cur \in hist.escaped
          \/ journal.logged /\ journal.log[run.cur] # Absent

\* The map rollback classifies with knows every write that is owed, but for
\* the one just made.
Remembers ==
  ( \/ run.op = "relocate" /\ run.pc \in InTry \cup {"handler", "undo"}
    \/ run.classify /\ run.pc \in Settlement ) =>
    \A n \in Owed \cap Notes :
      run.mem[n] # Absent \/ (run.pc = "record" /\ n = run.cur)

\* A move that is owed can be seen on the disk.
MoveVisible == Dest \in Owed => AtDest

\* During the classification what is owed is still to be looked at, being
\* restored from a backup, or listed as not restored.
Accounted ==
  run.pc \in Settlement =>
    /\ Dest \notin Owed
    /\ \A n \in Owed : n \in run.todo \cup run.left
                         \/ (run.pc # "classify" /\ n = run.cur)
    /\ run.pc = "restoring" => journal.bak[run.cur] # Absent

\* The journal is removed when nothing is owed, and a report is made at the
\* end of a run.
Closed ==
  /\ run.pc = "clean" => Owed = {}
  /\ Busy => report = "none"
  /\ report = "rolled-back" => Owed = {}

\* With nobody else at the two ends, the note is at one of them, and at its
\* source until the move and after the move back.
Home ==
  (Dest \notin hist.escaped /\ hist.edited \cap {Src, Dest} = {}) =>
    /\ Exists(Src) <=> ~Exists(Dest)
    /\ run.pc \in Unmoved \cup Settlement => Exists(Src)

Inv ==
  /\ TrashRewritesNothing
  /\ Prepared
  /\ Covered
  /\ Composed
  /\ Remembers
  /\ MoveVisible
  /\ Accounted
  /\ Closed
  /\ Home
  /\ RecoveryPossible

=============================================================================
