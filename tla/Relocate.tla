------------------------------ MODULE Relocate ------------------------------
(***************************************************************************)
(* The journaled refactoring of vv: rename, move and trash (_do_relocate,  *)
(* cmd_trash), the journal they keep on disk, the rollback both the        *)
(* command's own exception handler and `vv doctor` run, and the note       *)
(* editor (Obsidian) that writes the same files at any moment.             *)
(*                                                                         *)
(* A file's bytes are abstracted to what the protocol tells apart: which   *)
(* external save the text comes from (0: the text before any), and whether *)
(* its links name the note's old path, its new path, or neither.  A hash   *)
(* stands for the bytes it was taken of.                                   *)
(***************************************************************************)
EXTENDS Integers, FiniteSets

CONSTANTS
  Notes,      \* the vault's notes, by their path before the operation
  Src,        \* the note that is renamed, moved or trashed
  Dest,       \* the path it goes to
  Absent,     \* "no such file"; also "no entry" in a map
  Torn,       \* the bytes of a file whose copy was cut off
  MaxEdits,   \* bound: external saves, deletions and renames
  MaxCmds,    \* bound: refactorings that get past the gate
  Faults      \* which adversities happen

FaultKinds ==
  {"raise",        \* a statement raises: OSError, a failed check, exit 5
   "signal",       \* Ctrl-C between two statements
   "kill",         \* the process dies with no handler run
   "killMidCopy",  \* ... inside shutil.copy2 of a restore
   "tornCleanup",  \* ... or an error, inside shutil.rmtree of the journal
   "logError",     \* the append to written.jsonl fails
   "moveBackError",\* the rename back to the source fails
   "edit"}         \* the editor saves, deletes or renames a file

ASSUME NotesAssumption ==
  /\ Src \in Notes
  /\ Dest \notin Notes
ASSUME BoundsAssumption ==
  /\ MaxEdits \in Nat
  /\ MaxCmds \in Nat
  /\ Faults \subseteq FaultKinds

Paths == Notes \cup {Dest}
Links == {"old", "new", "none"}
Text  == [ed : 0 .. MaxEdits, links : Links]
Bytes == Text \cup {Torn}

ASSUME SentinelAssumption ==
  /\ Absent \notin Bytes
  /\ Torn \notin Text

VARIABLES
  disk,      \* the vault: path -> bytes
  journal,   \* the journal directory
  run,       \* the memory of the vv process that runs, if one does
  report,    \* how the last vv command ended; "none" if it could not say
  cmds,      \* refactorings that got past the gate so far
  edits,     \* external changes so far
  hist       \* observed for the properties; no action's guard reads it

vars == <<disk, journal, run, report, cmds, edits, hist>>

-----------------------------------------------------------------------------
(* The journal directory: fN.bak (bak), manifest.json (phase, files, sha;  *)
(* phase "none" while there is no manifest), written.jsonl (logged says    *)
(* that the file exists, log is the map it holds).                         *)

NoEntries == [n \in Notes |-> Absent]

NoJournal ==
  [dir |-> FALSE, bak |-> NoEntries, phase |-> "none", files |-> {},
   sha |-> NoEntries, logged |-> FALSE, log |-> NoEntries]

Entries == [Notes -> Bytes \cup {Absent}]
Phases  == {"none", "prepare", "renaming", "renamed"}

Journals ==
  [dir : BOOLEAN, bak : Entries, phase : Phases, files : SUBSET Notes,
   sha : Entries, logged : BOOLEAN, log : Entries]

(* The process.  pc is the statement it is about to execute; "idle": no    *)
(* process runs.  text is `results`, mem is `written`.                     *)

Idle ==
  [pc |-> "idle", op |-> "none", hits |-> {}, todo |-> {}, cur |-> Src,
   text |-> NoEntries, mem |-> NoEntries, classify |-> TRUE, left |-> {},
   renamed |-> FALSE, ending |-> "none"]

PCs ==
  {"idle", "planned", "copy", "hash", "manifest", "read", "log", "write",
   "record", "renaming", "rename", "flag", "renamed", "verify", "handler",
   "undo", "classify", "restore", "restoring", "clean"}
Ops     == {"none", "relocate", "trash", "doctor"}
Endings == {"none", "applied", "trashed", "rolled-back", "discarded"}
Reports == Endings \cup {"dirty", "conflict", "no-manifest", "traceback"}

Runs ==
  [pc : PCs, op : Ops, hits : SUBSET Notes, todo : SUBSET Notes, cur : Notes,
   text : Entries, mem : Entries, classify : BOOLEAN, left : SUBSET Notes,
   renamed : BOOLEAN, ending : Endings]

(* What is observed.                                                       *)
(*   dirty       what vv changed and neither committed nor undid: a note's *)
(*               rewritten links, and Dest while the note has been moved   *)
(*   escaped     changes no rollback will find again: a note rewritten     *)
(*               with the record of it lost; Dest, once the rename back to *)
(*               the source has failed                                     *)
(*   edited      paths the editor touched since the plan was made          *)
(*   before      the vault as that plan found it                           *)
(*   offline     saves made while no vv process ran, and not moved to      *)
(*               another path while one did                                *)
(*   lost        saves vv overwrote, with the statement that did it        *)
(*   cut         a restore was killed inside its copy                      *)
(*   gaveUp      a pending journal was discarded                           *)
Hows == {"apply", "rename", "classified", "unclassified"}
Losses == [ed : 1 .. MaxEdits, how : Hows]

Histories ==
  [dirty : SUBSET Paths, escaped : SUBSET Paths, edited : SUBSET Paths,
   before : [Paths -> Bytes \cup {Absent}], offline : SUBSET (1 .. MaxEdits), lost : SUBSET Losses, cut : BOOLEAN,
   gaveUp : BOOLEAN]

NothingYet ==
  [dirty |-> {}, escaped |-> {}, edited |-> {}, before |-> disk, offline |-> {},
   lost |-> {}, cut |-> FALSE, gaveUp |-> FALSE]

TypeOK ==
  /\ disk \in [Paths -> Bytes \cup {Absent}]
  /\ journal \in Journals
  /\ run \in Runs
  /\ report \in Reports
  /\ cmds \in 0 .. MaxCmds
  /\ edits \in 0 .. MaxEdits
  /\ hist \in Histories

-----------------------------------------------------------------------------
(* Helpers.                                                                *)

Exists(p) == disk[p] # Absent
LinksOf(b) == IF b \in Text THEN b.links ELSE "none"

\* _rewrite_links: the text keeps its author's words, its links move.
Rewrite(b) == [b EXCEPT !.links = "new"]

\* What overwriting bytes `old` with bytes `new` loses of the editor's saves.
Loss(old, new, how) ==
  IF old \in Text /\ old.ed > 0 /\ ~(new \in Text /\ new.ed = old.ed)
  THEN {[ed |-> old.ed, how |-> how]} ELSE {}

\* Where the note is: `dest exists and source does not` of both handlers.
AtDest == Exists(Dest) /\ ~Exists(Src)
\* Mutant: the note is copied back.
MoveBack_Copies == [disk EXCEPT ![Src] = disk[Dest]]

MoveBack == [disk EXCEPT ![Src] = disk[Dest], ![Dest] = Absent]

\* The files the journal covers: the notes to rewrite and the moved one.
Targets == IF run.op = "trash" THEN {Src} ELSE run.hits \cup {Src}

Busy == run.pc # "idle"

\* The process ends, leaving the disk as it is.
Exit(r) == run' = Idle /\ report' = r

-----------------------------------------------------------------------------
Init ==
  /\ disk \in [Paths -> [ed : {0}, links : {"old", "none"}] \cup {Absent}]
  /\ \A n \in Notes : disk[n] # Absent
  /\ disk[Dest] = Absent
  /\ journal = NoJournal
  /\ run = Idle
  /\ report = "none"
  /\ cmds = 0
  /\ edits = 0
  /\ hist = NothingYet

(***************************************************************************)
(* The command, up to its journal.                                         *)
(***************************************************************************)

\* A plan made while no journal is pending starts the observation afresh.
Afresh ==
  [hist EXCEPT !.dirty = {}, !.escaped = {}, !.edited = {}, !.before = disk,
               !.cut = FALSE]

\* Mutant: the links a note holds to itself are not found.
Plan_NoSelfLinks(op) ==
  /\ ~Busy
  /\ cmds < MaxCmds \/ journal.dir   \* the bound; a gated one is free
  /\ Exists(Src) /\ ~Exists(Dest)
  /\ run' = [run EXCEPT !.pc = "planned", !.op = op,
               !.hits = IF op = "trash" THEN {}
                        ELSE {n \in Notes \ {Src} : LinksOf(disk[n]) = "old"}]
  /\ report' = "none"
  /\ hist' = IF journal.dir THEN hist ELSE Afresh
  /\ UNCHANGED <<disk, journal, cmds, edits>>

\* Resolve, refuse an existing destination, find the notes that link here.
\* A refusal changes nothing and is left out.  Trash rewrites no note.
Plan(op) ==
  /\ ~Busy
  /\ cmds < MaxCmds \/ journal.dir   \* the bound; a gated one is free
  /\ Exists(Src) /\ ~Exists(Dest)
  /\ run' = [run EXCEPT !.pc = "planned", !.op = op,
               !.hits = IF op = "trash" THEN {}
                        ELSE {n \in Notes : LinksOf(disk[n]) = "old"}]
  /\ report' = "none"
  /\ hist' = IF journal.dir THEN hist ELSE Afresh
  /\ UNCHANGED <<disk, journal, cmds, edits>>

\* _dirty_gate: exit 4 while a journal is pending.
DirtyGate ==
  /\ run.pc = "planned"
  /\ journal.dir
  /\ Exit("dirty")
  /\ UNCHANGED <<disk, journal, cmds, edits, hist>>

\* _journal_start: the directory, then a backup of every file.
MakeJournal ==
  /\ run.pc = "planned"
  /\ ~journal.dir
  /\ cmds < MaxCmds
  /\ journal' = [NoJournal EXCEPT !.dir = TRUE]
  /\ run' = [run EXCEPT !.pc = "copy", !.todo = Targets]
  /\ cmds' = cmds + 1
  /\ UNCHANGED <<disk, report, edits, hist>>

CopyBackup(n) ==
  /\ run.pc = "copy"
  /\ n \in run.todo
  /\ Exists(n)
  /\ journal' = [journal EXCEPT !.bak[n] = disk[n]]
  /\ run' = [run EXCEPT !.pc = "hash", !.cur = n]
  /\ UNCHANGED <<disk, report, cmds, edits, hist>>

\* The hash is taken by a second read of the live file.
HashOriginal ==
  /\ run.pc = "hash"
  /\ Exists(run.cur)
  /\ LET rest == run.todo \ {run.cur} IN
       run' = [run EXCEPT !.todo = rest,
                 !.pc = IF rest = {} THEN "manifest" ELSE "copy"]
  /\ journal' = [journal EXCEPT !.sha[run.cur] = disk[run.cur]]
  /\ UNCHANGED <<disk, report, cmds, edits, hist>>

WriteManifest ==
  /\ run.pc = "manifest"
  /\ journal' = [journal EXCEPT !.phase = "prepare", !.files = Targets]
  /\ run' = [run EXCEPT !.todo = run.hits,
               !.pc = IF run.hits = {} THEN "renaming" ELSE "read"]
  /\ UNCHANGED <<disk, report, cmds, edits, hist>>

(***************************************************************************)
(* The transaction: the try block of _do_relocate and of cmd_trash.        *)
(***************************************************************************)

\* read_raw and _rewrite_links, for every file before any is written.
ReadAndRewrite(n) ==
  /\ run.pc = "read"
  /\ n \in run.todo
  /\ LinksOf(disk[n]) = "old"
  /\ LET rest == run.todo \ {n} IN
       run' = [run EXCEPT !.text[n] = Rewrite(disk[n]),
                 !.todo = IF rest = {} THEN run.hits ELSE rest,
                 !.pc = IF rest = {} THEN "log" ELSE "read"]
  /\ UNCHANGED <<disk, journal, report, cmds, edits, hist>>

\* Mutant: no record before the write.
LogIntent_Dropped(n) ==
  /\ run.pc = "log"
  /\ n \in run.todo
  /\ run' = [run EXCEPT !.pc = "write", !.cur = n]
  /\ UNCHANGED <<disk, journal, report, cmds, edits, hist>>

\* Mutant: the record holds the hash of the text before the rewrite.
LogIntent_OldHash(n) ==
  /\ run.pc = "log"
  /\ n \in run.todo
  /\ journal' = [journal EXCEPT !.logged = TRUE, !.log[n] = disk[n]]
  /\ run' = [run EXCEPT !.pc = "write", !.cur = n]
  /\ UNCHANGED <<disk, report, cmds, edits, hist>>

\* _journal_written: the intended hash, before the file is touched.
LogIntent(n) ==
  /\ run.pc = "log"
  /\ n \in run.todo
  /\ journal' = [journal EXCEPT !.logged = TRUE, !.log[n] = run.text[n]]
  /\ run' = [run EXCEPT !.pc = "write", !.cur = n]
  /\ UNCHANGED <<disk, report, cmds, edits, hist>>

\* ... whose OSError is swallowed: the write goes ahead all the same.
LogIntentFails(n) ==
  /\ run.pc = "log"
  /\ n \in run.todo
  /\ "logError" \in Faults
  /\ run' = [run EXCEPT !.pc = "write", !.cur = n]
  /\ hist' = [hist EXCEPT !.escaped = @ \cup {n}]
  /\ UNCHANGED <<disk, journal, report, cmds, edits>>

\* atomic_write with no expected signature: os.replace over what is there.
WriteNote ==
  /\ run.pc = "write"
  /\ disk' = [disk EXCEPT ![run.cur] = run.text[run.cur]]
  /\ run' = [run EXCEPT !.pc = "record"]
  /\ hist' = [hist EXCEPT !.dirty = @ \cup {run.cur},
                !.lost = @ \cup Loss(disk[run.cur], run.text[run.cur], "apply")]
  /\ UNCHANGED <<journal, report, cmds, edits>>

\* Mutant: the handler is not told of the write.
RecordWritten_Forgets ==
  /\ run.pc = "record"
  /\ LET rest == run.todo \ {run.cur} IN
       run' = [run EXCEPT !.todo = rest,
                 !.pc = IF rest = {} THEN "renaming" ELSE "log"]
  /\ UNCHANGED <<disk, journal, report, cmds, edits, hist>>

\* written[rel(p)] = _sha
RecordWritten ==
  /\ run.pc = "record"
  /\ LET rest == run.todo \ {run.cur} IN
       run' = [run EXCEPT !.mem[run.cur] = run.text[run.cur], !.todo = rest,
                 !.pc = IF rest = {} THEN "renaming" ELSE "log"]
  /\ UNCHANGED <<disk, journal, report, cmds, edits, hist>>

\* Mutant: a phase the recovery does not know.
PhaseRenaming_Typo ==
  /\ run.pc = "renaming"
  /\ journal' = [journal EXCEPT !.phase = "rename"]
  /\ run' = [run EXCEPT !.pc = "rename"]
  /\ UNCHANGED <<disk, report, cmds, edits, hist>>

PhaseRenaming ==
  /\ run.pc = "renaming"
  /\ journal' = [journal EXCEPT !.phase = "renaming"]
  /\ run' = [run EXCEPT !.pc = "rename"]
  /\ UNCHANGED <<disk, report, cmds, edits, hist>>

\* os.rename replaces a file that has appeared at the destination.
RenameNote ==
  /\ run.pc = "rename"
  /\ Exists(Src)
  /\ disk' = [disk EXCEPT ![Dest] = disk[Src], ![Src] = Absent]
  /\ run' = [run EXCEPT !.pc = IF run.op = "trash" THEN "renamed" ELSE "flag"]
  /\ hist' = [hist EXCEPT !.dirty = @ \cup {Dest},
                !.lost = @ \cup Loss(disk[Dest], disk[Src], "rename")]
  /\ UNCHANGED <<journal, report, cmds, edits>>

\* renamed = True
FlagRenamed ==
  /\ run.pc = "flag"
  /\ run' = [run EXCEPT !.pc = "renamed", !.renamed = TRUE]
  /\ UNCHANGED <<disk, journal, report, cmds, edits, hist>>

\* What the exception handler reads of the try block's variables; the rest
\* is dead once the block is left.
Remembered ==
  [Idle EXCEPT !.op = run.op, !.mem = run.mem, !.renamed = run.renamed]

Commit(ending) ==
  /\ run' = [Remembered EXCEPT !.pc = "clean", !.ending = ending]
  /\ hist' = [hist EXCEPT !.dirty = {}]

\* Trash verifies nothing: it commits once the phase is written.
PhaseRenamed ==
  /\ run.pc = "renamed"
  /\ journal' = [journal EXCEPT !.phase = "renamed"]
  /\ IF run.op = "trash"
     THEN Commit("trashed")
     ELSE run' = [run EXCEPT !.pc = "verify"] /\ UNCHANGED hist
  /\ UNCHANGED <<disk, report, cmds, edits>>

Where(n) == IF n = Src THEN Dest ELSE n

StaleLink(n) == ~Exists(Where(n)) \/ LinksOf(disk[Where(n)]) = "old"

\* Every rewritten note is read again where it now is.
Verify ==
  /\ run.pc = "verify"
  /\ \A n \in run.hits : ~StaleLink(n)
  /\ Commit("applied")
  /\ UNCHANGED <<disk, journal, report, cmds, edits>>

(***************************************************************************)
(* _journal_done: shutil.rmtree removes the entries one by one, in the     *)
(* order the directory lists them, then the directory.                     *)
(***************************************************************************)

RemoveEntry ==
  /\ run.pc = "clean"
  /\ \/ \E n \in Notes : /\ journal.bak[n] # Absent
                         /\ journal' = [journal EXCEPT !.bak[n] = Absent]
     \/ /\ journal.phase # "none"
        /\ journal' = [journal EXCEPT !.phase = "none", !.files = {},
                         !.sha = NoEntries]
     \/ /\ journal.logged
        /\ journal' = [journal EXCEPT !.logged = FALSE, !.log = NoEntries]
  /\ UNCHANGED <<disk, run, report, cmds, edits, hist>>

RemoveDirectory ==
  /\ run.pc = "clean"
  /\ journal.bak = NoEntries /\ journal.phase = "none" /\ ~journal.logged
  /\ journal' = NoJournal
  /\ Exit(run.ending)
  /\ UNCHANGED <<disk, cmds, edits, hist>>

(***************************************************************************)
(* Failures.                                                               *)
(***************************************************************************)

InTry == {"read", "log", "write", "record", "renaming", "rename", "flag",
          "renamed", "verify"}
BeforeTry == {"planned", "copy", "hash", "manifest"}

\* The statements of the try block that can raise of themselves; with a
\* cleanup that can fail, rmtree is one of them.
Fallible == {"read", "write", "renaming", "rename", "renamed", "verify"}
FailingCleanup ==
  "tornCleanup" \in Faults /\ run.pc = "clean"
    /\ run.ending \in {"applied", "trashed"}

MustRaise ==
  \/ run.pc = "read" /\ \E n \in run.todo : LinksOf(disk[n]) # "old"
  \/ run.pc = "rename" /\ ~Exists(Src)
  \/ run.pc = "verify" /\ \E n \in run.hits : StaleLink(n)

\* Mutant: the handler drops the journal without rolling back.
ToHandler_NoRollback ==
  run' = [Remembered EXCEPT !.pc = "clean", !.ending = "rolled-back"]

\* except BaseException
ToHandler ==
  run' = [Remembered EXCEPT
            !.pc = IF run.op = "trash" THEN "undo" ELSE "handler"]

StatementRaises ==
  /\ \/ MustRaise
     \/ "raise" \in Faults /\ run.pc \in Fallible
     \/ FailingCleanup
  /\ ToHandler
  /\ UNCHANGED <<disk, journal, report, cmds, edits, hist>>

\* KeyboardInterrupt; between os.replace and the assignment that follows
\* it, the process does not know of the write it has made.
Interrupted ==
  /\ "signal" \in Faults
  /\ run.pc \in InTry
  /\ ToHandler
  /\ hist' = IF run.pc = "record"
             THEN [hist EXCEPT !.escaped = @ \cup {run.cur}] ELSE hist
  /\ UNCHANGED <<disk, journal, report, cmds, edits>>

\* _journal_start runs outside the try block: what it made stays.
SetupFails ==
  /\ \/ run.pc = "copy" /\ \E n \in run.todo : ~Exists(n)
     \/ run.pc = "hash" /\ ~Exists(run.cur)
     \/ Faults \cap {"raise", "signal"} # {} /\ run.pc \in BeforeTry
  /\ Exit("traceback")
  /\ UNCHANGED <<disk, journal, cmds, edits, hist>>

\* The process dies; its append or its copy may be cut off.
Kill ==
  /\ "kill" \in Faults
  /\ Busy
  /\ run.pc = "restoring" => "killMidCopy" \in Faults
  /\ run.pc = "clean" => "tornCleanup" \in Faults
  /\ \/ journal' = journal
     \/ run.pc = "log" /\ journal' = [journal EXCEPT !.logged = TRUE]
  /\ hist' = [hist EXCEPT !.cut = @ \/ run.pc = "restoring"]
  /\ Exit("none")
  /\ UNCHANGED <<disk, cmds, edits>>

(***************************************************************************)
(* Rollback: the handler of _do_relocate, then _journal_rollback, which    *)
(* cmd_trash's handler and `doctor --rollback` call too.                   *)
(***************************************************************************)

MovedBack ==
  disk' = MoveBack /\ hist' = [hist EXCEPT !.dirty = @ \ {Dest}]

HandlerMovesBack ==
  /\ run.pc = "handler"
  /\ run' = [run EXCEPT !.pc = "undo"]
  /\ IF run.renamed /\ AtDest THEN MovedBack ELSE UNCHANGED <<disk, hist>>
  /\ UNCHANGED <<journal, report, cmds, edits>>

HandlerMoveFails ==
  /\ run.pc = "handler"
  /\ run.renamed /\ AtDest
  /\ "moveBackError" \in Faults
  /\ Exit("traceback")
  /\ UNCHANGED <<disk, journal, cmds, edits, hist>>

NoManifest ==
  /\ run.pc = "undo"
  /\ journal.phase = "none"
  /\ Exit("no-manifest")
  /\ UNCHANGED <<disk, journal, cmds, edits, hist>>

\* Mutant: without written.jsonl, no file was written.
BeginClassify_NoneWritten(left) ==
  run' = [run EXCEPT !.pc = "classify", !.left = left,
            !.todo = IF journal.logged THEN journal.files ELSE {},
            !.mem = IF run.op = "relocate" THEN @ ELSE journal.log,
            !.classify = run.op = "relocate" \/ journal.logged]

\* Mutant: an empty map where there is none to load.
BeginClassify_EmptyMap(left) ==
  run' = [run EXCEPT !.pc = "classify", !.todo = journal.files, !.left = left,
            !.mem = IF run.op = "relocate" THEN @ ELSE NoEntries,
            !.classify = TRUE]

\* The handler classifies by the memory of the process; the others by
\* written.jsonl, and not at all where that file does not exist.
BeginClassify(left) ==
  run' = [run EXCEPT !.pc = "classify", !.todo = journal.files, !.left = left,
            !.mem = IF run.op = "relocate" THEN @ ELSE journal.log,
            !.classify = run.op = "relocate" \/ journal.logged]

RollbackMovesBack ==
  /\ run.pc = "undo"
  /\ journal.phase # "none"
  /\ BeginClassify({})
  /\ IF AtDest THEN MovedBack ELSE UNCHANGED <<disk, hist>>
  /\ UNCHANGED <<journal, report, cmds, edits>>

RollbackMoveFails ==
  /\ run.pc = "undo"
  /\ journal.phase # "none"
  /\ AtDest
  /\ "moveBackError" \in Faults
  /\ BeginClassify({Src})
  /\ hist' = [hist EXCEPT !.escaped = @ \cup {Dest}]
  /\ UNCHANGED <<disk, journal, report, cmds, edits>>

\* Mutant: bytes of another writer pass for our own.
Foreign_Never(n) == FALSE

\* What rollback makes of a journaled file: as it was; not written by us;
\* written by us and changed by someone since; ours to restore.
Untouched(n) == Exists(n) /\ disk[n] = journal.sha[n]
NotOurs(n)   == run.classify /\ run.mem[n] = Absent
Foreign(n) ==
  run.classify /\ Exists(n) /\ disk[n] # run.mem[n]

LeaveNote(n) ==
  /\ run.pc = "classify"
  /\ n \in run.todo
  /\ Untouched(n) \/ NotOurs(n)
  /\ run' = [run EXCEPT !.todo = @ \ {n}]
  /\ hist' = IF disk[n] = journal.sha[n]   \* it holds what was journaled
             THEN [hist EXCEPT !.dirty = @ \ {n}] ELSE hist
  /\ UNCHANGED <<disk, journal, report, cmds, edits>>

ReportForeign(n) ==
  /\ run.pc = "classify"
  /\ n \in run.todo
  /\ ~Untouched(n) /\ ~NotOurs(n) /\ Foreign(n)
  /\ run' = [run EXCEPT !.todo = @ \ {n}, !.left = @ \cup {n}]
  /\ UNCHANGED <<disk, journal, report, cmds, edits, hist>>

ChooseRestore(n) ==
  /\ run.pc = "classify"
  /\ n \in run.todo
  /\ ~Untouched(n) /\ ~NotOurs(n) /\ ~Foreign(n)
  /\ run' = [run EXCEPT !.pc = "restore", !.todo = @ \ {n}, !.cur = n]
  /\ UNCHANGED <<disk, journal, report, cmds, edits, hist>>

\* shutil.copy2 truncates the live file, then fills it.
RestoreHow == IF run.classify THEN "classified" ELSE "unclassified"

TruncateNote ==
  /\ run.pc = "restore"
  /\ journal.bak[run.cur] # Absent
  /\ disk' = [disk EXCEPT ![run.cur] = Torn]
  /\ run' = [run EXCEPT !.pc = "restoring"]
  /\ hist' = [hist EXCEPT !.lost =
       @ \cup Loss(disk[run.cur], journal.bak[run.cur], RestoreHow)]
  /\ UNCHANGED <<journal, report, cmds, edits>>

BackupMissing ==
  /\ run.pc = "restore"
  /\ journal.bak[run.cur] = Absent
  /\ Exit("traceback")
  /\ UNCHANGED <<disk, journal, cmds, edits, hist>>

FillNote ==
  /\ run.pc = "restoring"
  /\ disk' = IF Exists(run.cur)
             THEN [disk EXCEPT ![run.cur] = journal.bak[run.cur]] ELSE disk
  /\ run' = [run EXCEPT !.pc = "classify"]
  /\ hist' = [hist EXCEPT !.dirty = @ \ {run.cur},
                !.lost = @ \cup IF Exists(run.cur)
                   THEN Loss(disk[run.cur], journal.bak[run.cur], RestoreHow)
                   ELSE {}]
  /\ UNCHANGED <<journal, report, cmds, edits>>

\* Mutant: the journal stays after a clean rollback too.
EndRollback_Keeps ==
  /\ run.pc = "classify"
  /\ run.todo = {}
  /\ Exit(IF run.left # {} THEN "conflict" ELSE "rolled-back")
  /\ UNCHANGED <<disk, journal, cmds, edits, hist>>

\* Trash's handler re-raises and leaves the journal; the others drop it
\* when nothing was left alone.
EndRollback ==
  /\ run.pc = "classify"
  /\ run.todo = {}
  /\ \/ run.op = "trash" /\ Exit("traceback")
     \/ run.op # "trash" /\ run.left # {} /\ Exit("conflict")
     \/ /\ run.op # "trash" /\ run.left = {}
        /\ run' = [Idle EXCEPT !.op = run.op, !.pc = "clean",
                     !.ending = "rolled-back"]
        /\ UNCHANGED report
  /\ UNCHANGED <<disk, journal, cmds, edits, hist>>

(***************************************************************************)
(* vv doctor --rollback and --discard.                                     *)
(***************************************************************************)

DoctorRollback ==
  /\ ~Busy
  /\ journal.dir
  /\ run' = [run EXCEPT !.op = "doctor", !.pc = "undo"]
  /\ report' = "none"
  /\ UNCHANGED <<disk, journal, cmds, edits, hist>>

\* The user gives up the backups: what vv changed stays changed.
DoctorDiscard ==
  /\ ~Busy
  /\ journal.dir
  /\ run' = [run EXCEPT !.op = "doctor", !.pc = "clean", !.ending = "discarded"]
  /\ report' = "none"
  /\ hist' = [hist EXCEPT !.dirty = {}, !.gaveUp = TRUE]
  /\ UNCHANGED <<disk, journal, cmds, edits>>

(***************************************************************************)
(* The editor.                                                             *)
(***************************************************************************)

\* What vv has done to a path is no longer its business once someone else
\* writes it; the two ends of the move go together.
SavesOf(b) == IF b \in Text THEN {b.ed} ELSE {}
Settled(p) == IF p \in {Src, Dest} THEN {Src, Dest} ELSE {p}

External(ps, moved) ==
  /\ "edit" \in Faults
  /\ edits < MaxEdits
  /\ edits' = edits + 1
  /\ hist' = [hist EXCEPT !.edited = @ \cup ps,
                !.dirty = @ \ UNION {Settled(p) : p \in ps},
                !.offline = IF Busy THEN @ \ moved ELSE @ \cup {edits + 1}]
  /\ UNCHANGED <<journal, run, report, cmds>>

\* To the protocol a save that links to the new path is one that does not
\* link to the old.
EditorSaves(p, l) ==
  /\ External({p}, {})
  /\ disk' = [disk EXCEPT ![p] = [ed |-> edits + 1, links |-> l]]

EditorDeletes(p) ==
  /\ Exists(p)
  /\ External({p}, {})
  /\ disk' = [disk EXCEPT ![p] = Absent]

EditorRenames(p, q) ==
  /\ Exists(p) /\ ~Exists(q)
  /\ External({p, q}, SavesOf(disk[p]))
  /\ disk' = [disk EXCEPT ![q] = disk[p], ![p] = Absent]

-----------------------------------------------------------------------------
Step ==
  \/ DirtyGate \/ MakeJournal \/ HashOriginal \/ WriteManifest
  \/ \E n \in Notes : \/ CopyBackup(n) \/ ReadAndRewrite(n)
                      \/ LogIntent(n) \/ LogIntentFails(n)
                      \/ LeaveNote(n) \/ ReportForeign(n) \/ ChooseRestore(n)
  \/ WriteNote \/ RecordWritten
  \/ PhaseRenaming \/ RenameNote \/ FlagRenamed \/ PhaseRenamed \/ Verify
  \/ RemoveEntry \/ RemoveDirectory
  \/ StatementRaises \/ SetupFails
  \/ HandlerMovesBack \/ HandlerMoveFails
  \/ NoManifest \/ RollbackMovesBack \/ RollbackMoveFails
  \/ TruncateNote \/ BackupMissing \/ FillNote \/ EndRollback

User == \E op \in {"relocate", "trash"} : Plan(op)

Editor ==
  \/ \E p \in Paths, l \in {"old", "none"} : EditorSaves(p, l)
  \/ \E p \in Paths : EditorDeletes(p)
  \/ \E p, q \in Paths : EditorRenames(p, q)

Next ==
  \/ Step \/ User \/ DoctorRollback \/ DoctorDiscard
  \/ Interrupted \/ Kill
  \/ Editor

Spec == Init /\ [][Next]_vars

-----------------------------------------------------------------------------
(***************************************************************************)
(* Properties.                                                             *)
(***************************************************************************)

\* The journal can undo note n: it is covered, its backup is there, and
\* its record says that the bytes on disk may be vv's own.
Undoable(n) ==
  /\ journal.dir
  /\ journal.phase # "none"
  /\ n \in journal.files
  /\ journal.bak[n] # Absent
  /\ journal.logged /\ journal.log[n] # Absent

\* Whatever vv has rewritten and not yet committed or restored, the journal
\* on disk can undo without the memory of the process: a backup and a
\* write-ahead record stand for it from before the write until it is
\* settled, and the move is announced before it is made.  The exceptions
\* are the changes that escaped.
RecoveryPossible ==
  /\ \A n \in (hist.dirty \cap Notes) \ hist.escaped : Undoable(n)
  /\ Dest \in hist.dirty \ hist.escaped =>
       journal.dir /\ journal.phase \in {"renaming", "renamed"}

\* As long as nobody else touches the two ends of the move and the move
\* back does not fail, the note is at exactly one of them, at every moment
\* and whatever dies: never at both, never lost.
OneEnd ==
  (Dest \notin hist.escaped /\ hist.edited \cap {Src, Dest} = {}) =>
    (Exists(Src) <=> ~Exists(Dest))

\* "applied: ... verification clean" means it: the note is at its new path
\* and no note the editor has left alone since the plan links to the old.
AppliedComplete ==
  report = "applied" =>
    /\ hist.edited \cap {Src, Dest} = {} => AtDest
    /\ \A n \in Notes :
         {n, Where(n)} \cap hist.edited = {} => LinksOf(disk[Where(n)]) # "old"

\* "originals restored": when a rollback says so, from the handler or from
\* doctor, nothing vv changed is left, but for what escaped.
RolledBackLeavesOnlyEscaped ==
  report = "rolled-back" => hist.dirty \subseteq hist.escaped

\* A rollback that ends with "rolled-back" has undone the whole operation,
\* also one that had committed and whose journal was half removed when the
\* process died: where nobody else has written since the plan and nothing
\* escaped, the vault is byte for byte what the plan found.
RolledBackIsWhole ==
  (report = "rolled-back" /\ hist.edited = {} /\ hist.escaped = {}) =>
    disk = hist.before

\* A rollback stops at "NOT restored (changed by another writer)" only if
\* there was another writer, a copy of its own was cut off, or the note
\* could not be moved back.
ConflictIsExplained ==
  report = "conflict" => hist.edited # {} \/ hist.cut \/ Dest \in hist.escaped

\* A rollback that has a record of vv's writes never overwrites a save made
\* while no vv process ran, after a crash in particular, and left where it was
\* while one does.
ClassifiedRollbackKeepsOfflineEdits ==
  \A l \in hist.lost : l.how = "classified" => l.ed \notin hist.offline

\* The same of every rollback.
RollbackKeepsOfflineEdits ==
  \A l \in hist.lost :
    l.how \in {"classified", "unclassified"} => l.ed \notin hist.offline

=============================================================================
