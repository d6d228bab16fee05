------------------------------ MODULE Journals ------------------------------
(***************************************************************************)
(* Several vv processes on one vault: commands that write one note,        *)
(* refactorings that keep a journal, and `vv doctor`.  Nothing locks the   *)
(* vault: a command looks for a pending journal before it writes, and a    *)
(* refactoring makes its journal after it has looked.  The statements of   *)
(* one refactoring, its faults and its recovery are in Relocate; here they *)
(* are as coarse as other processes allow, and the move is left out.       *)
(*                                                                         *)
(* A note's bytes are the set of the processes whose change it holds.  A   *)
(* process runs one command; its journal, if it makes one, has its name.   *)
(***************************************************************************)
EXTENDS Integers, FiniteSets, SequencesExt

CONSTANTS
  Procs,    \* the processes
  Notes,    \* the notes that refactorings rewrite
  Hits,     \* [process -> those that its refactoring does]
  Commands, \* [process -> what it may run]
  MaxFaults \* bound: statements that raise, processes that die

Writers == {"write", "refactor"}
Doctors == {"rollback", "discard"}
ASSUME HitsAssumption == Hits \in [Procs -> (SUBSET Notes) \ {{}}]
ASSUME BoundAssumption == MaxFaults \in Nat
ASSUME CommandsAssumption == Commands \in [Procs -> SUBSET (Writers \cup Doctors)]

VARIABLES
  disk,    \* [note -> bytes]
  pending, \* the journal directories, the oldest first
  journal, \* [process -> what its journal holds or held]
  run,     \* [process -> its memory]
  said,    \* [process -> how its command ended; "none" if it could not say]
  faults,  \* so far
  hist     \* observed for the properties; no action's guard reads it
vars == <<disk, pending, journal, run, said, faults, hist>>

Bytes == SUBSET Procs
Entries == [Notes -> Bytes]
Untouched == [n \in Notes |-> {}]

\* bak: the backups, and the hashes of what was backed up; record: whether
\* there is a written.jsonl, and whether it ends within a line; log: the
\* hashes that it holds for the notes in logged.
Records == {"none", "lines", "torn"}
Journal == [manifest : BOOLEAN, bak : Entries, record : Records,
            logged : SUBSET Notes, log : Entries]
NoJournal ==
  [manifest |-> FALSE, bak |-> Untouched, record |-> "none", logged |-> {},
   log |-> Untouched]

PCs == {"idle", "gate", "note", "make", "copy", "read", "write", "replace",
        "record", "verify", "list", "load", "classify", "restore", "done", "ended"}
Verdicts == {"applied", "rolled-back", "discarded"}
Reports  == Verdicts \cup
  {"none", "ok", "dirty", "conflict", "no-manifest", "traceback", "not-found"}

\* text: what a refactoring made of the notes; written, text: what a rollback
\* takes for vv's own bytes, unless classify is FALSE; todo, cur: the notes
\* it has to do; left: it has left one alone; verdict: how it will end.
Run ==
  [op : Writers \cup Doctors, pc : PCs, jdir : Procs, todo : SUBSET Notes,
   cur : SUBSET Notes, text : Entries, written : SUBSET Notes,
   classify : BOOLEAN, left : BOOLEAN, verdict : Verdicts]
Started(p, op, pc) ==
  [op |-> op, pc |-> pc, jdir |-> p, todo |-> {}, cur |-> {},
   text |-> Untouched, written |-> {}, classify |-> TRUE, left |-> FALSE,
   verdict |-> "applied"]

\* Every variable has its type.
TypeOK ==
  /\ disk \in Entries
  /\ pending \in Seq(Procs)
  /\ journal \in [Procs -> Journal]
  /\ run \in [Procs -> Run]
  /\ said \in [Procs -> Reports]
  /\ faults \in 0 .. MaxFaults
  /\ hist \in [before : [Procs -> SUBSET Procs], beset : SUBSET Procs,
               escaped : [Procs -> SUBSET Notes]]

JournalDirs == {pending[i] : i \in DOMAIN pending}
Pending(j) == j \in JournalDirs
Ready(p, pc) == run[p].pc = pc
Alive(p) == run[p].pc \notin {"idle", "ended"}
Goto(p, pc) == run' = [run EXCEPT ![p].pc = pc]
\* The process ends; of its memory the properties want the journal.
End(p, report) ==
  /\ run' = [run EXCEPT ![p] =
       [Started(p, run[p].op, "ended") EXCEPT !.jdir = run[p].jdir]]
  /\ said' = [said EXCEPT ![p] = report]

Fault == faults < MaxFaults /\ faults' = faults + 1

Init ==
  /\ disk = Untouched
  /\ pending = <<>>
  /\ journal = [p \in Procs |-> NoJournal]
  /\ run = [p \in Procs |-> Started(p, "write", "idle")]
  /\ said = [p \in Procs |-> "none"]
  /\ faults = 0
  /\ hist = [before |-> [p \in Procs |-> {}], beset |-> {},
             escaped |-> [p \in Procs |-> {}]]

----------------------------------------------------------------------------
(* A command that writes.                                                  *)

\* before: the journals that are pending when a command that writes is invoked.
\* beset: the refactorings that ran beside another one.  escaped: what a
\* refactoring writes without a record that its rollback will find.
Invoke(p, op) ==
  LET beside == {q \in Procs : Alive(q) /\ run[q].op = "refactor"}
  IN /\ Ready(p, "idle")
     /\ run' = [run EXCEPT ![p] =
                  Started(p, op, IF op \in Writers THEN "gate" ELSE "list")]
     /\ hist' = [hist EXCEPT
                  !.before[p] = IF op \in Writers THEN JournalDirs ELSE {},
                  !.beset = IF op = "refactor" /\ beside # {}
                            THEN @ \cup beside \cup {p} ELSE @]
     /\ UNCHANGED <<disk, pending, journal, said, faults>>

Admitted(p) == IF run[p].op = "write" THEN "note" ELSE "make"

\* Mutant: only the commands that write one note look for a journal.
DirtyGate_NotesOnly(p) ==
  /\ Ready(p, "gate")
  /\ IF pending # <<>> /\ run[p].op = "write" THEN End(p, "dirty")
     ELSE Goto(p, Admitted(p)) /\ UNCHANGED said
  /\ UNCHANGED <<disk, pending, journal, hist, faults>>

DirtyGate(p) ==
  /\ Ready(p, "gate")
  /\ IF pending # <<>> THEN End(p, "dirty")
     ELSE Goto(p, Admitted(p)) /\ UNCHANGED said
  /\ UNCHANGED <<disk, pending, journal, hist, faults>>

\* set, append, patch, ...: one note, whose signature is checked
\* (GuardedWrite).
WriteNote(p, n) ==
  /\ Ready(p, "note")
  /\ disk' = [disk EXCEPT ![n] = @ \cup {p}]
  /\ End(p, "ok")
  /\ UNCHANGED <<pending, journal, hist, faults>>

\* Of the notes, those the refactoring rewrites.
OfHits(p, bytes) == [n \in Notes |-> IF n \in Hits[p] THEN bytes[n] ELSE {}]

\* _journal_start: the directory, the backups, the manifest.
MakeJournal(p) ==
  /\ Ready(p, "make")
  /\ pending' = Append(pending, p)
  /\ Goto(p, "copy")
  /\ UNCHANGED <<disk, journal, said, hist, faults>>

CopyBackups(p) ==
  /\ Ready(p, "copy")
  /\ IF Pending(p)
     THEN /\ journal' = [journal EXCEPT ![p].manifest = TRUE,
                                        ![p].bak = OfHits(p, disk)]
          /\ Goto(p, "read")
          /\ UNCHANGED said
     ELSE End(p, "traceback") /\ UNCHANGED journal
  /\ UNCHANGED <<disk, pending, hist, faults>>

ReadNotes(p) ==
  /\ Ready(p, "read")
  /\ run' = [run EXCEPT
               ![p].text = OfHits(p, [n \in Notes |-> disk[n] \cup {p}]),
               ![p].todo = Hits[p], ![p].pc = "write"]
  /\ UNCHANGED <<disk, pending, journal, said, hist, faults>>

Escapes(p, n) == hist' = [hist EXCEPT !.escaped[p] = @ \cup {n}]
AboutTo(p, n) == run' = [run EXCEPT ![p].cur = {n}, ![p].pc = "replace"]

\* _journal_written: the intended hash.  After a torn line it spoils its own.
LogIntent(p, n) ==
  /\ Ready(p, "write")
  /\ n \in run[p].todo
  /\ AboutTo(p, n)
  /\ \/ /\ Pending(p) /\ journal[p].record # "torn"
        /\ journal' = [journal EXCEPT ![p].record = "lines",
                        ![p].logged = @ \cup {n}, ![p].log[n] = run[p].text[n]]
        /\ UNCHANGED hist
     \/ /\ Pending(p) /\ journal[p].record = "torn"
        /\ journal' = [journal EXCEPT ![p].record = "lines"]
        /\ Escapes(p, n)
     \/ ~Pending(p) /\ UNCHANGED <<journal, hist>>
  /\ UNCHANGED <<disk, pending, said, faults>>

\* ... whose OSError is swallowed, wherever it cuts the line off: the write
\* goes ahead all the same.
LogIntentFails(p, n) ==
  /\ Ready(p, "write")
  /\ n \in run[p].todo
  /\ Pending(p)
  /\ Fault
  /\ AboutTo(p, n)
  /\ Escapes(p, n)
  /\ \E r \in Records \ {"none"} :
       /\ journal[p].record = "torn" => r = "torn"
       /\ journal' = [journal EXCEPT ![p].record = r]
  /\ UNCHANGED <<disk, pending, said>>

\* atomic_write ...
WriteText(p, n) ==
  /\ Ready(p, "replace")
  /\ n \in run[p].cur
  /\ disk' = [disk EXCEPT ![n] = run[p].text[n]]
  /\ Goto(p, "record")
  /\ UNCHANGED <<pending, journal, said, hist, faults>>

\* ... and then the handler's own record of it.
RecordWritten(p, n) ==
  /\ Ready(p, "record")
  /\ n \in run[p].cur
  /\ run' = [run EXCEPT ![p].todo = @ \ {n}, ![p].written = @ \cup {n},
               ![p].cur = {},
               ![p].pc = IF run[p].todo = {n} THEN "verify" ELSE "write"]
  /\ UNCHANGED <<disk, pending, journal, said, hist, faults>>

Verify(p) ==
  /\ Ready(p, "verify")
  /\ Goto(p, IF \A n \in Hits[p] : p \in disk[n] THEN "done" ELSE "load")
  /\ UNCHANGED <<disk, pending, journal, said, hist, faults>>

\* A statement of the transaction raises, or Ctrl-C comes before it: its
\* handler rolls back.  A note that has been replaced and is not in written
\* yet it takes for somebody else's.
Raises(p) ==
  /\ run[p].pc \in {"read", "write", "replace", "record", "verify"}
  /\ Fault
  /\ run' = [run EXCEPT ![p].cur = {}, ![p].pc = "load"]
  /\ hist' = IF run[p].pc = "record"
             THEN [hist EXCEPT !.escaped[p] = @ \cup run[p].cur] ELSE hist
  /\ UNCHANGED <<disk, pending, journal, said>>

----------------------------------------------------------------------------
(* Rolling back, and doctor.                                               *)

\* doctor takes the oldest journal, whoever's it is.
ListJournals(p) ==
  /\ Ready(p, "list")
  /\ IF pending = <<>>
     THEN End(p, "not-found") /\ UNCHANGED hist
     ELSE /\ run' = [run EXCEPT ![p].jdir = Head(pending),
               ![p].pc = IF run[p].op = "discard" THEN "done" ELSE "load",
               ![p].verdict = IF run[p].op = "discard" THEN "discarded" ELSE @]
          /\ hist' = IF Alive(Head(pending)) \/ run[p].op = "discard"
                     THEN [hist EXCEPT !.beset = @ \cup {Head(pending)}]
                     ELSE hist
          /\ UNCHANGED said
  /\ UNCHANGED <<disk, pending, journal, faults>>

\* The manifest, and the record: the handler's own memory, else
\* written.jsonl, else none.
LoadManifest(p) ==
  LET j == run[p].jdir
      own == run[p].op = "refactor"
  IN /\ Ready(p, "load")
     /\ IF Pending(j) /\ journal[j].manifest
        THEN /\ run' = [run EXCEPT ![p].pc = "classify", ![p].todo = Hits[j],
                  ![p].verdict = "rolled-back",
                  ![p].text = IF own THEN @ ELSE journal[j].log,
                  ![p].written = IF own THEN @ ELSE journal[j].logged,
                  ![p].classify = own \/ journal[j].record # "none"]
             /\ UNCHANGED said
        ELSE End(p, "no-manifest")
     /\ UNCHANGED <<disk, pending, journal, hist, faults>>

Skipped(p, n) ==
  \/ disk[n] = journal[run[p].jdir].bak[n]
  \/ run[p].classify /\ n \notin run[p].written

Foreign(p, n) ==
  /\ ~Skipped(p, n)
  /\ run[p].classify
  /\ disk[n] # run[p].text[n]

Classify(p, n) ==
  /\ Ready(p, "classify")
  /\ n \in run[p].todo
  /\ run' = [run EXCEPT ![p].todo = @ \ {n},
               ![p].left = @ \/ Foreign(p, n),
               ![p].cur = IF Skipped(p, n) \/ Foreign(p, n) THEN {} ELSE {n},
               ![p].pc = IF Skipped(p, n) \/ Foreign(p, n) THEN @ ELSE "restore"]
  /\ UNCHANGED <<disk, pending, journal, said, hist, faults>>

\* The backup is copied over the note, if it is still there.
Restore(p, n) ==
  /\ Ready(p, "restore")
  /\ n \in run[p].cur
  /\ IF Pending(run[p].jdir)
     THEN /\ disk' = [disk EXCEPT ![n] = journal[run[p].jdir].bak[n]]
          /\ Goto(p, "classify")
          /\ UNCHANGED said
     ELSE End(p, "traceback") /\ UNCHANGED disk
  /\ UNCHANGED <<pending, journal, hist, faults>>

\* Mutant: the journal goes although a note was left alone.
EndRollback_Anyway(p) ==
  /\ Ready(p, "classify")
  /\ run[p].todo = {}
  /\ Goto(p, "done") /\ UNCHANGED said
  /\ UNCHANGED <<disk, pending, journal, hist, faults>>

EndRollback(p) ==
  /\ Ready(p, "classify")
  /\ run[p].todo = {}
  /\ IF run[p].left THEN End(p, "conflict")
     ELSE Goto(p, "done") /\ UNCHANGED said
  /\ UNCHANGED <<disk, pending, journal, hist, faults>>

\* Mutant: a journal that is gone is taken for one that was removed.
RemoveJournal_IgnoreErrors(p) ==
  /\ Ready(p, "done")
  /\ pending' = SelectSeq(pending, LAMBDA j : j # run[p].jdir)
  /\ End(p, run[p].verdict)
  /\ UNCHANGED <<disk, journal, hist, faults>>

\* _journal_done: shutil.rmtree raises if the directory is gone, in the
\* transaction or outside.
RemoveJournal(p) ==
  /\ Ready(p, "done")
  /\ IF Pending(run[p].jdir)
     THEN /\ \E i \in DOMAIN pending : /\ pending[i] = run[p].jdir
                                      /\ pending' = RemoveAt(pending, i)
          /\ End(p, run[p].verdict)
     ELSE /\ IF run[p].verdict = "applied"
             THEN Goto(p, "load") /\ UNCHANGED said
             ELSE End(p, "traceback")
          /\ UNCHANGED pending
  /\ UNCHANGED <<disk, journal, hist, faults>>

Kill(p) ==
  /\ Alive(p)
  /\ Fault
  /\ End(p, "none")
  /\ UNCHANGED <<disk, pending, journal, hist>>

Writing(p) == \E n \in Notes : WriteNote(p, n) \/ WriteText(p, n)

Next == \E p \in Procs :
  \/ \E op \in Commands[p] : Invoke(p, op)
  \/ DirtyGate(p) \/ MakeJournal(p) \/ CopyBackups(p) \/ ReadNotes(p)
  \/ Writing(p) \/ Verify(p) \/ Raises(p)
  \/ \E n \in Notes : \/ LogIntent(p, n) \/ LogIntentFails(p, n)
                      \/ RecordWritten(p, n)
  \/ ListJournals(p) \/ LoadManifest(p) \/ EndRollback(p) \/ RemoveJournal(p)
  \/ \E n \in Notes : Classify(p, n) \/ Restore(p, n)
  \/ Kill(p)

Spec == Init /\ [][Next]_vars

----------------------------------------------------------------------------
(* Properties.                                                             *)

\* No command writes while a journal that was pending when the command was
\* invoked still is: of two refactorings that overlap, either can have passed
\* the gate only before the other made its journal.
JournalBlocksWrites ==
  [][\A p \in Procs : Writing(p) => hist.before[p] \cap JournalDirs = {}]_vars

\* A journal is settled once: of a refactoring and of the doctors that take
\* its journal, also while it runs, at most one reports success.
Settlers(j) == {p \in Procs : said[p] \in Verdicts /\ run[p].jdir = j}
OneVerdict ==
  \A j \in Procs : \A p, q \in Settlers(j) : p = q

\* A journal goes only when nothing its refactoring did is left, or all of it
\* was applied: else it stays, and blocks the vault's writes.  Outside: two
\* refactorings at once, a doctor beside the refactoring whose journal it
\* takes, and --discard; and a note that has escaped, because the append of
\* its record failed or followed one that had, or because Ctrl-C came between
\* its replacement and the handler's own record of that.
UnfinishedIsPending ==
  \A j \in Procs :
    (/\ run[j].op = "refactor" /\ ~Alive(j)
     /\ said[j] # "applied"
     /\ ~Pending(j)
     /\ j \notin hist.beset)
    => \A n \in Notes \ hist.escaped[j] : j \notin disk[n]
=============================================================================
