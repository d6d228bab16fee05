--------------------------- MODULE JournalsProofs ---------------------------
(***************************************************************************)
(* Proofs about several processes on one vault, for any number of them,    *)
(* any commands and any faults: types, verdicts and the gate; then, that a *)
(* journal goes only when nothing its refactoring did is left or all of it *)
(* was applied.                                                            *)
(***************************************************************************)
EXTENDS Journals, SequenceTheorems, TLAPS

----------------------------------------------------------------------------
(* Types.                                                                  *)

LEMMA StartedType ==
  ASSUME NEW p \in Procs, NEW op \in Writers \cup Doctors, NEW pc \in PCs
  PROVE  Started(p, op, pc) \in Run
BY DEF Started, Run, Untouched, Entries, Bytes, Verdicts

LEMMA EndType ==
  ASSUME TypeOK, NEW p \in Procs, NEW r \in Reports, End(p, r)
  PROVE  run' \in [Procs -> Run] /\ said' \in [Procs -> Reports]
<1>1. Started(p, run[p].op, "ended") \in Run
  BY StartedType DEF TypeOK, Run, PCs
<1>2. [Started(p, run[p].op, "ended") EXCEPT !.jdir = run[p].jdir] \in Run
  BY <1>1 DEF TypeOK, Run
<1> QED
  BY <1>2 DEF TypeOK, End

LEMMA GotoType ==
  ASSUME TypeOK, NEW p \in Procs, NEW pc \in PCs, Goto(p, pc)
  PROVE  run' \in [Procs -> Run]
<1>1. run[p] \in Run
  BY DEF TypeOK
<1>2. [run[p] EXCEPT !.pc = pc] \in Run
  BY <1>1 DEF Run
<1> QED
  BY <1>2 DEF TypeOK, Goto

LEMMA OfHitsType ==
  ASSUME NEW p \in Procs, NEW bytes \in Entries
  PROVE  OfHits(p, bytes) \in Entries
BY DEF OfHits, Entries, Bytes

LEMMA RemoveAtProperties ==
  ASSUME NEW S, NEW s \in Seq(S), NEW i \in DOMAIN s
  PROVE  /\ RemoveAt(s, i) \in Seq(S)
         /\ Len(RemoveAt(s, i)) = Len(s) - 1
         /\ \A k \in 1 .. Len(s) - 1 :
              RemoveAt(s, i)[k] = IF k < i THEN s[k] ELSE s[k + 1]
<1> DEFINE before == SubSeq(s, 1, i - 1)
           after  == SubSeq(s, i + 1, Len(s))
<1>0. Len(s) \in Nat /\ i \in 1 .. Len(s)
  OBVIOUS
<1>1. /\ before \in Seq(S) /\ Len(before) = i - 1
      /\ \A k \in 1 .. i - 1 : before[k] = s[k]
  BY SubSeqProperties
<1>2. /\ after \in Seq(S) /\ Len(after) = Len(s) - i
      /\ \A k \in 1 .. Len(s) - i : after[k] = s[i + k]
  BY SubSeqProperties
<1> HIDE DEF before, after
<1>3. /\ before \o after \in Seq(S)
      /\ Len(before \o after) = Len(s) - 1
      /\ \A k \in 1 .. Len(s) - 1 : (before \o after)[k] =
           IF k <= i - 1 THEN before[k] ELSE after[k - (i - 1)]
  BY <1>1, <1>2, ConcatProperties
<1>4. ASSUME NEW k \in 1 .. Len(s) - 1
      PROVE  (before \o after)[k] = IF k < i THEN s[k] ELSE s[k + 1]
  <2>1. CASE k < i
    BY <1>0, <1>1, <1>3, <2>1
  <2>2. CASE k >= i
    <3>1. k - (i - 1) \in 1 .. Len(s) - i /\ i + (k - (i - 1)) = k + 1
      BY <1>0, <2>2
    <3>2. ~(k <= i - 1) /\ ~(k < i)
      BY <1>0, <2>2
    <3>3. after[k - (i - 1)] = s[k + 1]
      BY <1>2, <3>1
    <3> QED
      BY <1>3, <3>2, <3>3
  <2>3. k < i \/ k >= i
    BY <1>0
  <2> QED
    BY <2>1, <2>2, <2>3, Zenon
<1> QED
  BY <1>3, <1>4 DEF RemoveAt, before, after

LEMMA InitType == Init => TypeOK
<1> SUFFICES ASSUME Init PROVE TypeOK
  OBVIOUS
<1>1. run \in [Procs -> Run]
  BY StartedType DEF Init, Writers, PCs
<1> QED
  BY <1>1, BoundAssumption
  DEF Init, TypeOK, Untouched, Entries, Bytes, Journal, Records, NoJournal,
      Reports

LEMMA NextType == TypeOK /\ [Next]_vars => TypeOK'
<1> SUFFICES ASSUME TypeOK, [Next]_vars PROVE TypeOK'
  OBVIOUS
<1> USE DEF TypeOK
<1>1. ASSUME NEW p \in Procs, NEW op \in Commands[p], Invoke(p, op)
      PROVE  TypeOK'
  <2>1. op \in Writers \cup Doctors
    BY CommandsAssumption
  <2>2. Started(p, op, IF op \in Writers THEN "gate" ELSE "list") \in Run
    BY <2>1, StartedType DEF PCs
  <2>3. run' \in [Procs -> Run]
    BY <1>1, <2>2 DEF Invoke
  <2>4. JournalDirs \subseteq Procs
    BY DEF JournalDirs
  <2>5. hist' \in [before : [Procs -> SUBSET Procs], beset : SUBSET Procs,
                   escaped : [Procs -> SUBSET Notes]]
    <3> DEFINE seen == IF op \in Writers THEN JournalDirs ELSE {}
               beside == {q \in Procs : Alive(q) /\ run[q].op = "refactor"}
               beset == IF op = "refactor" /\ beside # {}
                        THEN hist.beset \cup beside \cup {p} ELSE hist.beset
    <3>1. hist' = [hist EXCEPT !.before = [@ EXCEPT ![p] = seen],
                               !.beset = beset]
      BY <1>1 DEF Invoke
    <3>2. beset \in SUBSET Procs /\ seen \in SUBSET Procs
      BY <2>4
    <3> HIDE DEF beset, seen
    <3> QED
      BY <3>1, <3>2
  <2> QED
    BY <1>1, <2>3, <2>5 DEF Invoke
<1>2. ASSUME NEW p \in Procs, DirtyGate(p) PROVE TypeOK'
  <2>1. CASE End(p, "dirty")
    BY <1>2, <2>1, EndType DEF DirtyGate, Reports
  <2>2. CASE Goto(p, Admitted(p)) /\ UNCHANGED said
    BY <1>2, <2>2, GotoType DEF DirtyGate, Admitted, PCs
  <2> QED
    BY <1>2, <2>1, <2>2 DEF DirtyGate
<1>3. ASSUME NEW p \in Procs, MakeJournal(p) PROVE TypeOK'
  <2>1. run' \in [Procs -> Run]
    BY <1>3, GotoType DEF MakeJournal, PCs
  <2> QED
    BY <1>3, <2>1 DEF MakeJournal
<1>4. ASSUME NEW p \in Procs, CopyBackups(p) PROVE TypeOK'
  <2>1. CASE Pending(p)
    <3>1. run' \in [Procs -> Run]
      BY <1>4, <2>1, GotoType DEF CopyBackups, PCs
    <3>0. OfHits(p, disk) \in Entries
      BY OfHitsType
    <3>2. [journal[p] EXCEPT !.manifest = TRUE, !.bak = OfHits(p, disk)] \in Journal
      BY <3>0 DEF Journal
    <3>3. journal' = [journal EXCEPT ![p] =
            [journal[p] EXCEPT !.manifest = TRUE, !.bak = OfHits(p, disk)]]
      BY <1>4, <2>1 DEF CopyBackups
    <3>4. journal' \in [Procs -> Journal]
      BY <3>2, <3>3
    <3> QED
      BY <1>4, <2>1, <3>1, <3>4 DEF CopyBackups
  <2>2. CASE ~Pending(p)
    BY <1>4, <2>2, EndType DEF CopyBackups, Reports
  <2> QED
    BY <2>1, <2>2
<1>5. ASSUME NEW p \in Procs, ReadNotes(p) PROVE TypeOK'
  <2> DEFINE text == OfHits(p, [n \in Notes |-> disk[n] \cup {p}])
             r == [run[p] EXCEPT !.text = text, !.todo = Hits[p], !.pc = "write"]
  <2>0. [n \in Notes |-> disk[n] \cup {p}] \in Entries
    BY DEF Entries, Bytes
  <2>1. text \in Entries
    BY <2>0, OfHitsType
  <2>2. Hits[p] \in SUBSET Notes
    BY HitsAssumption
  <2>3. r \in Run
    <3>1. run[p] \in Run
      OBVIOUS
    <3> QED
      BY <2>1, <2>2, <3>1 DEF Run, PCs
  <2>4. run' = [run EXCEPT ![p] = r]
    BY <1>5 DEF ReadNotes
  <2>5. run' \in [Procs -> Run]
    BY <2>3, <2>4
  <2> QED
    BY <1>5, <2>5 DEF ReadNotes
<1>6. ASSUME NEW p \in Procs, NEW n \in Notes, WriteNote(p, n) PROVE TypeOK'
  <2>1. run' \in [Procs -> Run] /\ said' \in [Procs -> Reports]
    BY <1>6, EndType DEF WriteNote, Reports
  <2>2. disk' \in Entries
    BY <1>6 DEF WriteNote, Entries, Bytes
  <2> QED
    BY <1>6, <2>1, <2>2 DEF WriteNote
<1>7. ASSUME NEW p \in Procs, NEW n \in Notes,
             LogIntent(p, n) \/ LogIntentFails(p, n)
      PROVE  TypeOK'
  <2> DEFINE r == [run[p] EXCEPT !.cur = {n}, !.pc = "replace"]
  <2>0. run[p] \in Run /\ journal[p] \in Journal
    OBVIOUS
  <2>1. run' = [run EXCEPT ![p] = r]
    BY <1>7 DEF LogIntent, LogIntentFails, AboutTo
  <2>2. r \in Run
    BY <2>0 DEF Run, PCs
  <2>3. run' \in [Procs -> Run]
    BY <2>1, <2>2
  <2>4. run[p].text[n] \in Bytes
    BY <2>0 DEF Run, Entries
  <2>5. \/ journal' = journal
        \/ \E c \in Journal : journal' = [journal EXCEPT ![p] = c]
    <3>1. CASE LogIntent(p, n)
      <4>1. [journal[p] EXCEPT !.record = "lines", !.logged = @ \cup {n},
               !.log = [@ EXCEPT ![n] = run[p].text[n]]] \in Journal
        BY <2>0, <2>4 DEF Journal, Entries, Records
      <4>2. [journal[p] EXCEPT !.record = "lines"] \in Journal
        BY <2>0 DEF Journal, Records
      <4> QED
        BY <3>1, <4>1, <4>2 DEF LogIntent
    <3>2. CASE LogIntentFails(p, n)
      <4>1. PICK c \in Records :
              journal' = [journal EXCEPT ![p] = [journal[p] EXCEPT !.record = c]]
        BY <3>2 DEF LogIntentFails
      <4>2. [journal[p] EXCEPT !.record = c] \in Journal
        BY <2>0 DEF Journal
      <4> QED
        BY <4>1, <4>2
    <3> QED
      BY <1>7, <3>1, <3>2
  <2>6. journal' \in [Procs -> Journal]
    BY <2>5
  <2>7. hist' \in [before : [Procs -> SUBSET Procs], beset : SUBSET Procs,
                   escaped : [Procs -> SUBSET Notes]]
    <3>1. CASE hist' = hist
      BY <3>1
    <3>2. CASE Escapes(p, n)
      <4> DEFINE e == [hist.escaped EXCEPT ![p] = @ \cup {n}]
      <4>1. hist' = [hist EXCEPT !.escaped = e]
        BY <3>2 DEF Escapes
      <4>2. e \in [Procs -> SUBSET Notes]
        OBVIOUS
      <4> HIDE DEF e
      <4> QED
        BY <4>1, <4>2
    <3> QED
      BY <1>7, <3>1, <3>2 DEF LogIntent, LogIntentFails
  <2>8. faults' \in 0 .. MaxFaults
    BY <1>7, BoundAssumption DEF LogIntent, LogIntentFails, Fault
  <2> QED
    BY <1>7, <2>3, <2>6, <2>7, <2>8 DEF LogIntent, LogIntentFails
<1>7a. ASSUME NEW p \in Procs, NEW n \in Notes, WriteText(p, n) PROVE TypeOK'
  <2>1. run[p].text[n] \in Bytes
    BY DEF Run, Entries
  <2>2. disk' \in Entries
    BY <1>7a, <2>1 DEF WriteText, Entries
  <2>3. run' \in [Procs -> Run]
    BY <1>7a, GotoType DEF WriteText, PCs
  <2> QED
    BY <1>7a, <2>2, <2>3 DEF WriteText
<1>7b. ASSUME NEW p \in Procs, NEW n \in Notes, RecordWritten(p, n) PROVE TypeOK'
  <2> DEFINE r == [run[p] EXCEPT !.todo = @ \ {n}, !.written = @ \cup {n},
                     !.cur = {},
                     !.pc = IF run[p].todo = {n} THEN "verify" ELSE "write"]
  <2>1. run[p] \in Run
    OBVIOUS
  <2>2. r \in Run
    BY <2>1 DEF Run, PCs
  <2>3. run' = [run EXCEPT ![p] = r]
    BY <1>7b DEF RecordWritten
  <2>4. run' \in [Procs -> Run]
    BY <2>2, <2>3
  <2> QED
    BY <1>7b, <2>4 DEF RecordWritten
<1>8. ASSUME NEW p \in Procs, Verify(p) PROVE TypeOK'
  BY <1>8, GotoType DEF Verify, PCs
<1>9. ASSUME NEW p \in Procs, Raises(p) PROVE TypeOK'
  <2> DEFINE r == [run[p] EXCEPT !.cur = {}, !.pc = "load"]
  <2>0. run[p] \in Run
    OBVIOUS
  <2>1. r \in Run
    BY <2>0 DEF Run, PCs
  <2>2. run' = [run EXCEPT ![p] = r]
    BY <1>9 DEF Raises
  <2>3. run' \in [Procs -> Run]
    BY <2>1, <2>2
  <2>4. run[p].cur \in SUBSET Notes
    BY <2>0 DEF Run
  <2>5. hist' \in [before : [Procs -> SUBSET Procs], beset : SUBSET Procs,
                   escaped : [Procs -> SUBSET Notes]]
    <3>1. CASE hist' = hist
      BY <3>1
    <3>2. CASE hist' # hist
      <4> DEFINE e == [hist.escaped EXCEPT ![p] = @ \cup run[p].cur]
      <4>1. hist' = [hist EXCEPT !.escaped = e]
        BY <1>9, <3>2 DEF Raises
      <4>2. e \in [Procs -> SUBSET Notes]
        BY <2>4
      <4> HIDE DEF e
      <4> QED
        BY <4>1, <4>2
    <3> QED
      BY <3>1, <3>2
  <2>6. faults' \in 0 .. MaxFaults
    BY <1>9, BoundAssumption DEF Raises, Fault
  <2> QED
    BY <1>9, <2>3, <2>5, <2>6 DEF Raises
<1>10. ASSUME NEW p \in Procs, ListJournals(p) PROVE TypeOK'
  <2>1. CASE pending = <<>>
    BY <1>10, <2>1, EndType DEF ListJournals, Reports
  <2>2. CASE pending # <<>>
    <3> DEFINE r == [run[p] EXCEPT !.jdir = Head(pending),
                 !.pc = IF run[p].op = "discard" THEN "done" ELSE "load",
                 !.verdict = IF run[p].op = "discard" THEN "discarded" ELSE @]
    <3>1. Head(pending) \in Procs /\ run[p] \in Run
      BY <2>2
    <3>2. r \in Run
      BY <3>1 DEF Run, PCs, Verdicts
    <3>3. run' = [run EXCEPT ![p] = r]
      BY <1>10, <2>2 DEF ListJournals
    <3>4. run' \in [Procs -> Run]
      BY <3>2, <3>3
    <3>5. hist' \in [before : [Procs -> SUBSET Procs], beset : SUBSET Procs,
                     escaped : [Procs -> SUBSET Notes]]
      BY <1>10, <2>2, <3>1 DEF ListJournals
    <3> QED
      BY <1>10, <2>2, <3>4, <3>5 DEF ListJournals
  <2> QED
    BY <2>1, <2>2
<1>11. ASSUME NEW p \in Procs, LoadManifest(p) PROVE TypeOK'
  <2> DEFINE j == run[p].jdir
             own == run[p].op = "refactor"
             r == [run[p] EXCEPT !.pc = "classify", !.todo = Hits[j],
                  !.verdict = "rolled-back",
                  !.text = IF own THEN @ ELSE journal[j].log,
                  !.written = IF own THEN @ ELSE journal[j].logged,
                  !.classify = own \/ journal[j].record # "none"]
  <2>1. CASE Pending(j) /\ journal[j].manifest
    <3>1. run[p] \in Run /\ j \in Procs
      BY DEF Run
    <3>2. /\ Hits[j] \in SUBSET Notes
          /\ journal[j].log \in Entries /\ journal[j].logged \in SUBSET Notes
      BY <3>1, HitsAssumption DEF Journal
    <3>3. r \in Run
      BY <3>1, <3>2 DEF Run, PCs, Verdicts
    <3>4. run' = [run EXCEPT ![p] = r]
      BY <1>11, <2>1 DEF LoadManifest
    <3>5. run' \in [Procs -> Run]
      BY <3>3, <3>4
    <3> QED
      BY <1>11, <2>1, <3>5 DEF LoadManifest
  <2>2. CASE ~(Pending(j) /\ journal[j].manifest)
    BY <1>11, <2>2, EndType DEF LoadManifest, Reports
  <2> QED
    BY <2>1, <2>2
<1>12. ASSUME NEW p \in Procs, NEW n \in Notes, Classify(p, n) PROVE TypeOK'
  <2> DEFINE skip == Skipped(p, n) \/ Foreign(p, n)
             r == [run[p] EXCEPT !.todo = @ \ {n},
               !.left = @ \/ Foreign(p, n),
               !.cur = IF skip THEN {} ELSE {n},
               !.pc = IF skip THEN @ ELSE "restore"]
  <2>1. (run[p].left \/ Foreign(p, n)) \in BOOLEAN /\ run[p] \in Run
    OBVIOUS
  <2>2. r \in Run
    BY <2>1 DEF Run, PCs
  <2>3. run' = [run EXCEPT ![p] = r]
    BY <1>12 DEF Classify
  <2>4. run' \in [Procs -> Run]
    BY <2>2, <2>3
  <2> QED
    BY <1>12, <2>4 DEF Classify
<1>13. ASSUME NEW p \in Procs, NEW n \in Notes, Restore(p, n) PROVE TypeOK'
  <2>1. CASE Pending(run[p].jdir)
    <3>1. run' \in [Procs -> Run]
      BY <1>13, <2>1, GotoType DEF Restore, PCs
    <3>2. journal[run[p].jdir].bak[n] \in Bytes
      BY DEF Run, Journal, Entries
    <3>3. disk' \in Entries
      BY <1>13, <2>1, <3>2 DEF Restore, Entries
    <3> QED
      BY <1>13, <2>1, <3>1, <3>3 DEF Restore
  <2>2. CASE ~Pending(run[p].jdir)
    BY <1>13, <2>2, EndType DEF Restore, Reports
  <2> QED
    BY <2>1, <2>2
<1>14. ASSUME NEW p \in Procs, EndRollback(p) PROVE TypeOK'
  <2>1. CASE run[p].left
    BY <1>14, <2>1, EndType DEF EndRollback, Reports
  <2>2. CASE ~run[p].left
    BY <1>14, <2>2, GotoType DEF EndRollback, PCs
  <2> QED
    BY <2>1, <2>2
<1>15. ASSUME NEW p \in Procs, RemoveJournal(p) PROVE TypeOK'
  <2>1. CASE Pending(run[p].jdir)
    <3>1. run[p].verdict \in Reports
      BY DEF Run, Reports
    <3>2. run' \in [Procs -> Run] /\ said' \in [Procs -> Reports]
      BY <1>15, <2>1, <3>1, EndType DEF RemoveJournal
    <3>3. pending' \in Seq(Procs)
      BY <1>15, <2>1, RemoveAtProperties DEF RemoveJournal
    <3> QED
      BY <1>15, <2>1, <3>2, <3>3 DEF RemoveJournal
  <2>2. CASE ~Pending(run[p].jdir) /\ run[p].verdict = "applied"
    BY <1>15, <2>2, GotoType DEF RemoveJournal, PCs
  <2>3. CASE ~Pending(run[p].jdir) /\ run[p].verdict # "applied"
    BY <1>15, <2>3, EndType DEF RemoveJournal, Reports
  <2> QED
    BY <2>1, <2>2, <2>3
<1>16. ASSUME NEW p \in Procs, Kill(p) PROVE TypeOK'
  <2>1. run' \in [Procs -> Run] /\ said' \in [Procs -> Reports]
    BY <1>16, EndType DEF Kill, Reports
  <2> QED
    BY <1>16, <2>1, BoundAssumption DEF Kill, Fault
<1>17. CASE UNCHANGED vars
  BY <1>17 DEF vars
<1> QED
  BY <1>1, <1>2, <1>3, <1>4, <1>5, <1>6, <1>7, <1>7a, <1>7b, <1>8, <1>9, <1>10,
     <1>11, <1>12, <1>13, <1>14, <1>15, <1>16, <1>17 DEF Next, Writing

\* Every variable keeps its type.
THEOREM TypeCorrect == Spec => []TypeOK
<1> QED
  BY InitType, NextType, PTL DEF Spec

----------------------------------------------------------------------------
(* The inductive invariant.                                                *)

\* Refactoring q has made its journal, or has failed to.
Made(q) ==
  /\ run[q].op = "refactor"
  /\ run[q].pc \notin {"idle", "gate", "note", "make", "list"}

\* The statements of a refactoring's write: record, replacement, memory.
Writes == {"write", "replace", "record"}
USE DEF Writes

\* Process p has passed the gate and may still write.
Working(p) == run[p].pc \in {"note", "make", "copy", "read"} \cup Writes

\* A process makes one journal.
PendingIsMade == \A j \in JournalDirs : Made(j)
EachOnce == \A i, k \in DOMAIN pending : pending[i] = pending[k] => i = k
SeenIsMade == \A p \in Procs : \A j \in hist.before[p] : Made(j)

\* What was pending at the invocation of one that works has gone.
Unblocked ==
  \A p \in Procs : Working(p) => hist.before[p] \cap JournalDirs = {}

\* Those at the gate are to write, and a refactoring makes the journal.
Role(p) ==
  /\ run[p].pc = "gate" => run[p].op \in Writers
  /\ run[p].pc = "make" => run[p].op = "refactor"
Roles == \A p \in Procs : Role(p)

\* A report is the end, and a verdict that of a journal that has gone.
ReportsEnd == \A p \in Procs : said[p] # "none" => run[p].pc = "ended"
SettledIsGone ==
  \A p \in Procs : said[p] \in Verdicts =>
    run[p].jdir \notin JournalDirs /\ Made(run[p].jdir)

Inv ==
  /\ TypeOK
  /\ PendingIsMade /\ EachOnce /\ SeenIsMade
  /\ Unblocked /\ Roles
  /\ ReportsEnd /\ SettledIsGone /\ OneVerdict

LEMMA InitInv == Init => Inv
<1> SUFFICES ASSUME Init PROVE Inv
  OBVIOUS
<1>1. TypeOK
  BY InitType
<1>2. \A p \in Procs : said[p] = "none" /\ run[p].pc = "idle"
  BY DEF Init, Started
<1>3. JournalDirs = {}
  BY DEF Init, JournalDirs
<1>4. EachOnce
  BY DEF Init, EachOnce
<1>5. SeenIsMade
  BY DEF Init, SeenIsMade
<1> QED
  BY <1>1, <1>2, <1>3, <1>4, <1>5
  DEF Inv, PendingIsMade, Unblocked, Working, Roles, Role, ReportsEnd,
      SettledIsGone, OneVerdict, Settlers, Verdicts

\* What a step of p does to the other processes.
Others(p) ==
  \A q \in Procs \ {p} : run'[q] = run[q] /\ said'[q] = said[q]

\* A step of p that makes and removes no journal, invokes nothing, and ends,
\* if at all, without a verdict.
Quiet(p) ==
  /\ pending' = pending
  /\ hist'.before = hist.before
  /\ Others(p)
  /\ run[p].pc # "ended"
  /\ Made(p) => Made(p)'
  /\ Role(p)'
  /\ Working(p)' => Working(p) \/ pending = <<>>
  /\ \/ said'[p] = said[p]
     \/ said'[p] \notin Verdicts /\ run'[p].pc = "ended"

LEMMA QuietStep ==
  ASSUME Inv, TypeOK', NEW p \in Procs, Quiet(p)
  PROVE  Inv'
<1>1. said[p] = "none" /\ said[p] \notin Verdicts
  BY DEF Inv, ReportsEnd, Quiet, Verdicts
<1>2. JournalDirs' = JournalDirs /\ JournalDirs \subseteq Procs
  BY DEF JournalDirs, Quiet, Inv, TypeOK
<1>3. \A q \in Procs : Made(q) => Made(q)'
  BY DEF Made, Quiet, Others
<1>4. PendingIsMade'
  BY <1>2, <1>3 DEF PendingIsMade, Inv
<1>5. EachOnce'
  BY DEF EachOnce, Inv, Quiet
<1>6. SeenIsMade'
  <2>1. \A q \in Procs : hist.before[q] \subseteq Procs
    BY DEF Inv, TypeOK
  <2> QED
    BY <1>3, <2>1 DEF SeenIsMade, Inv, Quiet
<1>7. Unblocked'
  <2>1. ASSUME NEW q \in Procs, Working(q)'
        PROVE  hist.before[q] \cap JournalDirs = {}
    <3>1. CASE Working(q)
      BY <3>1 DEF Inv, Unblocked
    <3>2. CASE ~Working(q)
      <4>1. pending = <<>>
        BY <2>1, <3>2 DEF Quiet, Others, Working
      <4> QED
        BY <4>1 DEF JournalDirs
    <3> QED
      BY <3>1, <3>2
  <2> QED
    BY <1>2, <2>1 DEF Unblocked, Quiet
<1>8. ReportsEnd'
  BY <1>1 DEF ReportsEnd, Inv, Quiet, Others
<1>9. \A q \in Procs : said'[q] \in Verdicts =>
        q # p /\ said[q] = said'[q] /\ run[q] = run'[q]
  BY <1>1 DEF Quiet, Others
<1>10. SettledIsGone'
  <2>1. \A q \in Procs : run[q].jdir \in Procs
    BY DEF Inv, TypeOK, Run
  <2> QED
    BY <1>2, <1>3, <1>9, <2>1 DEF SettledIsGone, Inv
<1>11. OneVerdict'
  BY <1>9 DEF OneVerdict, Settlers, Inv
<1>12. Roles'
  BY DEF Roles, Role, Inv, Quiet, Others
<1> QED
  BY <1>4, <1>5, <1>6, <1>7, <1>8, <1>10, <1>11, <1>12 DEF Inv

LEMMA InvokeStep ==
  ASSUME Inv, TypeOK', NEW p \in Procs, NEW op \in Commands[p], Invoke(p, op)
  PROVE  Inv'
<1>0. TypeOK
  BY DEF Inv
<1>1. run[p].pc = "idle" /\ said[p] = "none" /\ said' = said
      /\ pending' = pending
  BY DEF Inv, ReportsEnd, Invoke, Ready
<1>2. run'[p].pc \in {"gate", "list"} /\ Role(p)'
  BY <1>0 DEF Invoke, Started, TypeOK, Role
<1>3. \A q \in Procs \ {p} : run'[q] = run[q]
  BY <1>0 DEF Invoke, TypeOK
<1>4. ~Made(p)
  BY <1>1 DEF Made
<1>5. \A q \in Procs : Made(q) => Made(q)'
  BY <1>3, <1>4 DEF Made
<1>6. JournalDirs' = JournalDirs /\ JournalDirs \subseteq Procs
  BY <1>0, <1>1 DEF JournalDirs, TypeOK
<1>7. PendingIsMade'
  BY <1>5, <1>6 DEF PendingIsMade, Inv
<1>8. EachOnce'
  BY <1>1 DEF EachOnce, Inv
<1>9. PICK seen \in SUBSET JournalDirs :
        /\ hist'.before = [hist.before EXCEPT ![p] = seen]
        /\ op \in Writers => seen = JournalDirs
  <2> DEFINE seen == IF op \in Writers THEN JournalDirs ELSE {}
  <2>1. hist'.before = [hist.before EXCEPT ![p] = seen]
    BY DEF Invoke
  <2>2. seen \in SUBSET JournalDirs /\ (op \in Writers => seen = JournalDirs)
    OBVIOUS
  <2> HIDE DEF seen
  <2> QED
    BY <2>1, <2>2
<1>10. hist.before \in [Procs -> SUBSET Procs]
  BY <1>0 DEF TypeOK
<1>11. SeenIsMade'
  BY <1>5, <1>6, <1>9, <1>10 DEF SeenIsMade, PendingIsMade, Inv
<1>12. Unblocked'
  BY <1>2, <1>3, <1>6, <1>9, <1>10 DEF Unblocked, Working, Inv
<1>13. ReportsEnd'
  BY <1>1, <1>3 DEF ReportsEnd, Inv
<1>14. \A q \in Procs : said'[q] \in Verdicts => q # p /\ run[q] = run'[q]
  BY <1>1, <1>3 DEF Verdicts
<1>15. SettledIsGone'
  <2>1. \A q \in Procs : run[q].jdir \in Procs
    BY <1>0 DEF TypeOK, Run
  <2> QED
    BY <1>1, <1>5, <1>6, <1>14, <2>1 DEF SettledIsGone, Inv
<1>16. OneVerdict'
  BY <1>1, <1>14 DEF OneVerdict, Settlers, Inv
<1>17. Roles'
  BY <1>2, <1>3 DEF Roles, Role, Inv
<1> QED
  BY <1>7, <1>8, <1>11, <1>12, <1>13, <1>15, <1>16, <1>17 DEF Inv

LEMMA MakeJournalStep ==
  ASSUME Inv, TypeOK', NEW p \in Procs, MakeJournal(p)
  PROVE  Inv'
<1>0. TypeOK
  BY DEF Inv
<1>1. /\ run[p].pc = "make" /\ run[p].op = "refactor"
      /\ said[p] = "none" /\ said' = said /\ hist' = hist
  BY DEF Inv, Roles, Role, ReportsEnd, MakeJournal, Ready
<1>2. run' = [run EXCEPT ![p] = [run[p] EXCEPT !.pc = "copy"]]
  BY <1>0 DEF MakeJournal, Goto, TypeOK
<1>3. \A q \in Procs \ {p} : run'[q] = run[q]
  BY <1>0, <1>2 DEF TypeOK
<1>4. run'[p].pc = "copy" /\ run'[p].op = "refactor"
  <2>1. run[p] \in Run
    BY <1>0 DEF TypeOK
  <2> QED
    BY <1>0, <1>1, <1>2, <2>1 DEF TypeOK, Run
<1>5. ~Made(p) /\ Made(p)' /\ Role(p)'
  BY <1>1, <1>4 DEF Made, Role
<1>6. \A q \in Procs : Made(q) => Made(q)'
  BY <1>3, <1>5 DEF Made
<1>7. p \notin JournalDirs /\ JournalDirs \subseteq Procs
  BY <1>0, <1>5 DEF Inv, PendingIsMade, JournalDirs, TypeOK
<1>8. pending' = Append(pending, p) /\ pending \in Seq(Procs)
  BY <1>0 DEF MakeJournal, TypeOK
<1>9. JournalDirs' = JournalDirs \cup {p}
  BY <1>8 DEF JournalDirs
<1>10. PendingIsMade'
  BY <1>5, <1>6, <1>7, <1>9 DEF PendingIsMade, Inv
<1>11. EachOnce'
  <2>1. \A i \in DOMAIN pending : pending[i] # p
    BY <1>7 DEF JournalDirs
  <2> QED
    BY <1>8, <2>1 DEF EachOnce, Inv
<1>12. SeenIsMade'
  <2>1. \A q \in Procs : hist.before[q] \subseteq Procs
    BY <1>0 DEF TypeOK
  <2> QED
    BY <1>1, <1>6, <2>1 DEF SeenIsMade, Inv
<1>13. Unblocked'
  <2>1. \A q \in Procs : Working(q)' => Working(q)
    BY <1>1, <1>3 DEF Working
  <2>2. \A q \in Procs : p \notin hist.before[q]
    BY <1>5 DEF SeenIsMade, Inv
  <2> QED
    BY <1>1, <1>9, <2>1, <2>2 DEF Unblocked, Inv
<1>14. Roles'
  BY <1>3, <1>5 DEF Roles, Role, Inv
<1>15. ReportsEnd'
  BY <1>1, <1>3 DEF ReportsEnd, Inv
<1>16. \A q \in Procs : said'[q] \in Verdicts => q # p /\ run[q] = run'[q]
  BY <1>1, <1>3 DEF Verdicts
<1>17. SettledIsGone'
  <2>1. \A q \in Procs : run[q].jdir \in Procs
    BY <1>0 DEF TypeOK, Run
  <2> QED
    BY <1>1, <1>5, <1>6, <1>9, <1>16, <2>1 DEF SettledIsGone, Inv
<1>18. OneVerdict'
  BY <1>1, <1>16 DEF OneVerdict, Settlers, Inv
<1> QED
  BY <1>10, <1>11, <1>12, <1>13, <1>14, <1>15, <1>17, <1>18 DEF Inv

\* The journal goes, and its process has the verdict on it.
LEMMA SettleStep ==
  ASSUME Inv, TypeOK', NEW p \in Procs, RemoveJournal(p),
         Pending(run[p].jdir)
  PROVE  Inv'
<1> DEFINE j == run[p].jdir
<1>0. TypeOK /\ j \in Procs
  BY DEF Inv, TypeOK, Run
<1>1. run[p].pc = "done" /\ said[p] = "none" /\ hist' = hist
  BY DEF Inv, ReportsEnd, RemoveJournal, Ready
<1>2. PICK i \in DOMAIN pending :
        pending[i] = j /\ pending' = RemoveAt(pending, i)
  BY DEF RemoveJournal
<1>3. End(p, run[p].verdict)
  BY DEF RemoveJournal
<1>4. /\ \A q \in Procs \ {p} : run'[q] = run[q] /\ said'[q] = said[q]
      /\ said'[p] = run[p].verdict
  BY <1>0, <1>3 DEF End, TypeOK
<1>5. run'[p].pc = "ended" /\ run'[p].op = run[p].op /\ run'[p].jdir = j
  BY <1>0, <1>3 DEF End, Started, TypeOK
<1>6. /\ pending \in Seq(Procs) /\ Len(pending') = Len(pending) - 1
      /\ pending' \in Seq(Procs)
      /\ \A k \in 1 .. Len(pending) - 1 :
           pending'[k] = IF k < i THEN pending[k] ELSE pending[k + 1]
  BY <1>0, <1>2, RemoveAtProperties DEF TypeOK
<1>7. \A k \in DOMAIN pending' : \E m \in DOMAIN pending :
        m # i /\ pending'[k] = pending[m] /\ m = IF k < i THEN k ELSE k + 1
  BY <1>6
<1>8. JournalDirs' \subseteq JournalDirs /\ JournalDirs \subseteq Procs
  BY <1>0, <1>7 DEF JournalDirs, TypeOK
<1>9. j \in JournalDirs /\ j \notin JournalDirs'
  BY <1>2, <1>7 DEF JournalDirs, EachOnce, Inv
<1>10. \A q \in Procs : Made(q) => Made(q)'
  BY <1>4, <1>5 DEF Made
<1>11. PendingIsMade'
  BY <1>8, <1>10 DEF PendingIsMade, Inv
<1>12. EachOnce'
  BY <1>6, <1>7 DEF EachOnce, Inv
<1>13. SeenIsMade'
  <2>1. \A q \in Procs : hist.before[q] \subseteq Procs
    BY <1>0 DEF TypeOK
  <2> QED
    BY <1>1, <1>10, <2>1 DEF SeenIsMade, Inv
<1>14. Unblocked'
  BY <1>1, <1>4, <1>5, <1>8 DEF Unblocked, Working, Inv
<1>15. Roles'
  BY <1>4, <1>5 DEF Roles, Role, Inv
<1>16. ReportsEnd'
  BY <1>4, <1>5 DEF ReportsEnd, Inv
<1>17. SettledIsGone'
  <2>1. \A q \in Procs : run[q].jdir \in Procs
    BY <1>0 DEF TypeOK, Run
  <2>2. Made(j)'
    BY <1>0, <1>5, <1>9, <1>10 DEF PendingIsMade, Inv
  <2> QED
    BY <1>4, <1>5, <1>8, <1>9, <1>10, <2>1, <2>2 DEF SettledIsGone, Inv
<1>18. OneVerdict'
  <2>1. \A q \in Procs : said[q] \in Verdicts => run[q].jdir # j
    BY <1>9 DEF SettledIsGone, Inv
  <2>2. SUFFICES ASSUME NEW k \in Procs, NEW q \in Settlers(k)',
                        NEW r \in Settlers(k)'
                 PROVE  q = r
    BY DEF OneVerdict
  <2>3. CASE k = j
    BY <1>4, <2>1, <2>3 DEF Settlers
  <2>4. CASE k # j
    BY <1>4, <1>5, <2>4 DEF Settlers, OneVerdict, Inv
  <2> QED
    BY <2>3, <2>4
<1> QED
  BY <1>11, <1>12, <1>13, <1>14, <1>15, <1>16, <1>17, <1>18 DEF Inv

\* The other steps are quiet: those that end ...
LEMMA EndIsQuiet ==
  ASSUME TypeOK, NEW p \in Procs, NEW r \in Reports \ Verdicts, End(p, r),
         run[p].pc # "ended", UNCHANGED pending, hist'.before = hist.before
  PROVE  Quiet(p)
<1>1. \A q \in Procs \ {p} : run'[q] = run[q] /\ said'[q] = said[q]
  BY DEF End, TypeOK
<1>2. said'[p] = r /\ run'[p].pc = "ended" /\ run'[p].op = run[p].op
  BY DEF End, Started, TypeOK
<1> QED
  BY <1>1, <1>2 DEF Quiet, Others, Made, Role, Working

\* ... and those that go on, past where a journal is made.
LEMMA GoingOnIsQuiet ==
  ASSUME TypeOK, NEW p \in Procs, NEW r, run' = [run EXCEPT ![p] = r],
         r.op = run[p].op,
         run[p].pc \notin {"idle", "gate", "ended"},
         run[p].pc # "list" => r.pc \notin {"idle", "gate", "note", "make", "list"},
         run[p].pc = "list" => r.pc \in {"load", "done"},
         r.pc \in {"copy", "read"} \cup Writes => Working(p),
         UNCHANGED <<pending, said>>, hist'.before = hist.before
  PROVE  Quiet(p)
<1>1. /\ run'[p] = r
      /\ \A q \in Procs \ {p} : run'[q] = run[q] /\ said'[q] = said[q]
  BY DEF TypeOK
<1>2. Made(p) => Made(p)'
  BY <1>1 DEF Made
<1>3. Role(p)' /\ (Working(p)' => Working(p))
  BY <1>1 DEF Role, Working
<1> QED
  BY <1>1, <1>2, <1>3 DEF Quiet, Others

LEMMA GotoIsQuiet ==
  ASSUME TypeOK, NEW p \in Procs, NEW pc, Goto(p, pc),
         run[p].pc \notin {"idle", "gate", "list", "ended"},
         pc \notin {"idle", "gate", "note", "make", "list"},
         pc \in {"copy", "read"} \cup Writes => Working(p),
         UNCHANGED <<pending, said>>, hist'.before = hist.before
  PROVE  Quiet(p)
<1> DEFINE r == [run[p] EXCEPT !.pc = pc]
<1>1. run' = [run EXCEPT ![p] = r]
  BY DEF Goto
<1>2. run[p] \in Run
  BY DEF TypeOK
<1>3. r.pc = pc /\ r.op = run[p].op
  BY <1>2 DEF Run
<1> HIDE DEF r
<1> QED
  BY <1>1, <1>3, GoingOnIsQuiet

LEMMA DirtyGateStep ==
  ASSUME Inv, NEW p \in Procs, DirtyGate(p)
  PROVE  Quiet(p)
<1>0. TypeOK /\ run[p].pc = "gate" /\ run[p].op \in Writers
  BY DEF Inv, Roles, Role, DirtyGate, Ready
<1>1. CASE pending # <<>>
  BY <1>0, <1>1, EndIsQuiet DEF DirtyGate, Reports, Verdicts
<1>2. CASE pending = <<>>
  <2> DEFINE r == [run[p] EXCEPT !.pc = Admitted(p)]
  <2>1. run' = [run EXCEPT ![p] = r] /\ said' = said /\ hist' = hist
        /\ pending' = pending
    BY <1>2 DEF DirtyGate, Goto
  <2>2. run[p] \in Run
    BY <1>0 DEF TypeOK
  <2>3. r.pc = Admitted(p) /\ r.op = run[p].op
    BY <2>2 DEF Run
  <2>4. /\ run'[p] = r
        /\ \A q \in Procs \ {p} : run'[q] = run[q] /\ said'[q] = said[q]
    BY <1>0, <2>1 DEF TypeOK
  <2>5. ~Made(p)
    BY <1>0 DEF Made
  <2>6. Role(p)'
    BY <1>0, <2>3, <2>4 DEF Role, Admitted, Writers
  <2> QED
    BY <1>0, <1>2, <2>1, <2>4, <2>5, <2>6 DEF Quiet, Others
<1> QED
  BY <1>1, <1>2

\* One step of process p, other than at its gate, its making of a journal
\* and its removal of one.
LEMMA QuietSteps ==
  ASSUME Inv, NEW p \in Procs,
         \/ CopyBackups(p) \/ ReadNotes(p) \/ Writing(p) \/ Verify(p)
         \/ Raises(p) \/ ListJournals(p) \/ LoadManifest(p)
         \/ EndRollback(p) \/ Kill(p)
         \/ \E n \in Notes : \/ LogIntent(p, n) \/ LogIntentFails(p, n)
                             \/ RecordWritten(p, n)
         \/ \E n \in Notes : Classify(p, n) \/ Restore(p, n)
         \/ RemoveJournal(p) /\ ~Pending(run[p].jdir)
  PROVE  Quiet(p)
<1>0. TypeOK /\ run[p] \in Run
  BY DEF Inv, TypeOK
<1>1. CASE CopyBackups(p)
  <2>1. CASE Pending(p)
    BY <1>0, <1>1, <2>1, GotoIsQuiet DEF CopyBackups, Ready, Working
  <2>2. CASE ~Pending(p)
    BY <1>0, <1>1, <2>2, EndIsQuiet DEF CopyBackups, Ready, Reports, Verdicts
  <2> QED
    BY <2>1, <2>2
<1>2. CASE ReadNotes(p)
  <2> DEFINE r == [run[p] EXCEPT
                     !.text = OfHits(p, [n \in Notes |-> disk[n] \cup {p}]),
                     !.todo = Hits[p], !.pc = "write"]
  <2>1. run' = [run EXCEPT ![p] = r]
    BY <1>2 DEF ReadNotes
  <2>2. r.pc = "write" /\ r.op = run[p].op
    BY <1>0 DEF Run
  <2> HIDE DEF r
  <2> QED
    BY <1>0, <1>2, <2>1, <2>2, GoingOnIsQuiet DEF ReadNotes, Ready, Working, Writes
<1>3. CASE \E n \in Notes : WriteNote(p, n)
  BY <1>0, <1>3, EndIsQuiet DEF WriteNote, Ready, Reports, Verdicts
<1>4. CASE \E n \in Notes : WriteText(p, n)
  <2>1. PICK n \in Notes : WriteText(p, n)
    BY <1>4
  <2> QED
    BY <1>0, <2>1, GotoIsQuiet DEF WriteText, Ready, Working, Writes
<1>4a. CASE \E n \in Notes : LogIntent(p, n) \/ LogIntentFails(p, n)
  <2>1. PICK n \in Notes : LogIntent(p, n) \/ LogIntentFails(p, n)
    BY <1>4a
  <2> DEFINE r == [run[p] EXCEPT !.cur = {n}, !.pc = "replace"]
  <2>2. run' = [run EXCEPT ![p] = r] /\ run[p].pc = "write"
        /\ UNCHANGED <<pending, said>>
    BY <2>1 DEF LogIntent, LogIntentFails, AboutTo, Ready
  <2>3. r.pc = "replace" /\ r.op = run[p].op
    BY <1>0 DEF Run
  <2>4. hist'.before = hist.before
    BY <1>0, <2>1 DEF LogIntent, LogIntentFails, Escapes, TypeOK
  <2> HIDE DEF r
  <2> QED
    BY <1>0, <2>2, <2>3, <2>4, GoingOnIsQuiet DEF Working, Writes
<1>4b. CASE \E n \in Notes : RecordWritten(p, n)
  <2>1. PICK n \in Notes : RecordWritten(p, n)
    BY <1>4b
  <2> DEFINE r == [run[p] EXCEPT !.todo = @ \ {n}, !.written = @ \cup {n},
                     !.cur = {},
                     !.pc = IF run[p].todo = {n} THEN "verify" ELSE "write"]
  <2>2. run' = [run EXCEPT ![p] = r]
    BY <2>1 DEF RecordWritten
  <2>3. r.pc \in {"verify", "write"} /\ r.op = run[p].op
    BY <1>0 DEF Run
  <2> HIDE DEF r
  <2> QED
    BY <1>0, <2>1, <2>2, <2>3, GoingOnIsQuiet
    DEF RecordWritten, Ready, Working, Writes
<1>5. CASE Verify(p)
  <2>1. PICK pc \in {"done", "load"} : Goto(p, pc)
    BY <1>5 DEF Verify
  <2> QED
    BY <1>0, <1>5, <2>1, GotoIsQuiet DEF Verify, Ready
<1>6. CASE Raises(p)
  <2> DEFINE r == [run[p] EXCEPT !.cur = {}, !.pc = "load"]
  <2>1. run' = [run EXCEPT ![p] = r]
    BY <1>6 DEF Raises
  <2>2. r.pc = "load" /\ r.op = run[p].op
    BY <1>0 DEF Run
  <2>3. hist'.before = hist.before
    BY <1>0, <1>6 DEF Raises, TypeOK
  <2> HIDE DEF r
  <2> QED
    BY <1>0, <1>6, <2>1, <2>2, <2>3, GoingOnIsQuiet DEF Raises, Working, Writes
<1>7. CASE ListJournals(p)
  <2>1. CASE pending = <<>>
    BY <1>0, <1>7, <2>1, EndIsQuiet
    DEF ListJournals, Ready, Reports, Verdicts
  <2>2. CASE pending # <<>>
    <3> DEFINE r == [run[p] EXCEPT !.jdir = Head(pending),
                 !.pc = IF run[p].op = "discard" THEN "done" ELSE "load",
                 !.verdict = IF run[p].op = "discard" THEN "discarded" ELSE @]
    <3>1. run' = [run EXCEPT ![p] = r]
      BY <1>7, <2>2 DEF ListJournals
    <3>2. r.pc \in {"done", "load"} /\ r.op = run[p].op
      BY <1>0 DEF Run
    <3>3. /\ UNCHANGED <<pending, said>> /\ hist'.before = hist.before
          /\ run[p].pc = "list"
      BY <1>0, <1>7, <2>2 DEF ListJournals, Ready, TypeOK
    <3> HIDE DEF r
    <3> QED
      BY <1>0, <3>1, <3>2, <3>3, GoingOnIsQuiet
  <2> QED
    BY <2>1, <2>2
<1>8. CASE LoadManifest(p)
  <2> DEFINE j == run[p].jdir
             own == run[p].op = "refactor"
             r == [run[p] EXCEPT !.pc = "classify", !.todo = Hits[j],
                  !.verdict = "rolled-back",
                  !.text = IF own THEN @ ELSE journal[j].log,
                  !.written = IF own THEN @ ELSE journal[j].logged,
                  !.classify = own \/ journal[j].record # "none"]
  <2>1. CASE Pending(j) /\ journal[j].manifest
    <3>1. run' = [run EXCEPT ![p] = r]
      BY <1>8, <2>1 DEF LoadManifest
    <3>2. r.pc = "classify" /\ r.op = run[p].op
      BY <1>0 DEF Run
    <3> HIDE DEF r
    <3> QED
      BY <1>0, <1>8, <2>1, <3>1, <3>2, GoingOnIsQuiet
      DEF LoadManifest, Ready, Working
  <2>2. CASE ~(Pending(j) /\ journal[j].manifest)
    BY <1>0, <1>8, <2>2, EndIsQuiet
    DEF LoadManifest, Ready, Reports, Verdicts
  <2> QED
    BY <2>1, <2>2
<1>9. CASE EndRollback(p)
  <2>1. CASE run[p].left
    BY <1>0, <1>9, <2>1, EndIsQuiet DEF EndRollback, Ready, Reports, Verdicts
  <2>2. CASE ~run[p].left
    BY <1>0, <1>9, <2>2, GotoIsQuiet DEF EndRollback, Ready
  <2> QED
    BY <2>1, <2>2
<1>10. CASE Kill(p)
  BY <1>0, <1>10, EndIsQuiet DEF Kill, Alive, Reports, Verdicts
<1>11. CASE \E n \in Notes : Classify(p, n)
  <2>1. PICK n \in Notes : Classify(p, n)
    BY <1>11
  <2> DEFINE skip == Skipped(p, n) \/ Foreign(p, n)
             r == [run[p] EXCEPT !.todo = @ \ {n},
               !.left = @ \/ Foreign(p, n),
               !.cur = IF skip THEN {} ELSE {n},
               !.pc = IF skip THEN @ ELSE "restore"]
  <2>2. run' = [run EXCEPT ![p] = r] /\ run[p].pc = "classify"
    BY <2>1 DEF Classify, Ready
  <2>3. r.pc \in {"classify", "restore"} /\ r.op = run[p].op
    BY <1>0, <2>2 DEF Run
  <2> HIDE DEF r
  <2> QED
    BY <1>0, <2>1, <2>2, <2>3, GoingOnIsQuiet DEF Classify, Working
<1>12. CASE \E n \in Notes : Restore(p, n)
  <2>1. CASE Pending(run[p].jdir)
    BY <1>0, <1>12, <2>1, GotoIsQuiet DEF Restore, Ready
  <2>2. CASE ~Pending(run[p].jdir)
    BY <1>0, <1>12, <2>2, EndIsQuiet DEF Restore, Ready, Reports, Verdicts
  <2> QED
    BY <2>1, <2>2
<1>13. CASE RemoveJournal(p) /\ ~Pending(run[p].jdir)
  <2>1. CASE run[p].verdict = "applied"
    BY <1>0, <1>13, <2>1, GotoIsQuiet DEF RemoveJournal, Ready
  <2>2. CASE run[p].verdict # "applied"
    BY <1>0, <1>13, <2>2, EndIsQuiet
    DEF RemoveJournal, Ready, Reports, Verdicts
  <2> QED
    BY <2>1, <2>2
<1> QED
  BY <1>1, <1>2, <1>3, <1>4, <1>4a, <1>4b, <1>5, <1>6, <1>7, <1>8, <1>9, <1>10,
     <1>11, <1>12, <1>13 DEF Writing

LEMMA NextInv == Inv /\ [Next]_vars => Inv'
<1> SUFFICES ASSUME Inv, [Next]_vars PROVE Inv'
  OBVIOUS
<1>1. TypeOK'
  BY NextType DEF Inv
<1>2. ASSUME NEW p \in Procs, NEW op \in Commands[p], Invoke(p, op)
      PROVE  Inv'
  BY <1>1, <1>2, InvokeStep
<1>3. ASSUME NEW p \in Procs, MakeJournal(p) PROVE Inv'
  BY <1>1, <1>3, MakeJournalStep
<1>4. ASSUME NEW p \in Procs, RemoveJournal(p), Pending(run[p].jdir)
      PROVE  Inv'
  BY <1>1, <1>4, SettleStep
<1>5. ASSUME NEW p \in Procs, Quiet(p) PROVE Inv'
  BY <1>1, <1>5, QuietStep
<1>6. CASE UNCHANGED vars
  BY <1>1, <1>6
  DEF vars, Inv, PendingIsMade, JournalDirs, Made, EachOnce, SeenIsMade,
      Unblocked, Working, Roles, Role, ReportsEnd, SettledIsGone, OneVerdict,
      Settlers
<1> QED
  BY <1>2, <1>3, <1>4, <1>5, <1>6, DirtyGateStep, QuietSteps DEF Next

LEMMA Invariant == Spec => []Inv
<1> QED
  BY InitInv, NextInv, PTL DEF Spec

\* Of a refactoring and of the doctors that take its journal, also while it
\* runs, at most one reports success (RemoveJournal).
THEOREM SettledOnce == Spec => []OneVerdict
<1>1. Inv => OneVerdict
  BY DEF Inv
<1> QED
  BY <1>1, Invariant, PTL

\* A command that was invoked beside a pending journal writes nothing before
\* the journal has gone, whatever other refactorings do meanwhile (DirtyGate).
THEOREM PendingJournalBlocks == Spec => JournalBlocksWrites
<1>1. ASSUME Inv, NEW p \in Procs, Writing(p)
      PROVE  hist.before[p] \cap JournalDirs = {}
  BY <1>1 DEF Inv, Unblocked, Working, Writes, Writing, WriteNote, WriteText, Ready
<1>2. Inv => [\A p \in Procs :
                Writing(p) => hist.before[p] \cap JournalDirs = {}]_vars
  BY <1>1
<1> QED
  BY <1>2, Invariant, PTL DEF JournalBlocksWrites

----------------------------------------------------------------------------
(* The inductive invariant.                                                *)

Refactoring(p) == run[p].op = "refactor" /\ run[p].pc # "idle"
Recovering(p) == run[p].pc \in {"load", "classify", "restore", "done"}

\* Statements of the refactoring between its gate and the last of its reads,
\* and those while its journal should stand.
BeforeWrites == {"idle", "gate", "note", "make", "copy", "read"}
WithJournal ==
  {"copy", "read", "verify", "load", "classify", "restore", "done"} \cup Writes

\* Who runs what: only a refactoring keeps a journal, its own, and only a
\* doctor takes another's.
Part(p) ==
  /\ run[p].pc = "note" => run[p].op = "write"
  /\ run[p].pc \in {"copy", "read", "verify"} \cup Writes => run[p].op = "refactor"
  /\ run[p].pc = "list" => run[p].op \in Doctors
  /\ Refactoring(p) => run[p].jdir = p
  /\ run[p].pc \in Writes => run[p].todo \subseteq Hits[p]
  /\ run[p].pc \in {"replace", "record"} => run[p].cur \subseteq run[p].todo
  /\ run[p].pc \in {"replace", "record", "restore"} =>
       \A m, n \in run[p].cur : m = n
  /\ run[p].pc \in {"gate", "make", "copy", "read", "verify"} \cup Writes =>
       run[p].verdict = "applied"
  /\ run[p].pc \in {"classify", "restore"} => run[p].verdict = "rolled-back"
  /\ run[p].pc = "done" =>
       /\ run[p].op = "refactor" => run[p].verdict # "discarded"
       /\ run[p].op = "rollback" => run[p].verdict = "rolled-back"
       /\ run[p].op = "discard" => run[p].verdict = "discarded"
  /\ run[p].op = "discard" => run[p].pc \notin {"load", "classify", "restore"}
  /\ Recovering(p) => run[p].op # "write" /\ Made(run[p].jdir)

\* A refactoring between its gate and the last of its writes.
Began == {"make", "copy", "read"} \cup Writes
USE DEF Began

\* The notes whose changes a rollback of j's journal finds.
Sure(j) == Notes \ hist.escaped[j]

\* Two refactorings that run at once are noted, and so is one whose journal
\* another has not seen at its gate.
Overlaps ==
  \A p, q \in Procs :
    (p # q /\ Refactoring(p) /\ Refactoring(q) /\ Alive(p) /\ Alive(q))
      => p \in hist.beset
Unseen ==
  \A p, q \in Procs :
    (p # q /\ run[p].pc \in Began /\ Pending(q)
       /\ run[p].op = "refactor")
      => q \in hist.beset

\* Process j will have written nothing, or is a refactoring that nobody has
\* disturbed and that has not reported success.
Answerable(j) ==
  run[j].pc = "idle" \/
  (run[j].op = "refactor" /\ j \notin hist.beset /\ said[j] # "applied")

\* Its changes are in no backup and in no other's text.
Uncopied(j) ==
  /\ \A q \in Procs : \A n \in Sure(j) : j \notin journal[q].bak[n]
  /\ \A q \in Procs \ {j} :
       run[q].pc \in Writes => \A n \in Sure(j) : j \notin run[q].text[n]

\* Its changes are in the notes it recorded.
Recorded(j) ==
  /\ run[j].pc \in {"replace", "record"} =>
       run[j].cur \cap Sure(j) \subseteq journal[j].logged
  /\ \A n \in Sure(j) : j \in disk[n] =>
       /\ run[j].pc \notin BeforeWrites
       /\ n \in Hits[j] /\ n \in journal[j].logged
       /\ Alive(j) => \/ n \in run[j].written
                      \/ run[j].pc = "record" /\ n \in run[j].cur

\* Its journal stands as long as it runs, and a doctor comes after it.
Standing(j) ==
  /\ Refactoring(j) /\ run[j].pc \in WithJournal => Pending(j)
  /\ \A p \in Procs \ {j} : Recovering(p) /\ run[p].jdir = j =>
       ~Alive(j) /\ run[p].op = "rollback"

\* A rollback of its journal, its own or a doctor's, has undone what it no
\* longer has to do, or has left a note alone.
Undone(j) ==
  \A p \in Procs : run[p].jdir = j =>
    /\ run[p].pc \in {"classify", "restore"} =>
         \A n \in Sure(j) : j \in disk[n] =>
           /\ n \in run[p].written
           /\ \/ run[p].left \/ n \in run[p].todo
              \/ run[p].pc = "restore" /\ n \in run[p].cur
    /\ run[p].pc = "done" /\ run[p].verdict = "rolled-back" =>
         \A n \in Sure(j) : j \notin disk[n]

\* Once it has ended without its journal, nothing of it is left.
Gone(j) ==
  run[j].pc = "ended" /\ ~Pending(j) => \A n \in Sure(j) : j \notin disk[n]

Kept(j) == Uncopied(j) /\ Recorded(j) /\ Standing(j) /\ Undone(j) /\ Gone(j)

RInv ==
  /\ Inv
  /\ \A p \in Procs : Part(p)
  /\ Overlaps /\ Unseen
  /\ \A j \in Procs : Answerable(j) => Kept(j)

LEMMA InitRInv == Init => RInv
<1> SUFFICES ASSUME Init PROVE RInv
  OBVIOUS
<1>1. Inv
  BY InitInv
<1>2. \A p \in Procs : said[p] = "none"
  BY DEF Init
<1>3. \A p \in Procs : run[p].pc = "idle" /\ run[p].jdir = p
  BY DEF Init, Started
<1>4. ASSUME NEW p \in Procs PROVE Part(p)
  BY <1>3 DEF Part, Refactoring, Recovering
<1>5. Overlaps /\ Unseen
  BY <1>3 DEF Overlaps, Unseen, Refactoring
<1>6. ASSUME NEW j \in Procs PROVE Kept(j)
  <2>1. Uncopied(j)
    BY <1>3 DEF Uncopied, Init, NoJournal, Untouched, Sure
  <2>2. Recorded(j) /\ Gone(j)
    BY <1>3 DEF Recorded, Gone, Init, Untouched, Sure
  <2>3. Standing(j) /\ Undone(j)
    BY <1>3 DEF Standing, Undone, Refactoring, Recovering
  <2> QED
    BY <2>1, <2>2, <2>3 DEF Kept
<1> QED
  BY <1>1, <1>4, <1>5, <1>6 DEF RInv

----------------------------------------------------------------------------
(* Steps that do not end a process.                                        *)

\* What p has on hand fits the journal it works on.
OnHand(p) ==
  LET j == run[p].jdir IN
  /\ Answerable(j) =>
       /\ run[p].pc \in {"classify", "restore"} =>
            \A n \in Sure(j) : j \in disk[n] =>
              /\ n \in run[p].written
              /\ \/ run[p].left \/ n \in run[p].todo
                 \/ run[p].pc = "restore" /\ n \in run[p].cur
       /\ run[p].pc = "done" /\ run[p].verdict = "rolled-back" =>
            \A n \in Sure(j) : j \notin disk[n]
       /\ j # p /\ Recovering(p) => ~Alive(j) /\ run[p].op = "rollback"
  /\ run[p].pc \in Writes =>
       \A q \in Procs \ {p} :
         Answerable(q) => \A n \in Sure(q) : q \notin run[p].text[n]
  /\ Answerable(p) => Recorded(p)
  /\ Answerable(p) /\ Refactoring(p) /\ run[p].pc \in WithJournal => Pending(p)

\* What is observed is not forgotten.
HistGrows ==
  /\ hist.beset \subseteq hist'.beset
  /\ \A j \in Procs : Sure(j)' \subseteq Sure(j)

LEMMA Unchanged ==
  ASSUME hist' = hist
  PROVE  HistGrows /\ \A j \in Procs : Sure(j)' = Sure(j)
BY DEF HistGrows, Sure

\* A step of p that goes on, removes no journal and brings no change of
\* another into a note or a backup.
Proceeds(p) ==
  /\ Others(p) /\ said'[p] = said[p] /\ HistGrows
  /\ JournalDirs \subseteq JournalDirs'
  /\ run'[p].op = run[p].op
  /\ Alive(p) /\ Alive(p)'
  /\ Made(p) => Made(p)'
  /\ Part(p)' /\ Unseen' /\ OnHand(p)'
  /\ \A j \in Procs : Answerable(j)' =>
       /\ \A q \in Procs : \A n \in Sure(j)' : j \notin journal'[q].bak[n]
       /\ j # p => \A n \in Sure(j)' : j \in disk'[n] => j \in disk[n]
  /\ \A q \in Procs : journal[q].logged \subseteq journal'[q].logged

LEMMA ProceedsStep ==
  ASSUME RInv, Inv', NEW p \in Procs, Proceeds(p)
  PROVE  RInv'
<1>0. \A q \in Procs : run[q].jdir \in Procs /\ run'[q].jdir \in Procs
  BY DEF RInv, Inv, TypeOK, Run
<1>a. /\ hist.beset \subseteq hist'.beset
      /\ \A j \in Procs : Sure(j)' \subseteq Sure(j)
  BY DEF Proceeds, HistGrows
<1>1. \A j \in Procs : Answerable(j)' => Answerable(j)
  BY <1>a DEF Proceeds, Others, Answerable, Alive
<1>2. \A j \in Procs : Made(j) => Made(j)'
  BY DEF Proceeds, Others, Made
<1>3. ASSUME NEW q \in Procs PROVE Part(q)'
  <2>1. CASE q = p
    BY <2>1 DEF Proceeds
  <2>2. CASE q # p
    <3>1. run'[q] = run[q] /\ Part(q)
      BY <2>2 DEF Proceeds, Others, RInv
    <3> QED
      BY <1>0, <1>2, <3>1 DEF Part, Refactoring, Recovering
  <2> QED
    BY <2>1, <2>2
<1>4. Overlaps'
  <2>1. \A q \in Procs : Refactoring(q)' /\ Alive(q)' => Refactoring(q) /\ Alive(q)
    BY DEF Proceeds, Others, Refactoring, Alive
  <2> QED
    BY <1>a, <2>1 DEF Proceeds, Overlaps, RInv
<1>5. ASSUME NEW j \in Procs, Answerable(j)' PROVE Kept(j)'
  <2>0. Kept(j) /\ Answerable(j)
    BY <1>1, <1>5 DEF RInv
  <2>1. Uncopied(j)'
    <3>1. ASSUME NEW q \in Procs \ {j}, run'[q].pc \in Writes, NEW n \in Sure(j)'
          PROVE  j \notin run'[q].text[n]
      <4>1. CASE q = p
        BY <1>5, <3>1, <4>1 DEF Proceeds, OnHand
      <4>2. CASE q # p
        BY <1>a, <2>0, <3>1, <4>2 DEF Proceeds, Others, Kept, Uncopied
      <4> QED
        BY <4>1, <4>2
    <3> QED
      BY <1>5, <3>1 DEF Uncopied, Proceeds
  <2>2. Recorded(j)'
    <3>1. CASE j = p
      BY <1>5, <3>1 DEF Proceeds, OnHand
    <3>2. CASE j # p
      BY <1>a, <1>5, <2>0, <3>2 DEF Proceeds, Others, Kept, Recorded, Alive
    <3> QED
      BY <3>1, <3>2
  <2>3. Standing(j)'
    <3>1. ASSUME Refactoring(j)', run'[j].pc \in WithJournal PROVE Pending(j)'
      <4>1. CASE j = p
        BY <1>5, <3>1, <4>1 DEF Proceeds, OnHand
      <4>2. CASE j # p
        BY <2>0, <3>1, <4>2
        DEF Proceeds, Others, Kept, Standing, Refactoring, Pending
      <4> QED
        BY <4>1, <4>2
    <3>2. ASSUME NEW q \in Procs \ {j}, Recovering(q)', run'[q].jdir = j
          PROVE  ~Alive(j)' /\ run'[q].op = "rollback"
      <4>1. CASE q = p
        BY <1>5, <3>2, <4>1 DEF Proceeds, OnHand
      <4>2. CASE q # p
        <5>1. ~Alive(j) /\ run'[q].op = "rollback"
          BY <2>0, <3>2, <4>2 DEF Proceeds, Others, Kept, Standing, Recovering
        <5> QED
          BY <5>1 DEF Proceeds, Others, Alive
      <4> QED
        BY <4>1, <4>2
    <3> QED
      BY <3>1, <3>2 DEF Standing
  <2>4. Undone(j)'
    <3>1. ASSUME NEW q \in Procs, run'[q].jdir = j, q # p
          PROVE  /\ run'[q].pc \in {"classify", "restore"} =>
                      \A n \in Sure(j)' : j \in disk'[n] =>
                        /\ n \in run'[q].written
                        /\ \/ run'[q].left \/ n \in run'[q].todo
                           \/ run'[q].pc = "restore" /\ n \in run'[q].cur
                 /\ run'[q].pc = "done" /\ run'[q].verdict = "rolled-back" =>
                      \A n \in Sure(j)' : j \notin disk'[n]
      <4>1. run'[q] = run[q]
        BY <3>1 DEF Proceeds, Others
      <4>2. CASE j = p
        <5>1. ~Recovering(q)
          BY <2>0, <3>1, <4>1, <4>2 DEF Proceeds, Kept, Standing
        <5> QED
          BY <4>1, <5>1 DEF Recovering
      <4>3. CASE j # p
        BY <1>a, <1>5, <2>0, <3>1, <4>1, <4>3 DEF Proceeds, Kept, Undone
      <4> QED
        BY <4>2, <4>3
    <3>2. ASSUME run'[p].jdir = j
          PROVE  /\ run'[p].pc \in {"classify", "restore"} =>
                      \A n \in Sure(j)' : j \in disk'[n] =>
                        /\ n \in run'[p].written
                        /\ \/ run'[p].left \/ n \in run'[p].todo
                           \/ run'[p].pc = "restore" /\ n \in run'[p].cur
                 /\ run'[p].pc = "done" /\ run'[p].verdict = "rolled-back" =>
                      \A n \in Sure(j)' : j \notin disk'[n]
      BY <1>5, <3>2 DEF Proceeds, OnHand
    <3> QED
      BY <3>1, <3>2 DEF Undone
  <2>5. Gone(j)'
    <3>1. CASE j = p
      BY <3>1 DEF Gone, Proceeds, Alive
    <3>2. CASE j # p
      BY <1>a, <1>5, <2>0, <3>2 DEF Proceeds, Others, Kept, Gone, Pending
    <3> QED
      BY <3>1, <3>2
  <2> QED
    BY <2>1, <2>2, <2>3, <2>4, <2>5 DEF Kept
<1> QED
  BY <1>3, <1>4, <1>5 DEF RInv, Proceeds

----------------------------------------------------------------------------
(* Steps that end a process.                                               *)

\* p ends; a journal that goes is of a refactoring that has ended and left
\* nothing.
Ends(p) ==
  /\ \E r \in Reports : End(p, r)
  /\ Alive(p)
  /\ hist' = hist /\ journal' = journal
  /\ JournalDirs' \subseteq JournalDirs
  /\ \A j \in Procs : Answerable(j)' =>
       /\ \A n \in Sure(j)' : j \in disk'[n] => j \in disk[n]
       /\ j \in JournalDirs \ JournalDirs' =>
            ~Alive(j)' /\ \A n \in Sure(j)' : j \notin disk'[n]

LEMMA EndsStep ==
  ASSUME RInv, Inv', NEW p \in Procs, Ends(p)
  PROVE  RInv'
<1>0. \A q \in Procs : run[q].jdir \in Procs /\ run[q].pc \in PCs
  BY DEF RInv, Inv, TypeOK, Run
<1>1. /\ run'[p].pc = "ended" /\ run'[p].op = run[p].op
      /\ run'[p].jdir = run[p].jdir
      /\ \A q \in Procs \ {p} : run'[q] = run[q] /\ said'[q] = said[q]
  BY DEF Ends, End, Started, RInv, Inv, TypeOK
<1>a. \A j \in Procs : Sure(j)' = Sure(j)
  BY DEF Ends, Sure
<1>2. \A j \in Procs : Answerable(j)' => Answerable(j)
  BY <1>1 DEF Ends, Answerable, RInv, Inv, ReportsEnd, Alive
<1>3. \A j \in Procs : Made(j) => Made(j)'
  BY <1>1 DEF Made
<1>4. ASSUME NEW q \in Procs PROVE Part(q)'
  <2>1. Part(q)
    BY DEF RInv
  <2>2. CASE q = p
    BY <1>1, <2>1, <2>2 DEF Part, Writes, Ends, Alive, Refactoring, Recovering
  <2>3. CASE q # p
    BY <1>0, <1>1, <1>3, <2>1, <2>3 DEF Part, Refactoring, Recovering
  <2> QED
    BY <2>2, <2>3
<1>5. Overlaps' /\ Unseen'
  BY <1>1 DEF Ends, Overlaps, Unseen, Began, Writes, Refactoring, Alive, Pending, RInv
<1>6. ASSUME NEW j \in Procs, Answerable(j)' PROVE Kept(j)'
  <2>0. Kept(j) /\ Answerable(j)
    BY <1>2, <1>6 DEF RInv
  <2>1. Uncopied(j)'
    BY <1>a, <1>1, <2>0 DEF Uncopied, Kept, Ends
  <2>2. Recorded(j)'
    BY <1>a, <1>1, <1>6, <2>0 DEF Recorded, Kept, Ends, BeforeWrites, Alive
  <2>3. Standing(j)'
    <3>1. ASSUME Refactoring(j)', run'[j].pc \in WithJournal PROVE Pending(j)'
      <4>1. j # p /\ Alive(j)'
        BY <1>1, <3>1 DEF WithJournal, Writes, Alive
      <4>2. Pending(j)
        BY <1>1, <2>0, <3>1, <4>1 DEF Kept, Standing, Refactoring
      <4> QED
        BY <1>6, <4>1, <4>2 DEF Ends, Pending
    <3>2. ASSUME NEW q \in Procs \ {j}, Recovering(q)', run'[q].jdir = j
          PROVE  ~Alive(j)' /\ run'[q].op = "rollback"
      <4>1. q # p
        BY <1>1, <3>2 DEF Recovering
      <4>2. ~Alive(j) /\ run'[q].op = "rollback"
        BY <1>1, <2>0, <3>2, <4>1 DEF Kept, Standing, Recovering
      <4> QED
        BY <1>1, <4>2 DEF Alive
    <3> QED
      BY <3>1, <3>2 DEF Standing
  <2>4. Undone(j)'
    <3>1. ASSUME NEW q \in Procs, run'[q].jdir = j, Recovering(q)'
          PROVE  run'[q] = run[q]
      BY <1>1, <3>1 DEF Recovering
    <3> QED
      BY <1>a, <1>6, <2>0, <3>1 DEF Undone, Kept, Ends, Recovering
  <2>5. Gone(j)'
    <3>1. SUFFICES ASSUME run'[j].pc = "ended", ~Pending(j)', NEW n \in Sure(j)'
                   PROVE  j \notin disk'[n]
      BY DEF Gone
    <3>2. CASE Pending(j)
      BY <1>6, <3>1, <3>2 DEF Ends, Pending
    <3>3. CASE ~Pending(j) /\ j # p
      BY <1>a, <1>1, <1>6, <2>0, <3>1, <3>3 DEF Ends, Kept, Gone
    <3>4. CASE ~Pending(j) /\ j = p
      <4>1. run[j].op = "refactor" /\ run[j].pc # "idle" /\ run[j].pc # "ended"
        BY <1>1, <1>6, <3>4 DEF Answerable, Ends, Alive
      <4>2. run[j].pc \notin WithJournal
        BY <2>0, <3>4, <4>1 DEF Kept, Standing, Refactoring
      <4>3. run[j].pc # "list"
        BY <4>1 DEF RInv, Part, Doctors
      <4>4. run[j].pc \in BeforeWrites
        BY <1>0, <4>1, <4>2, <4>3 DEF PCs, WithJournal, Writes, BeforeWrites
      <4> QED
        BY <1>a, <1>6, <2>0, <4>4 DEF Ends, Kept, Recorded
    <3> QED
      BY <3>2, <3>3, <3>4
  <2> QED
    BY <2>1, <2>2, <2>3, <2>4, <2>5 DEF Kept
<1> QED
  BY <1>4, <1>5, <1>6 DEF RInv

----------------------------------------------------------------------------
(* The refactoring's own statements.                                       *)

LEMMA InvokeRecovery ==
  ASSUME RInv, Inv', NEW p \in Procs, NEW op \in Commands[p], Invoke(p, op)
  PROVE  RInv'
<1> DEFINE beside == {q \in Procs : Alive(q) /\ run[q].op = "refactor"}
<1>0. /\ TypeOK /\ run[p].pc = "idle" /\ op \in Writers \cup Doctors
      /\ UNCHANGED <<disk, pending, journal, said>>
  BY CommandsAssumption DEF RInv, Inv, Invoke, Ready
<1>1. run'[p] = Started(p, op, IF op \in Writers THEN "gate" ELSE "list")
      /\ \A q \in Procs \ {p} : run'[q] = run[q]
  BY <1>0 DEF Invoke, TypeOK
<1>2. /\ run'[p].op = op /\ run'[p].jdir = p /\ run'[p].verdict = "applied"
      /\ run'[p].pc = IF op \in Writers THEN "gate" ELSE "list"
  BY <1>1 DEF Started
<1>3. hist'.beset = IF op = "refactor" /\ beside # {}
                    THEN hist.beset \cup beside \cup {p} ELSE hist.beset
  BY DEF Invoke
<1>a. \A j \in Procs : Sure(j)' = Sure(j)
  BY <1>0 DEF Sure, Invoke, TypeOK
<1>4. \A j \in Procs : Answerable(j)' => Answerable(j)
  BY <1>0, <1>1, <1>3 DEF Answerable
<1>5. \A j \in Procs : Made(j) => Made(j)'
  BY <1>0, <1>1 DEF Made
<1>6. JournalDirs' = JournalDirs
  BY <1>0 DEF JournalDirs
<1>7. ASSUME NEW q \in Procs PROVE Part(q)'
  <2>1. Part(q) /\ run[q].jdir \in Procs
    BY <1>0 DEF RInv, TypeOK, Run
  <2>2. CASE q = p
    BY <1>0, <1>2, <2>2 DEF Part, Writes, Refactoring, Recovering, Writers, Doctors
  <2>3. CASE q # p
    BY <1>1, <1>5, <2>1, <2>3 DEF Part, Refactoring, Recovering
  <2> QED
    BY <2>2, <2>3
<1>8. Overlaps'
  <2>1. SUFFICES ASSUME NEW q \in Procs, NEW r \in Procs, q # r,
                        Refactoring(q)', Refactoring(r)', Alive(q)', Alive(r)'
                 PROVE  q \in hist'.beset
    BY DEF Overlaps
  <2>2. CASE q # p /\ r # p
    BY <1>1, <1>3, <2>1, <2>2 DEF RInv, Overlaps, Refactoring, Alive
  <2>3. CASE q = p
    <3>1. op = "refactor" /\ r \in beside
      BY <1>1, <1>2, <2>1, <2>3 DEF Refactoring, Alive
    <3> QED
      BY <1>3, <2>3, <3>1
  <2>4. CASE r = p /\ q # p
    <3>1. op = "refactor" /\ q \in beside
      BY <1>1, <1>2, <2>1, <2>4 DEF Refactoring, Alive
    <3> QED
      BY <1>3, <3>1
  <2> QED
    BY <2>2, <2>3, <2>4
<1>9. Unseen'
  BY <1>1, <1>2, <1>3, <1>6 DEF Unseen, Began, Writes, Pending, RInv
<1>10. ASSUME NEW j \in Procs, Answerable(j)' PROVE Kept(j)'
  <2>0. Kept(j) /\ Answerable(j)
    BY <1>4, <1>10 DEF RInv
  <2>1. Uncopied(j)'
    BY <1>a, <1>0, <1>1, <1>2, <2>0 DEF Uncopied, Kept, Writes
  <2>2. Recorded(j)'
    <3>1. CASE j = p
      BY <1>a, <1>0, <1>2, <2>0, <3>1 DEF Recorded, Kept, BeforeWrites
    <3>2. CASE j # p
      BY <1>a, <1>0, <1>1, <2>0, <3>2 DEF Recorded, Kept, Alive
    <3> QED
      BY <3>1, <3>2
  <2>3. Standing(j)'
    <3>1. \A q \in Procs : Recovering(q)' => q # p /\ Recovering(q)
      BY <1>1, <1>2 DEF Recovering
    <3>2. \A q \in Procs : Recovering(q) => run[q].jdir # p
      BY <1>0 DEF RInv, Part, Made
    <3>3. \A q \in Procs \ {j} :
            Recovering(q)' /\ run'[q].jdir = j => ~Alive(j)' /\ run'[q].op = "rollback"
      BY <1>1, <2>0, <3>1, <3>2 DEF Standing, Kept, Recovering, Alive
    <3>4. Refactoring(j)' /\ run'[j].pc \in WithJournal => Pending(j)'
      BY <1>1, <1>2, <1>6, <2>0
      DEF Standing, Kept, Refactoring, Pending, WithJournal, Writes
    <3> QED
      BY <3>3, <3>4 DEF Standing
  <2>4. Undone(j)'
    BY <1>a, <1>0, <1>1, <1>2, <2>0 DEF Undone, Kept
  <2>5. Gone(j)'
    BY <1>a, <1>0, <1>1, <1>2, <1>6, <2>0 DEF Gone, Kept, Pending
  <2> QED
    BY <2>1, <2>2, <2>3, <2>4, <2>5 DEF Kept
<1> QED
  BY <1>7, <1>8, <1>9, <1>10 DEF RInv

\* Who is past the gate has not passed it over a journal, except one that
\* was made beside it.
LEMMA NoneSeen ==
  ASSUME RInv, NEW p \in Procs, Others(p),
         pending' = pending, HistGrows,
         run'[p].op = run[p].op,
         run'[p].pc \in Began =>
           run[p].pc \in Began \/ pending = <<>>
  PROVE  Unseen'
<1>1. JournalDirs' = JournalDirs
  BY DEF JournalDirs
<1>2. pending = <<>> => JournalDirs = {}
  BY DEF JournalDirs
<1> QED
  BY <1>1, <1>2 DEF Unseen, RInv, Others, Pending, HistGrows

LEMMA Held ==
  ASSUME RInv, NEW p \in Procs
  PROVE  OnHand(p)
<1> DEFINE j == run[p].jdir
<1>1. j \in Procs
  BY DEF RInv, Inv, TypeOK, Run
<1>2. \A q \in Procs : Answerable(q) => Kept(q)
  BY DEF RInv
<1>3. Answerable(j) =>
        /\ run[p].pc \in {"classify", "restore"} =>
             \A n \in Sure(j) : j \in disk[n] =>
               /\ n \in run[p].written
               /\ \/ run[p].left \/ n \in run[p].todo
                  \/ run[p].pc = "restore" /\ n \in run[p].cur
        /\ run[p].pc = "done" /\ run[p].verdict = "rolled-back" =>
             \A n \in Sure(j) : j \notin disk[n]
  BY <1>1, <1>2 DEF Kept, Undone
<1>4. Answerable(j) /\ j # p /\ Recovering(p) =>
        ~Alive(j) /\ run[p].op = "rollback"
  BY <1>1, <1>2 DEF Kept, Standing
<1> QED
  BY <1>2, <1>3, <1>4 DEF OnHand, Kept, Uncopied, Recorded, Standing

\* A step in the memory of one process.
LEMMA MemoryStep ==
  ASSUME RInv, Inv', NEW p \in Procs, NEW r, run' = [run EXCEPT ![p] = r],
         UNCHANGED <<disk, pending, journal, said>>,
         HistGrows,
         r.op = run[p].op, Alive(p), r.pc \notin {"idle", "ended"},
         Made(p) => r.pc \notin {"gate", "note", "make", "list"},
         r.pc \in Began =>
           run[p].pc \in Began,
         Part(p)', OnHand(p)'
  PROVE  RInv'
<1>1. run'[p] = r /\ Others(p)
  BY DEF RInv, Inv, TypeOK, Others
<1>2. Unseen'
  BY <1>1, NoneSeen
<1>3. \A j \in Procs : Answerable(j)' => Answerable(j)
  BY <1>1 DEF Answerable, Others, HistGrows
<1>4. \A j \in Procs : Answerable(j)' =>
        \A q \in Procs : \A n \in Sure(j)' : j \notin journal'[q].bak[n]
  BY <1>3 DEF RInv, Kept, Uncopied, HistGrows
<1>5. Alive(p)' /\ (Made(p) => Made(p)') /\ JournalDirs' = JournalDirs
  BY <1>1 DEF Alive, Made, JournalDirs
<1>6. Proceeds(p)
  BY <1>1, <1>2, <1>4, <1>5 DEF Proceeds
<1> QED
  BY <1>6, ProceedsStep

LEMMA DirtyGateRecovery ==
  ASSUME RInv, Inv', NEW p \in Procs, DirtyGate(p)
  PROVE  RInv'
<1>0. /\ TypeOK /\ run[p].pc = "gate" /\ run[p] \in Run
      /\ run[p].op \in Writers
      /\ UNCHANGED <<disk, pending, journal, hist>>
  BY DEF RInv, Inv, TypeOK, DirtyGate, Ready, Roles, Role
<1>h. HistGrows /\ \A k \in Procs : Sure(k)' = Sure(k)
  BY <1>0, Unchanged
<1>1. CASE pending # <<>>
  <2>1. Ends(p)
    BY <1>0, <1>1 DEF Ends, DirtyGate, Alive, JournalDirs, Reports
  <2> QED
    BY <2>1, EndsStep
<1>2. CASE pending = <<>>
  <2>1. run' = [run EXCEPT ![p] = [run[p] EXCEPT !.pc = Admitted(p)]]
        /\ said' = said
    BY <1>0, <1>2 DEF DirtyGate, Goto, TypeOK
  <2>2. run'[p] = [run[p] EXCEPT !.pc = Admitted(p)] /\ Others(p)
    BY <1>0, <2>1 DEF TypeOK, Others
  <2>3. /\ run'[p].pc = Admitted(p) /\ run'[p].op = run[p].op
        /\ run'[p].jdir = run[p].jdir /\ run'[p].verdict = run[p].verdict
    BY <1>0, <2>2 DEF Run
  <2>4. Admitted(p) \in {"note", "make"}
        /\ (Admitted(p) = "note" <=> run[p].op = "write")
    BY DEF Admitted
  <2>5. Part(p)'
    BY <1>0, <2>3, <2>4 DEF RInv, Part, Refactoring, Recovering
  <2>6. Unseen'
    BY <1>h, <1>0, <1>2, <2>2, <2>3, NoneSeen
  <2>7. OnHand(p)'
    <3>1. Answerable(p)' => Answerable(p)
      BY <1>0, <2>1, <2>3, <2>4 DEF Answerable
    <3>2. Answerable(p)' => Recorded(p)'
      BY <1>h, <1>0, <2>3, <2>4, <3>1 DEF RInv, Kept, Recorded, BeforeWrites
    <3> QED
      BY <2>3, <2>4, <3>2 DEF OnHand, Recovering, WithJournal
  <2>8. \A j \in Procs : Answerable(j)' => Answerable(j)
    BY <1>0, <2>1, <2>2, <2>3, <2>4 DEF Answerable, Others
  <2>9. Proceeds(p)
    <3>1. \A j \in Procs : Answerable(j)' =>
            \A q \in Procs : \A n \in Sure(j)' : j \notin journal'[q].bak[n]
      BY <1>h, <1>0, <2>8 DEF RInv, Kept, Uncopied
    <3> QED
      BY <1>h, <1>0, <2>1, <2>2, <2>3, <2>4, <2>5, <2>6, <2>7, <3>1
      DEF Proceeds, Alive, Made, JournalDirs
  <2> QED
    BY <2>9, ProceedsStep
<1> QED
  BY <1>1, <1>2

LEMMA WriteNoteRecovery ==
  ASSUME RInv, Inv', NEW p \in Procs, NEW n \in Notes, WriteNote(p, n)
  PROVE  RInv'
<1>0. /\ TypeOK /\ run[p].pc = "note" /\ run[p].op = "write"
      /\ UNCHANGED <<pending, journal, hist>>
      /\ disk' = [disk EXCEPT ![n] = disk[n] \cup {p}]
      /\ End(p, "ok")
  BY DEF RInv, Inv, WriteNote, Ready, Part
<1>1. ~Answerable(p)'
  BY <1>0 DEF Answerable, End, Started, TypeOK
<1>2. \A j \in Procs : Answerable(j)' => \A m \in Sure(j)' : j \in disk'[m] => j \in disk[m]
  BY <1>0, <1>1 DEF TypeOK, Entries
<1>3. Ends(p)
  BY <1>0, <1>2 DEF Ends, Alive, JournalDirs, Reports
<1> QED
  BY <1>3, EndsStep

LEMMA MakeJournalRecovery ==
  ASSUME RInv, Inv', NEW p \in Procs, MakeJournal(p)
  PROVE  RInv'
<1>0. /\ TypeOK /\ run[p].pc = "make" /\ run[p] \in Run
      /\ run[p].op = "refactor"
      /\ UNCHANGED <<disk, journal, said, hist>>
  BY DEF RInv, Inv, TypeOK, MakeJournal, Ready, Roles, Role
<1>h. HistGrows /\ \A k \in Procs : Sure(k)' = Sure(k)
  BY <1>0, Unchanged
<1>1. run'[p] = [run[p] EXCEPT !.pc = "copy"] /\ Others(p)
  BY <1>0 DEF MakeJournal, Goto, TypeOK, Others
<1>2. /\ run'[p].pc = "copy" /\ run'[p].op = run[p].op
      /\ run'[p].jdir = run[p].jdir /\ run'[p].verdict = run[p].verdict
  BY <1>0, <1>1 DEF Run
<1>3. JournalDirs' = JournalDirs \cup {p}
  <2>1. pending' = Append(pending, p) /\ pending \in Seq(Procs)
    BY <1>0 DEF MakeJournal, TypeOK
  <2> QED
    BY <2>1 DEF JournalDirs
<1>4. Part(p)'
  BY <1>0, <1>2 DEF RInv, Part, Refactoring, Recovering
<1>5. Unseen'
  <2>1. SUFFICES ASSUME NEW q \in Procs, NEW r \in Procs, q # r,
                        run'[q].pc \in Began,
                        run'[q].op = "refactor", r \in JournalDirs \cup {p}
                 PROVE  r \in hist.beset
    BY <1>0, <1>3 DEF Unseen, Pending
  <2>2. run[q].pc \in Began /\ run[q].op = "refactor"
    BY <1>0, <1>1, <1>2, <2>1 DEF Others
  <2>3. CASE r \in JournalDirs
    BY <2>1, <2>2, <2>3 DEF RInv, Unseen, Pending
  <2>4. CASE r = p
    BY <1>0, <2>1, <2>2, <2>4 DEF RInv, Overlaps, Refactoring, Alive
  <2> QED
    BY <2>1, <2>3, <2>4
<1>6. \A j \in Procs : Answerable(j)' => Answerable(j)
  BY <1>0, <1>1, <1>2 DEF Answerable, Others
<1>7. OnHand(p)'
  <2>1. Answerable(p)' => Recorded(p)'
    BY <1>h, <1>0, <1>2, <1>6 DEF RInv, Kept, Recorded, BeforeWrites
  <2> QED
    BY <1>2, <1>3, <2>1 DEF OnHand, Recovering, Pending
<1>8. Proceeds(p)
  <2>1. \A j \in Procs : Answerable(j)' =>
          \A q \in Procs : \A n \in Sure(j)' : j \notin journal'[q].bak[n]
    BY <1>h, <1>0, <1>6 DEF RInv, Kept, Uncopied
  <2> QED
    BY <1>h, <1>0, <1>1, <1>2, <1>3, <1>4, <1>5, <1>7, <2>1
    DEF Proceeds, Alive, Made
<1> QED
  BY <1>8, ProceedsStep

LEMMA CopyBackupsRecovery ==
  ASSUME RInv, Inv', NEW p \in Procs, CopyBackups(p)
  PROVE  RInv'
<1>0. /\ TypeOK /\ run[p].pc = "copy" /\ run[p] \in Run
      /\ run[p].op = "refactor"
      /\ UNCHANGED <<disk, pending, hist>>
  BY DEF RInv, Inv, TypeOK, CopyBackups, Ready, Part
<1>h. HistGrows /\ \A k \in Procs : Sure(k)' = Sure(k)
  BY <1>0, Unchanged
<1>1. CASE ~Pending(p)
  <2>1. Ends(p)
    BY <1>0, <1>1 DEF Ends, CopyBackups, Alive, JournalDirs, Reports
  <2> QED
    BY <2>1, EndsStep
<1>2. CASE Pending(p)
  <2>1. /\ journal' = [journal EXCEPT ![p].manifest = TRUE, ![p].bak = OfHits(p, disk)]
        /\ run'[p] = [run[p] EXCEPT !.pc = "read"] /\ Others(p) /\ said' = said
    BY <1>0, <1>2 DEF CopyBackups, Goto, TypeOK, Others
  <2>2. /\ run'[p].pc = "read" /\ run'[p].op = run[p].op
        /\ run'[p].jdir = run[p].jdir /\ run'[p].verdict = run[p].verdict
    BY <1>0, <2>1 DEF Run
  <2>3. /\ journal'[p].bak = OfHits(p, disk)
        /\ \A q \in Procs : journal'[q].logged = journal[q].logged
        /\ \A q \in Procs \ {p} : journal'[q] = journal[q]
    BY <1>0, <2>1 DEF TypeOK, Journal
  <2>4. Part(p)'
    BY <1>0, <2>2 DEF RInv, Part, Refactoring, Recovering
  <2>5. Unseen'
    BY <1>h, <1>0, <2>1, <2>2, NoneSeen
  <2>6. \A j \in Procs : Answerable(j)' => Answerable(j) /\ Kept(j)
    BY <1>0, <2>1, <2>2 DEF RInv, Answerable, Others
  <2>7. ASSUME NEW j \in Procs, Answerable(j)', NEW n \in Sure(j)'
        PROVE  j \notin disk[n]
    <3>1. CASE j = p
      BY <1>h, <1>0, <2>6, <2>7, <3>1 DEF Kept, Recorded, BeforeWrites
    <3>2. CASE j # p
      <4>1. SUFFICES ASSUME j \in disk[n] PROVE FALSE
        OBVIOUS
      <4>2. run[j].pc \notin BeforeWrites /\ run[j].op = "refactor"
            /\ j \notin hist.beset
        BY <1>h, <2>6, <2>7, <4>1 DEF Kept, Recorded, Answerable, BeforeWrites
      <4>3. ~Alive(j)
        BY <1>0, <3>2, <4>2 DEF RInv, Overlaps, Refactoring, Alive, BeforeWrites
      <4>4. Pending(j)
        BY <1>h, <2>6, <2>7, <4>1, <4>2, <4>3 DEF Kept, Gone, Alive, BeforeWrites
      <4> QED
        BY <1>0, <3>2, <4>2, <4>4 DEF RInv, Unseen
    <3> QED
      BY <3>1, <3>2
  <2>8. OnHand(p)'
    <3>1. Answerable(p)' => Recorded(p)' /\ Pending(p)'
      BY <1>h, <1>0, <1>2, <2>2, <2>7 DEF Recorded, Pending, JournalDirs
    <3> QED
      BY <2>2, <3>1 DEF OnHand, Recovering
  <2>9. \A j \in Procs : Answerable(j)' =>
          \A q \in Procs : \A n \in Sure(j)' : j \notin journal'[q].bak[n]
    BY <1>0, <2>3, <2>6, <2>7 DEF Kept, Uncopied, OfHits, Sure
  <2>10. Proceeds(p)
    BY <1>h, <1>0, <2>1, <2>2, <2>3, <2>4, <2>5, <2>8, <2>9
    DEF Proceeds, Alive, Made, JournalDirs
  <2> QED
    BY <2>10, ProceedsStep
<1> QED
  BY <1>1, <1>2

LEMMA ReadNotesRecovery ==
  ASSUME RInv, Inv', NEW p \in Procs, ReadNotes(p)
  PROVE  RInv'
<1> DEFINE text == OfHits(p, [n \in Notes |-> disk[n] \cup {p}])
           r == [run[p] EXCEPT !.text = text, !.todo = Hits[p], !.pc = "write"]
<1>0. /\ TypeOK /\ run[p].pc = "read" /\ run[p] \in Run
      /\ run[p].op = "refactor"
      /\ UNCHANGED <<disk, pending, journal, said, hist>>
  BY DEF RInv, Inv, TypeOK, ReadNotes, Ready, Part
<1>h. HistGrows /\ \A k \in Procs : Sure(k)' = Sure(k)
  BY <1>0, Unchanged
<1>1. run' = [run EXCEPT ![p] = r]
  BY DEF ReadNotes
<1>2. /\ r.pc = "write" /\ r.op = run[p].op /\ r.jdir = run[p].jdir
      /\ r.verdict = run[p].verdict /\ r.todo = Hits[p] /\ r.text = text
  BY <1>0 DEF Run
<1> HIDE DEF r
<1>3. run'[p] = r /\ Others(p)
  BY <1>0, <1>1 DEF TypeOK, Others
<1>4. Part(p)'
  BY <1>0, <1>2, <1>3 DEF RInv, Part, Refactoring, Recovering
<1>5. \A j \in Procs : Answerable(j)' => Answerable(j) /\ Kept(j)
  BY <1>0, <1>2, <1>3 DEF RInv, Answerable, Others
<1>6. ASSUME NEW j \in Procs, Answerable(j)', NEW n \in Sure(j)'
      PROVE  j \notin disk[n]
  <2>1. CASE j = p
    BY <1>h, <1>0, <1>5, <1>6, <2>1 DEF Kept, Recorded, BeforeWrites
  <2>2. CASE j # p
    <3>1. SUFFICES ASSUME j \in disk[n] PROVE FALSE
      OBVIOUS
    <3>2. run[j].pc \notin BeforeWrites /\ run[j].op = "refactor"
          /\ j \notin hist.beset
      BY <1>h, <1>5, <1>6, <3>1 DEF Kept, Recorded, Answerable, BeforeWrites
    <3>3. ~Alive(j)
      BY <1>0, <2>2, <3>2 DEF RInv, Overlaps, Refactoring, Alive, BeforeWrites
    <3>4. Pending(j)
      BY <1>h, <1>5, <1>6, <3>1, <3>2, <3>3 DEF Kept, Gone, Alive, BeforeWrites
    <3> QED
      BY <1>0, <2>2, <3>2, <3>4 DEF RInv, Unseen
  <2> QED
    BY <2>1, <2>2
<1>7. OnHand(p)'
  <2>1. Answerable(p)' => Recorded(p)'
    BY <1>h, <1>0, <1>2, <1>3, <1>6 DEF Recorded
  <2>2. Answerable(p)' => Pending(p)'
    BY <1>0, <1>5 DEF Kept, Standing, Refactoring, WithJournal, Pending, JournalDirs
  <2>3. \A j \in Procs \ {p} : Answerable(j)' =>
          \A n \in Sure(j)' : j \notin r.text[n]
    BY <1>2, <1>6 DEF OfHits, Sure
  <2> QED
    BY <1>2, <1>3, <2>1, <2>2, <2>3 DEF OnHand, Recovering
<1> QED
  BY <1>h, <1>0, <1>1, <1>2, <1>4, <1>7, MemoryStep DEF Alive

\* The record, or what is left of it when its append fails.
LEMMA LogIntentRecovery ==
  ASSUME RInv, Inv', NEW p \in Procs, NEW n \in Notes,
         LogIntent(p, n) \/ LogIntentFails(p, n)
  PROVE  RInv'
<1> DEFINE r == [run[p] EXCEPT !.cur = {n}, !.pc = "replace"]
<1>0. /\ TypeOK /\ run[p].pc = "write" /\ run[p] \in Run
      /\ run[p].op = "refactor" /\ n \in run[p].todo /\ n \in Hits[p]
      /\ UNCHANGED <<disk, pending, said>>
  <2>1. /\ TypeOK /\ Part(p) /\ n \in run[p].todo /\ run[p].pc = "write"
        /\ UNCHANGED <<disk, pending, said>>
    BY DEF RInv, Inv, LogIntent, LogIntentFails, Ready
  <2> QED
    BY <2>1 DEF TypeOK, Part
<1>1. run' = [run EXCEPT ![p] = r]
  BY DEF LogIntent, LogIntentFails, AboutTo
<1>2. /\ r.pc = "replace" /\ r.op = run[p].op /\ r.cur = {n}
      /\ r.jdir = run[p].jdir /\ r.verdict = run[p].verdict
      /\ r.todo = run[p].todo /\ r.text = run[p].text
      /\ r.written = run[p].written
  BY <1>0 DEF Run
<1> HIDE DEF r
<1>3. run'[p] = r /\ Others(p)
  BY <1>0, <1>1 DEF TypeOK, Others
<1>4. Part(p)'
  BY <1>0, <1>2, <1>3 DEF RInv, Part, Refactoring, Recovering
<1>5. HistGrows
  <2>1. CASE hist' = hist
    BY <2>1, Unchanged
  <2>2. CASE hist' # hist
    <3>1. Escapes(p, n)
      BY <2>2 DEF LogIntent, LogIntentFails
    <3>2. /\ hist'.beset = hist.beset
          /\ hist'.escaped = [hist.escaped EXCEPT ![p] = @ \cup {n}]
      BY <1>0, <3>1 DEF Escapes, TypeOK
    <3>3. n \in hist'.escaped[p]
          /\ \A j \in Procs : hist.escaped[j] \subseteq hist'.escaped[j]
      BY <1>0, <3>2 DEF TypeOK
    <3> QED
      BY <3>2, <3>3 DEF HistGrows, Sure
  <2> QED
    BY <2>1, <2>2
<1>6. \A j \in Procs : Answerable(j)' => Answerable(j) /\ Kept(j)
  BY <1>0, <1>2, <1>3, <1>5 DEF RInv, Answerable, Others, HistGrows
<1> DEFINE Logs ==
      /\ \A q \in Procs : /\ journal'[q].bak = journal[q].bak
                          /\ journal[q].logged \subseteq journal'[q].logged
      /\ Pending(p) /\ n \in Sure(p)' => n \in journal'[p].logged
<1>7. Logs
  <2>0. journal[p] \in Journal
    BY <1>0 DEF TypeOK
  <2>1. CASE ~Pending(p) /\ journal' = journal
    BY <2>1
  <2>2. ASSUME NEW c, journal' = [journal EXCEPT ![p] = [journal[p] EXCEPT !.record = c]],
               Escapes(p, n)
        PROVE  Logs
    <3>1. n \notin Sure(p)'
      BY <1>0, <2>2 DEF Escapes, Sure, TypeOK
    <3> QED
      BY <1>0, <2>0, <2>2, <3>1 DEF TypeOK, Journal
  <2>3. CASE LogIntent(p, n)
    <3>1. CASE Pending(p) /\ journal[p].record = "torn"
      <4>1. /\ journal' = [journal EXCEPT ![p] = [journal[p] EXCEPT !.record = "lines"]]
            /\ Escapes(p, n)
        BY <2>3, <3>1 DEF LogIntent
      <4> QED
        BY <2>2, <4>1
    <3>2. CASE Pending(p) /\ journal[p].record # "torn"
      <4>1. journal' = [journal EXCEPT ![p].record = "lines",
                ![p].logged = @ \cup {n}, ![p].log[n] = run[p].text[n]]
        BY <2>3, <3>2 DEF LogIntent
      <4> QED
        BY <1>0, <2>0, <4>1 DEF TypeOK, Journal
    <3> QED
      BY <2>1, <2>3, <3>1, <3>2 DEF LogIntent
  <2>4. CASE LogIntentFails(p, n)
    <3>1. PICK c \in Records :
            journal' = [journal EXCEPT ![p] = [journal[p] EXCEPT !.record = c]]
      BY <2>4 DEF LogIntentFails
    <3>2. Escapes(p, n)
      BY <2>4 DEF LogIntentFails
    <3> QED
      BY <2>2, <3>1, <3>2
  <2> QED
    BY <2>3, <2>4
<1>8. JournalDirs' = JournalDirs
  BY <1>0 DEF JournalDirs
<1>9. Answerable(p)' => Pending(p)
  BY <1>0, <1>6 DEF Kept, Standing, Refactoring, WithJournal
<1>10. Answerable(p)' => Recorded(p)'
  <2>1. SUFFICES ASSUME Answerable(p)' PROVE Recorded(p)'
    OBVIOUS
  <2>2. r.cur \cap Sure(p)' \subseteq journal'[p].logged
    BY <1>2, <1>7, <1>9, <2>1
  <2>3. Sure(p)' \subseteq Sure(p) /\ Recorded(p)
    BY <1>5, <1>6, <2>1 DEF HistGrows, Kept
  <2> QED
    BY <1>0, <1>2, <1>3, <1>7, <2>2, <2>3 DEF Recorded, BeforeWrites, Alive
<1>11. \A j \in Procs \ {p} : Answerable(j)' =>
         \A m \in Sure(j)' : j \notin r.text[m]
  BY <1>0, <1>2, <1>5, <1>6 DEF Kept, Uncopied, HistGrows
<1>12. OnHand(p)'
  BY <1>2, <1>3, <1>8, <1>9, <1>10, <1>11 DEF OnHand, Recovering, Pending
<1>13. Unseen'
  BY <1>0, <1>2, <1>3, <1>5, NoneSeen
<1>14. Proceeds(p)
  <2>1. \A j \in Procs : Answerable(j)' =>
          \A q \in Procs : \A m \in Sure(j)' : j \notin journal'[q].bak[m]
    BY <1>5, <1>6, <1>7 DEF Kept, Uncopied, HistGrows
  <2>2. Alive(p) /\ Alive(p)' /\ (Made(p) => Made(p)')
    BY <1>0, <1>2, <1>3 DEF Alive, Made
  <2> QED
    BY <1>0, <1>2, <1>3, <1>4, <1>5, <1>7, <1>8, <1>12, <1>13, <2>1, <2>2
    DEF Proceeds
<1> QED
  BY <1>14, ProceedsStep

\* A note is written with what was read, and is recorded if it is sure.
LEMMA WriteTextRecovery ==
  ASSUME RInv, Inv', NEW p \in Procs, NEW n \in Notes, WriteText(p, n)
  PROVE  RInv'
<1> DEFINE r == [run[p] EXCEPT !.pc = "record"]
<1>0. /\ TypeOK /\ run[p].pc = "replace" /\ run[p] \in Run
      /\ run[p].op = "refactor" /\ n \in run[p].cur /\ n \in Hits[p]
      /\ UNCHANGED <<pending, journal, said, hist>>
  BY DEF RInv, Inv, TypeOK, WriteText, Ready, Part
<1>1. run' = [run EXCEPT ![p] = r]
  BY DEF WriteText, Goto
<1>2. /\ r.pc = "record" /\ r.op = run[p].op /\ r.cur = run[p].cur
      /\ r.jdir = run[p].jdir /\ r.verdict = run[p].verdict
      /\ r.todo = run[p].todo /\ r.text = run[p].text
      /\ r.written = run[p].written
  BY <1>0 DEF Run
<1> HIDE DEF r
<1>3. run'[p] = r /\ Others(p)
  BY <1>0, <1>1 DEF TypeOK, Others
<1>4. Part(p)'
  BY <1>0, <1>2, <1>3 DEF RInv, Part, Refactoring, Recovering
<1>5. \A j \in Procs : Answerable(j)' => Answerable(j) /\ Kept(j)
  BY <1>0, <1>2, <1>3 DEF RInv, Answerable, Others
<1>6. /\ disk'[n] = run[p].text[n]
      /\ \A m \in Notes \ {n} : disk'[m] = disk[m]
  BY <1>0 DEF WriteText, TypeOK, Entries
<1>7. \A j \in Procs : Sure(j)' = Sure(j) /\ Sure(j) \subseteq Notes
  BY <1>0 DEF Sure
<1>8. JournalDirs' = JournalDirs
  BY <1>0 DEF JournalDirs
<1>9. Answerable(p)' => Pending(p)
  BY <1>0, <1>5 DEF Kept, Standing, Refactoring, WithJournal
<1>10. \A j \in Procs \ {p} : Answerable(j)' =>
         \A m \in Sure(j) : j \notin run[p].text[m]
  BY <1>0, <1>5 DEF Kept, Uncopied
<1>11. OnHand(p)'
  <2>1. ASSUME Answerable(p)' PROVE Recorded(p)'
    <3>1. Recorded(p)
      BY <1>5, <2>1 DEF Kept
    <3>2. run[p].cur \cap Sure(p) \subseteq journal[p].logged
      BY <1>0, <3>1 DEF Recorded
    <3>3. ASSUME NEW m \in Sure(p), p \in disk'[m]
          PROVE  /\ m \in Hits[p] /\ m \in journal[p].logged
                 /\ m \in run[p].written \/ m \in run[p].cur
      <4>1. CASE m = n
        BY <1>0, <3>2, <3>3, <4>1
      <4>2. CASE m # n
        BY <1>0, <1>6, <1>7, <3>1, <3>3, <4>2 DEF Recorded, Alive
      <4> QED
        BY <4>1, <4>2
    <3> QED
      BY <1>0, <1>2, <1>3, <1>7, <3>2, <3>3 DEF Recorded, BeforeWrites
  <2> QED
    BY <1>2, <1>3, <1>7, <1>8, <1>9, <1>10, <2>1 DEF OnHand, Recovering, Pending
<1>12. Unseen'
  BY <1>0, <1>2, <1>3, Unchanged, NoneSeen
<1>13. Proceeds(p)
  <2>1. \A j \in Procs : Answerable(j)' =>
          \A q \in Procs : \A m \in Sure(j)' : j \notin journal'[q].bak[m]
    BY <1>0, <1>5, <1>7 DEF Kept, Uncopied
  <2>2. \A j \in Procs : Answerable(j)' /\ j # p =>
          \A m \in Sure(j)' : j \in disk'[m] => j \in disk[m]
    BY <1>6, <1>7, <1>10
  <2>3. Alive(p) /\ Alive(p)' /\ (Made(p) => Made(p)')
    BY <1>0, <1>2, <1>3 DEF Alive, Made
  <2> QED
    BY <1>0, <1>2, <1>3, <1>4, <1>8, <1>11, <1>12, <2>1, <2>2, <2>3, Unchanged
    DEF Proceeds
<1> QED
  BY <1>13, ProceedsStep

\* The handler knows of it.
LEMMA RecordWrittenRecovery ==
  ASSUME RInv, Inv', NEW p \in Procs, NEW n \in Notes, RecordWritten(p, n)
  PROVE  RInv'
<1> DEFINE r == [run[p] EXCEPT !.todo = @ \ {n}, !.written = @ \cup {n},
                   !.cur = {},
                   !.pc = IF run[p].todo = {n} THEN "verify" ELSE "write"]
<1>0. /\ TypeOK /\ run[p].pc = "record" /\ run[p] \in Run
      /\ run[p].op = "refactor" /\ n \in run[p].cur
      /\ \A m \in run[p].cur : m = n
      /\ UNCHANGED <<disk, pending, journal, said, hist>>
  BY DEF RInv, Inv, TypeOK, RecordWritten, Ready, Part
<1>1. run' = [run EXCEPT ![p] = r]
  BY DEF RecordWritten
<1>2. /\ r.pc \in {"write", "verify"} /\ r.op = run[p].op /\ r.cur = {}
      /\ r.jdir = run[p].jdir /\ r.verdict = run[p].verdict
      /\ r.todo \subseteq run[p].todo /\ r.text = run[p].text
      /\ r.written = run[p].written \cup {n}
  BY <1>0 DEF Run
<1> HIDE DEF r
<1>3. run'[p] = r /\ Others(p)
  BY <1>0, <1>1 DEF TypeOK, Others
<1>4. Part(p)'
  BY <1>0, <1>2, <1>3 DEF RInv, Part, Refactoring, Recovering
<1>5. \A j \in Procs : Answerable(j)' => Answerable(j) /\ Kept(j)
  BY <1>0, <1>2, <1>3 DEF RInv, Answerable, Others
<1>6. \A j \in Procs : Sure(j)' = Sure(j)
  BY <1>0 DEF Sure
<1>7. OnHand(p)'
  <2>1. Answerable(p)' => Recorded(p)'
    BY <1>0, <1>2, <1>3, <1>5, <1>6 DEF Kept, Recorded, BeforeWrites, Alive
  <2>2. Answerable(p)' => Pending(p)'
    BY <1>0, <1>5 DEF Kept, Standing, Refactoring, WithJournal, Pending, JournalDirs
  <2>3. \A j \in Procs \ {p} : Answerable(j)' =>
          \A m \in Sure(j)' : j \notin r.text[m]
    BY <1>0, <1>2, <1>5, <1>6 DEF Kept, Uncopied
  <2> QED
    BY <1>2, <1>3, <2>1, <2>2, <2>3 DEF OnHand, Recovering
<1> QED
  BY <1>0, <1>1, <1>2, <1>4, <1>7, Unchanged, MemoryStep DEF Alive

\* The refactoring turns to its end or to its rollback; what it had on hand
\* and has not recorded is not sure.
LEMMA TurnsRecovery ==
  ASSUME RInv, Inv', NEW p \in Procs, NEW r,
         run' = [run EXCEPT ![p] = r], r.pc \in {"done", "load"},
         r.op = run[p].op, r.jdir = run[p].jdir, r.verdict = run[p].verdict,
         r.written = run[p].written,
         run[p].pc \in {"read", "verify"} \cup Writes,
         UNCHANGED <<disk, pending, journal, said>>, HistGrows,
         run[p].pc = "record" => run[p].cur \cap Sure(p)' = {}
  PROVE  RInv'
<1>0. /\ TypeOK /\ run[p] \in Run /\ run[p].op = "refactor"
      /\ run[p].verdict = "applied" /\ run[p].jdir = p /\ OnHand(p) /\ Made(p)
  BY Held DEF RInv, Inv, TypeOK, Part, Refactoring, Made
<1>1. run'[p] = r
  BY <1>0 DEF TypeOK
<1>2. Part(p)'
  BY <1>0, <1>1 DEF RInv, Part, Refactoring, Recovering, Made
<1>3. Answerable(p)' => Answerable(p)
  BY <1>1 DEF Answerable, HistGrows
<1>4. Sure(p)' \subseteq Sure(p)
  BY DEF HistGrows
<1>5. OnHand(p)'
  <2>1. Answerable(p)' => Recorded(p)'
    BY <1>0, <1>1, <1>3, <1>4 DEF OnHand, Recorded, BeforeWrites, Alive
  <2>2. Answerable(p)' => Pending(p)'
    BY <1>0, <1>3 DEF OnHand, Refactoring, WithJournal, Pending, JournalDirs
  <2> QED
    BY <1>0, <1>1, <2>1, <2>2 DEF OnHand
<1> QED
  BY <1>0, <1>2, <1>5, MemoryStep DEF Alive

----------------------------------------------------------------------------
(* Rolling back, and doctor.                                               *)

LEMMA ListJournalsRecovery ==
  ASSUME RInv, Inv', NEW p \in Procs, ListJournals(p)
  PROVE  RInv'
<1>0. /\ TypeOK /\ run[p].pc = "list" /\ run[p] \in Run
      /\ run[p].op \in Doctors
      /\ UNCHANGED <<disk, pending, journal>>
  BY DEF RInv, Inv, TypeOK, ListJournals, Ready, Part
<1>1. CASE pending = <<>>
  <2>1. Ends(p)
    BY <1>0, <1>1 DEF Ends, ListJournals, Alive, JournalDirs, Reports
  <2> QED
    BY <2>1, EndsStep
<1>2. CASE pending # <<>>
  <2>h. PICK h \in Procs : h = Head(pending)
    BY <1>0, <1>2 DEF TypeOK
  <2> DEFINE r == [run[p] EXCEPT !.jdir = h,
               !.pc = IF run[p].op = "discard" THEN "done" ELSE "load",
               !.verdict = IF run[p].op = "discard" THEN "discarded" ELSE @]
  <2>1. h \in JournalDirs
    BY <1>0, <1>2, <2>h DEF TypeOK, JournalDirs
  <2>2. run' = [run EXCEPT ![p] = r] /\ said' = said
    BY <1>2, <2>h DEF ListJournals
  <2>3. hist' = IF Alive(h) \/ run[p].op = "discard"
                THEN [hist EXCEPT !.beset = @ \cup {h}] ELSE hist
    BY <1>2, <2>h DEF ListJournals
  <2>4. /\ r.pc = IF run[p].op = "discard" THEN "done" ELSE "load"
        /\ r.verdict = IF run[p].op = "discard" THEN "discarded" ELSE run[p].verdict
        /\ r.op = run[p].op /\ r.jdir = h
    BY <1>0 DEF Run
  <2> HIDE DEF r
  <2>5. run'[p] = r /\ Others(p)
    BY <1>0, <2>2 DEF TypeOK, Others
  <2>6. Made(h) /\ h # p
    BY <1>0, <2>1 DEF RInv, Inv, PendingIsMade, Made, Doctors
  <2>7. Made(h)'
    BY <2>1, <2>5, <2>6 DEF Made, Others
  <2>8. Part(p)'
    BY <1>0, <2>4, <2>5, <2>7 DEF Part, Refactoring, Recovering, Doctors
  <2>9. ~Answerable(p)'
    BY <1>0, <2>4, <2>5 DEF Answerable, Doctors
  <2>10. /\ HistGrows /\ hist.beset \subseteq hist'.beset
         /\ (Alive(h) \/ run[p].op = "discard" => h \in hist'.beset)
    <3>1. CASE Alive(h) \/ run[p].op = "discard"
      <4>1. /\ hist'.beset = hist.beset \cup {h}
            /\ hist'.escaped = hist.escaped
        BY <1>0, <2>3, <3>1 DEF TypeOK
      <4> QED
        BY <4>1 DEF HistGrows, Sure
    <3>2. CASE ~(Alive(h) \/ run[p].op = "discard")
      <4>1. hist' = hist
        BY <2>3, <3>2
      <4> QED
        BY <3>2, <4>1, Unchanged
    <3> QED
      BY <3>1, <3>2
  <2>11. Answerable(h)' => ~Alive(h)' /\ run[p].op = "rollback"
    BY <1>0, <2>1, <2>5, <2>6, <2>10
    DEF Answerable, Alive, Others, Doctors, Made
  <2>12. OnHand(p)'
    BY <2>4, <2>5, <2>9, <2>11 DEF OnHand
  <2> QED
    BY <1>0, <2>2, <2>4, <2>8, <2>10, <2>12, MemoryStep DEF Alive, Made
<1> QED
  BY <1>1, <1>2

LEMMA LoadManifestRecovery ==
  ASSUME RInv, Inv', NEW p \in Procs, LoadManifest(p)
  PROVE  RInv'
<1>j. PICK j \in Procs : j = run[p].jdir
  BY DEF RInv, Inv, TypeOK, Run
<1> DEFINE own == run[p].op = "refactor"
           r == [run[p] EXCEPT !.pc = "classify", !.todo = Hits[j],
                !.verdict = "rolled-back",
                !.text = IF own THEN @ ELSE journal[j].log,
                !.written = IF own THEN @ ELSE journal[j].logged,
                !.classify = own \/ journal[j].record # "none"]
<1>0. /\ TypeOK /\ run[p].pc = "load" /\ run[p] \in Run /\ j = run[p].jdir
      /\ Part(p) /\ OnHand(p) /\ Recovering(p)
      /\ UNCHANGED <<disk, pending, journal, hist>>
  BY <1>j, Held DEF RInv, Inv, TypeOK, LoadManifest, Ready, Run, Recovering
<1>h. HistGrows /\ \A k \in Procs : Sure(k)' = Sure(k)
  BY <1>0, Unchanged
<1>1. CASE ~(Pending(j) /\ journal[j].manifest)
  <2>1. Ends(p)
    BY <1>0, <1>1 DEF Ends, LoadManifest, Alive, JournalDirs, Reports
  <2> QED
    BY <2>1, EndsStep
<1>2. CASE Pending(j) /\ journal[j].manifest
  <2>1. run' = [run EXCEPT ![p] = r] /\ said' = said
    BY <1>j, <1>2, ZenonT(60) DEF LoadManifest
  <2>2. /\ r.pc = "classify" /\ r.todo = Hits[j] /\ r.verdict = "rolled-back"
        /\ r.written = IF own THEN run[p].written ELSE journal[j].logged
        /\ r.op = run[p].op /\ r.jdir = j
    BY <1>0 DEF Run
  <2> HIDE DEF r
  <2>3. run'[p] = r /\ Others(p)
    BY <1>0, <2>1 DEF TypeOK, Others
  <2>4. Made(j)'
    BY <1>0, <2>2, <2>3 DEF Part, Made, Others
  <2>5. Part(p)'
    BY <1>0, <2>2, <2>3, <2>4 DEF Part, Refactoring, Recovering
  <2>6. \A q \in Procs : Answerable(q)' => Answerable(q) /\ Kept(q)
    BY <1>0, <2>1, <2>2, <2>3 DEF RInv, Answerable, Others
  <2>7. own => j = p
    BY <1>0 DEF Part, Refactoring
  <2>8. OnHand(p)'
    <3>1. ASSUME Answerable(j)', NEW n \in Sure(j)', j \in disk[n]
          PROVE  n \in r.written /\ n \in r.todo
      BY <1>h, <1>0, <2>2, <2>6, <2>7, <3>1 DEF Kept, Recorded, Alive
    <3>2. Answerable(j)' /\ j # p => ~Alive(j)' /\ run[p].op = "rollback"
      <4>1. Answerable(j)' /\ j # p => ~Alive(j) /\ run[p].op = "rollback"
        BY <1>0, <2>6 DEF OnHand
      <4> QED
        BY <1>0, <2>3, <4>1 DEF Others, Alive
    <3>3. Answerable(p)' => Recorded(p)'
      <4>1. Answerable(p)' => own
        BY <2>2, <2>3 DEF Answerable
      <4> QED
        BY <1>h, <1>0, <2>2, <2>3, <2>6, <4>1 DEF Kept, Recorded, Alive, BeforeWrites
    <3>4. Answerable(p)' => Pending(p)'
      BY <1>0, <1>2, <2>2, <2>3, <2>7 DEF Answerable, Pending, JournalDirs
    <3> QED
      BY <1>0, <2>2, <2>3, <3>1, <3>2, <3>3, <3>4 DEF OnHand
  <2> QED
    BY <1>h, <1>0, <2>1, <2>2, <2>5, <2>8, MemoryStep DEF Alive
<1> QED
  BY <1>1, <1>2

\* What is skipped holds nothing of the refactoring, and what is foreign
\* leaves the rollback unfinished.
LEMMA ClassifyRecovery ==
  ASSUME RInv, Inv', NEW p \in Procs, NEW n \in Notes, Classify(p, n)
  PROVE  RInv'
<1>j. PICK j \in Procs : j = run[p].jdir
  BY DEF RInv, Inv, TypeOK, Run
<1> DEFINE skip == Skipped(p, n) \/ Foreign(p, n)
           r == [run[p] EXCEPT !.todo = @ \ {n},
             !.left = @ \/ Foreign(p, n),
             !.cur = IF skip THEN {} ELSE {n},
             !.pc = IF skip THEN @ ELSE "restore"]
<1>0. /\ TypeOK /\ run[p].pc = "classify" /\ run[p] \in Run /\ j = run[p].jdir
      /\ Part(p) /\ OnHand(p) /\ Recovering(p)
      /\ UNCHANGED <<disk, pending, journal, said, hist>>
  BY <1>j, Held DEF RInv, Inv, TypeOK, Classify, Ready, Run, Recovering
<1>h. HistGrows /\ \A k \in Procs : Sure(k)' = Sure(k)
  BY <1>0, Unchanged
<1>1. run' = [run EXCEPT ![p] = r]
  BY DEF Classify
<1>2. /\ r.pc = IF skip THEN "classify" ELSE "restore"
      /\ r.todo = run[p].todo \ {n} /\ r.cur = IF skip THEN {} ELSE {n}
      /\ r.left = (run[p].left \/ Foreign(p, n))
      /\ r.verdict = run[p].verdict /\ r.written = run[p].written
      /\ r.op = run[p].op /\ r.jdir = j
  BY <1>0 DEF Run
<1> HIDE DEF r
<1>3. run'[p] = r /\ Others(p)
  BY <1>0, <1>1 DEF TypeOK, Others
<1>4. Made(j)'
  BY <1>0, <1>2, <1>3 DEF Part, Made, Others
<1>5. Part(p)'
  BY <1>0, <1>2, <1>3, <1>4 DEF Part, Refactoring, Recovering
<1>6. \A q \in Procs : Answerable(q)' => Answerable(q) /\ Kept(q)
  BY <1>0, <1>2, <1>3 DEF RInv, Answerable, Others
<1>7. OnHand(p)'
  <2>1. ASSUME Answerable(j)', NEW m \in Sure(j)', j \in disk[m]
        PROVE  /\ m \in r.written
               /\ r.left \/ m \in r.todo \/ (r.pc = "restore" /\ m \in r.cur)
    <3>1. m \in run[p].written /\ (run[p].left \/ m \in run[p].todo)
      BY <1>h, <1>0, <1>6, <2>1 DEF OnHand
    <3>2. ASSUME m = n PROVE ~Skipped(p, n)
      BY <1>h, <1>0, <1>6, <2>1, <3>1, <3>2 DEF Skipped, Kept, Uncopied
    <3> QED
      BY <1>2, <3>1, <3>2
  <2>2. Answerable(j)' /\ j # p => ~Alive(j)' /\ run[p].op = "rollback"
    <3>1. Answerable(j)' /\ j # p => ~Alive(j) /\ run[p].op = "rollback"
      BY <1>0, <1>6 DEF OnHand
    <3> QED
      BY <1>0, <1>3, <3>1 DEF Others, Alive
  <2>3. Answerable(p)' => Recorded(p)'
    BY <1>h, <1>0, <1>2, <1>3, <1>6 DEF Kept, Recorded, Alive, BeforeWrites
  <2>4. Answerable(p)' /\ Refactoring(p)' => Pending(p)'
    BY <1>0, <1>2, <1>3, <1>6
    DEF Kept, Standing, Refactoring, WithJournal, Pending, JournalDirs
  <2> QED
    BY <1>0, <1>2, <1>3, <2>1, <2>2, <2>3, <2>4 DEF OnHand
<1> QED
  BY <1>h, <1>0, <1>1, <1>2, <1>5, <1>7, MemoryStep DEF Alive

\* A backup holds nothing of the refactoring.
LEMMA RestoreRecovery ==
  ASSUME RInv, Inv', NEW p \in Procs, NEW n \in Notes, Restore(p, n)
  PROVE  RInv'
<1>j. PICK j \in Procs : j = run[p].jdir
  BY DEF RInv, Inv, TypeOK, Run
<1> DEFINE r == [run[p] EXCEPT !.pc = "classify"]
<1>0. /\ TypeOK /\ run[p].pc = "restore" /\ run[p] \in Run /\ j = run[p].jdir
      /\ Part(p) /\ OnHand(p) /\ Recovering(p) /\ n \in run[p].cur
      /\ UNCHANGED <<pending, journal, hist>>
  BY <1>j, Held DEF RInv, Inv, TypeOK, Restore, Ready, Run, Recovering
<1>h. HistGrows /\ \A k \in Procs : Sure(k)' = Sure(k)
  BY <1>0, Unchanged
<1>1. CASE ~Pending(j)
  <2>1. Ends(p)
    BY <1>0, <1>1 DEF Ends, Restore, Alive, JournalDirs, Reports
  <2> QED
    BY <2>1, EndsStep
<1>2. CASE Pending(j)
  <2>1. run' = [run EXCEPT ![p] = r] /\ said' = said
    BY <1>j, <1>2 DEF Restore, Goto
  <2>2. /\ r.pc = "classify" /\ r.todo = run[p].todo
        /\ r.left = run[p].left /\ r.verdict = run[p].verdict
        /\ r.written = run[p].written /\ r.op = run[p].op /\ r.jdir = j
    BY <1>0 DEF Run
  <2> HIDE DEF r
  <2>3. run'[p] = r /\ Others(p)
    BY <1>0, <2>1 DEF TypeOK, Others
  <2>4. /\ disk'[n] = journal[j].bak[n]
        /\ \A m \in Notes \ {n} : disk'[m] = disk[m]
    BY <1>0, <1>2 DEF Restore, TypeOK, Entries
  <2>5. Made(j)'
    BY <1>0, <2>2, <2>3 DEF Part, Made, Others
  <2>6. Part(p)'
    BY <1>0, <2>2, <2>3, <2>5 DEF Part, Refactoring, Recovering
  <2>7. \A q \in Procs : Answerable(q)' => Answerable(q) /\ Kept(q)
    BY <1>0, <2>1, <2>2, <2>3 DEF RInv, Answerable, Others
  <2>8. \A q \in Procs : Answerable(q)' =>
          /\ n \in Sure(q)' => q \notin disk'[n]
          /\ \A m \in Sure(q)' : q \in disk'[m] => q \in disk[m]
    <3>1. \A q \in Procs : Sure(q) \subseteq Notes
      BY DEF Sure
    <3> QED
      BY <1>h, <1>0, <2>4, <2>7, <3>1 DEF Kept, Uncopied
  <2>9. OnHand(p)'
    <3>1. ASSUME Answerable(j)', NEW m \in Sure(j)', j \in disk'[m]
          PROVE  m \in r.written /\ (r.left \/ m \in r.todo)
      <4>1. m # n /\ j \in disk[m]
        BY <1>0, <2>8, <3>1
      <4>2. m \in run[p].written
            /\ (run[p].left \/ m \in run[p].todo \/ m \in run[p].cur)
        BY <1>h, <1>0, <2>7, <3>1, <4>1 DEF OnHand
      <4>3. m \notin run[p].cur
        BY <1>0, <4>1 DEF Part
      <4> QED
        BY <2>2, <4>2, <4>3
    <3>2. Answerable(j)' /\ j # p => ~Alive(j)' /\ run[p].op = "rollback"
      <4>1. Answerable(j)' /\ j # p => ~Alive(j) /\ run[p].op = "rollback"
        BY <1>0, <2>7 DEF OnHand
      <4> QED
        BY <1>0, <2>3, <4>1 DEF Others, Alive
    <3>3. Answerable(p)' => Recorded(p)'
      BY <1>h, <1>0, <2>2, <2>3, <2>7, <2>8 DEF Kept, Recorded, Alive, BeforeWrites
    <3>4. Answerable(p)' /\ Refactoring(p)' => Pending(p)'
      BY <1>0, <2>2, <2>3, <2>7
      DEF Kept, Standing, Refactoring, WithJournal, Pending, JournalDirs
    <3> QED
      BY <1>0, <2>2, <2>3, <3>1, <3>2, <3>3, <3>4 DEF OnHand
  <2>10. Unseen'
    BY <1>h, <1>0, <2>2, <2>3, NoneSeen
  <2>11. Proceeds(p)
    <3>1. \A q \in Procs : Answerable(q)' =>
            \A s \in Procs : \A m \in Sure(q)' : q \notin journal'[s].bak[m]
      BY <1>h, <1>0, <2>7 DEF Kept, Uncopied
    <3> QED
      BY <1>h, <1>0, <2>1, <2>2, <2>3, <2>6, <2>8, <2>9, <2>10, <3>1
      DEF Proceeds, Alive, Made, JournalDirs
  <2> QED
    BY <2>11, ProceedsStep
<1> QED
  BY <1>1, <1>2

LEMMA EndRollbackRecovery ==
  ASSUME RInv, Inv', NEW p \in Procs, EndRollback(p)
  PROVE  RInv'
<1>j. PICK j \in Procs : j = run[p].jdir
  BY DEF RInv, Inv, TypeOK, Run
<1> DEFINE r == [run[p] EXCEPT !.pc = "done"]
<1>0. /\ TypeOK /\ run[p].pc = "classify" /\ run[p] \in Run /\ j = run[p].jdir
      /\ Part(p) /\ OnHand(p) /\ Recovering(p) /\ run[p].todo = {}
      /\ UNCHANGED <<disk, pending, journal, hist>>
  BY <1>j, Held DEF RInv, Inv, TypeOK, EndRollback, Ready, Run, Recovering
<1>h. HistGrows /\ \A k \in Procs : Sure(k)' = Sure(k)
  BY <1>0, Unchanged
<1>1. CASE run[p].left
  <2>1. Ends(p)
    BY <1>0, <1>1 DEF Ends, EndRollback, Alive, JournalDirs, Reports
  <2> QED
    BY <2>1, EndsStep
<1>2. CASE ~run[p].left
  <2>1. run' = [run EXCEPT ![p] = r] /\ said' = said
    BY <1>2 DEF EndRollback, Goto
  <2>2. /\ r.pc = "done" /\ r.verdict = run[p].verdict
        /\ r.written = run[p].written /\ r.op = run[p].op /\ r.jdir = j
    BY <1>0 DEF Run
  <2> HIDE DEF r
  <2>3. run'[p] = r /\ Others(p)
    BY <1>0, <2>1 DEF TypeOK, Others
  <2>4. \A q \in Procs : Answerable(q)' => Answerable(q) /\ Kept(q)
    BY <1>0, <2>1, <2>2, <2>3 DEF RInv, Answerable, Others
  <2>5. Made(j)'
    BY <1>0, <2>2, <2>3 DEF Part, Made, Others
  <2>6. run[p].op # "discard"
    <3>1. run[p].op = "discard" => run[p].pc # "classify"
      BY DEF RInv, Part
    <3> QED
      BY <1>0, <3>1
  <2>7. Part(p)'
    BY <1>0, <2>2, <2>3, <2>5, <2>6 DEF Part, Refactoring, Recovering
  <2>8. OnHand(p)'
    <3>1. Answerable(j)' => \A n \in Sure(j)' : j \notin disk[n]
      BY <1>h, <1>0, <1>2, <2>4 DEF OnHand
    <3>2. Answerable(j)' /\ j # p => ~Alive(j)' /\ run[p].op = "rollback"
      <4>1. Answerable(j)' /\ j # p => ~Alive(j) /\ run[p].op = "rollback"
        BY <1>0, <2>4 DEF OnHand
      <4> QED
        BY <1>0, <2>3, <4>1 DEF Others, Alive
    <3>3. Answerable(p)' => Recorded(p)'
      BY <1>h, <1>0, <2>2, <2>3, <2>4 DEF Kept, Recorded, Alive, BeforeWrites
    <3>4. Answerable(p)' /\ Refactoring(p)' => Pending(p)'
      BY <1>0, <2>2, <2>3, <2>4
      DEF Kept, Standing, Refactoring, WithJournal, Pending, JournalDirs
    <3> QED
      BY <1>0, <2>2, <2>3, <3>1, <3>2, <3>3, <3>4 DEF OnHand
  <2> QED
    BY <1>h, <1>0, <2>1, <2>2, <2>7, <2>8, MemoryStep DEF Alive
<1> QED
  BY <1>1, <1>2

\* The journal that goes is out of the list, and no other.
LEMMA RemovedDirs ==
  ASSUME Inv, NEW i \in DOMAIN pending, pending' = RemoveAt(pending, i)
  PROVE  JournalDirs' = JournalDirs \ {pending[i]}
<1>1. /\ pending \in Seq(Procs) /\ Len(pending') = Len(pending) - 1
      /\ pending' \in Seq(Procs)
      /\ \A k \in 1 .. Len(pending) - 1 :
           pending'[k] = IF k < i THEN pending[k] ELSE pending[k + 1]
  BY RemoveAtProperties DEF Inv, TypeOK
<1>2. \A k \in DOMAIN pending' : \E m \in DOMAIN pending :
        m # i /\ pending'[k] = pending[m]
  <2> TAKE k \in DOMAIN pending'
  <2>1. /\ k \in 1 .. Len(pending) - 1 /\ k \in Nat /\ i \in Nat
        /\ Len(pending) \in Nat /\ DOMAIN pending = 1 .. Len(pending)
    BY <1>1
  <2>2. CASE k < i
    <3>1. k \in DOMAIN pending /\ k # i /\ pending'[k] = pending[k]
      BY <1>1, <2>1, <2>2
    <3> QED
      BY <3>1
  <2>3. CASE ~(k < i)
    <3>1. k + 1 \in DOMAIN pending /\ k + 1 # i
      BY <2>1, <2>3
    <3>2. pending'[k] = pending[k + 1]
      BY <1>1, <2>1, <2>3
    <3> QED
      BY <3>1, <3>2
  <2> QED
    BY <2>2, <2>3
<1>3. \A m \in DOMAIN pending : m # i =>
        \E k \in DOMAIN pending' : pending'[k] = pending[m]
  <2>1. SUFFICES ASSUME NEW m \in DOMAIN pending, m # i
                 PROVE  \E k \in DOMAIN pending' : pending'[k] = pending[m]
    OBVIOUS
  <2>2. CASE m < i
    <3>1. m \in DOMAIN pending' /\ pending'[m] = pending[m]
      BY <1>1, <2>1, <2>2
    <3> QED
      BY <3>1
  <2>3. CASE m > i
    <3>1. m - 1 \in DOMAIN pending' /\ pending'[m - 1] = pending[m]
      BY <1>1, <2>1, <2>3
    <3> QED
      BY <3>1
  <2> QED
    BY <1>1, <2>1, <2>2, <2>3
<1>4. \A m \in DOMAIN pending : m # i => pending[m] # pending[i]
  BY DEF Inv, EachOnce
<1> QED
  BY <1>2, <1>3, <1>4 DEF JournalDirs

LEMMA RemoveJournalRecovery ==
  ASSUME RInv, Inv', NEW p \in Procs, RemoveJournal(p)
  PROVE  RInv'
<1>j. PICK j \in Procs : j = run[p].jdir
  BY DEF RInv, Inv, TypeOK, Run
<1>0. /\ TypeOK /\ run[p].pc = "done" /\ run[p] \in Run /\ j = run[p].jdir
      /\ Part(p) /\ OnHand(p) /\ Recovering(p)
      /\ UNCHANGED <<disk, journal, hist>>
  BY <1>j, Held DEF RInv, Inv, TypeOK, RemoveJournal, Ready, Run, Recovering
<1>h. HistGrows /\ \A k \in Procs : Sure(k)' = Sure(k)
  BY <1>0, Unchanged
<1>1. CASE Pending(j)
  <2>1. End(p, run[p].verdict) /\ JournalDirs' = JournalDirs \ {j}
    BY <1>j, <1>1, RemovedDirs DEF RemoveJournal, RInv
  <2>2. /\ run'[p].pc = "ended" /\ run'[p].op = run[p].op
        /\ said'[p] = run[p].verdict
        /\ \A q \in Procs \ {p} : run'[q] = run[q] /\ said'[q] = said[q]
    BY <1>0, <2>1 DEF End, Started, TypeOK
  <2>3. ASSUME Answerable(j)'
        PROVE  ~Alive(j)' /\ \A n \in Sure(j)' : j \notin disk'[n]
    <3>1. Answerable(j)
      BY <1>0, <2>2, <2>3 DEF Answerable, RInv, Inv, ReportsEnd
    <3>2. CASE j = p
      <4>1. run[p].verdict = "rolled-back"
        BY <1>0, <2>2, <2>3, <3>2 DEF Answerable, Part, Run, Verdicts
      <4> QED
        BY <1>h, <1>0, <2>2, <3>1, <3>2, <4>1 DEF OnHand, Alive
    <3>3. CASE j # p
      <4>1. ~Alive(j) /\ run[p].verdict = "rolled-back"
        BY <1>0, <3>1, <3>3 DEF OnHand, Part
      <4> QED
        BY <1>h, <1>0, <2>2, <3>1, <3>3, <4>1 DEF OnHand, Alive
    <3> QED
      BY <3>2, <3>3
  <2>4. run[p].verdict \in Reports
    BY <1>0 DEF Run, Reports
  <2>5. Ends(p)
    BY <1>0, <2>1, <2>3, <2>4 DEF Ends, Alive
  <2> QED
    BY <2>5, EndsStep
<1>2. CASE ~Pending(j) /\ run[p].verdict = "applied"
  <2> DEFINE r == [run[p] EXCEPT !.pc = "load"]
  <2>1. run' = [run EXCEPT ![p] = r] /\ said' = said /\ pending' = pending
    BY <1>j, <1>2 DEF RemoveJournal, Goto
  <2>2. r.pc = "load" /\ r.op = run[p].op /\ r.jdir = j
        /\ r.verdict = run[p].verdict
    BY <1>0 DEF Run
  <2> HIDE DEF r
  <2>3. run'[p] = r
    BY <1>0, <2>1 DEF TypeOK
  <2>4. run[p].op = "refactor" /\ j = p
    BY <1>0, <1>2 DEF Part, Run, Writers, Doctors, Refactoring
  <2>5. ~Answerable(p)
    BY <1>0, <1>2, <2>4 DEF OnHand, Refactoring, WithJournal
  <2>6. ~Answerable(p)'
    BY <1>0, <2>1, <2>2, <2>3, <2>5 DEF Answerable
  <2>7. Made(p)'
    BY <2>2, <2>3, <2>4 DEF Made
  <2>8. Part(p)'
    BY <1>0, <2>2, <2>3, <2>4, <2>7 DEF Part, Refactoring, Recovering
  <2>9. OnHand(p)'
    BY <2>2, <2>3, <2>4, <2>6 DEF OnHand
  <2> QED
    BY <1>h, <1>0, <2>1, <2>2, <2>8, <2>9, MemoryStep DEF Alive
<1>3. CASE ~Pending(j) /\ run[p].verdict # "applied"
  <2>1. Ends(p)
    BY <1>0, <1>3 DEF Ends, RemoveJournal, Alive, JournalDirs, Reports
  <2> QED
    BY <2>1, EndsStep
<1> QED
  BY <1>1, <1>2, <1>3

LEMMA KillRecovery ==
  ASSUME RInv, Inv', NEW p \in Procs, Kill(p)
  PROVE  RInv'
<1>1. Ends(p)
  BY DEF Ends, Kill, JournalDirs, Reports
<1> QED
  BY <1>1, EndsStep

LEMMA NextRInv == RInv /\ [Next]_vars => RInv'
<1> SUFFICES ASSUME RInv, [Next]_vars PROVE RInv'
  OBVIOUS
<1>0. Inv'
  BY NextInv DEF RInv
<1>1. ASSUME NEW p \in Procs, NEW op \in Commands[p], Invoke(p, op)
      PROVE  RInv'
  BY <1>0, <1>1, InvokeRecovery
<1>2. ASSUME NEW p \in Procs,
             DirtyGate(p) \/ MakeJournal(p) \/ CopyBackups(p) \/ ReadNotes(p)
      PROVE  RInv'
  BY <1>0, <1>2, DirtyGateRecovery, MakeJournalRecovery, CopyBackupsRecovery,
     ReadNotesRecovery
<1>3. ASSUME NEW p \in Procs, Writing(p) PROVE RInv'
  BY <1>0, <1>3, WriteNoteRecovery, WriteTextRecovery DEF Writing
<1>3a. ASSUME NEW p \in Procs, NEW n \in Notes,
              LogIntent(p, n) \/ LogIntentFails(p, n) \/ RecordWritten(p, n)
       PROVE  RInv'
  BY <1>0, <1>3a, LogIntentRecovery, RecordWrittenRecovery
<1>4. ASSUME NEW p \in Procs, Verify(p) PROVE RInv'
  <2>0. run[p] \in Run
    BY DEF RInv, Inv, TypeOK
  <2>1. PICK pc \in {"done", "load"} : Goto(p, pc)
    BY <1>4 DEF Verify
  <2> DEFINE r == [run[p] EXCEPT !.pc = pc]
  <2>2. run' = [run EXCEPT ![p] = r]
    BY <2>1 DEF Goto
  <2>3. /\ r.pc = pc /\ r.op = run[p].op /\ r.jdir = run[p].jdir
        /\ r.verdict = run[p].verdict /\ r.written = run[p].written
    BY <2>0 DEF Run
  <2> HIDE DEF r
  <2> QED
    BY <1>0, <1>4, <2>2, <2>3, Unchanged, TurnsRecovery DEF Verify, Ready
<1>5. ASSUME NEW p \in Procs, Raises(p) PROVE RInv'
  <2>0. TypeOK /\ run[p] \in Run
    BY DEF RInv, Inv, TypeOK
  <2> DEFINE r == [run[p] EXCEPT !.cur = {}, !.pc = "load"]
  <2>2. run' = [run EXCEPT ![p] = r]
    BY <1>5 DEF Raises
  <2>3. /\ r.pc = "load" /\ r.op = run[p].op /\ r.jdir = run[p].jdir
        /\ r.verdict = run[p].verdict /\ r.written = run[p].written
    BY <2>0 DEF Run
  <2>4. HistGrows /\ (run[p].pc = "record" => run[p].cur \cap Sure(p)' = {})
    <3>1. CASE run[p].pc # "record"
      BY <1>5, <3>1, Unchanged DEF Raises
    <3>2. CASE run[p].pc = "record"
      <4>1. /\ hist'.beset = hist.beset
            /\ hist'.escaped = [hist.escaped EXCEPT ![p] = @ \cup run[p].cur]
        BY <1>5, <2>0, <3>2 DEF Raises, TypeOK
      <4>2. run[p].cur \subseteq hist'.escaped[p]
            /\ \A j \in Procs : hist.escaped[j] \subseteq hist'.escaped[j]
        BY <2>0, <4>1 DEF TypeOK
      <4> QED
        BY <4>1, <4>2 DEF HistGrows, Sure
    <3> QED
      BY <3>1, <3>2
  <2> HIDE DEF r
  <2> QED
    BY <1>0, <1>5, <2>2, <2>3, <2>4, TurnsRecovery DEF Raises
<1>6. ASSUME NEW p \in Procs,
             ListJournals(p) \/ LoadManifest(p) \/ EndRollback(p)
               \/ RemoveJournal(p) \/ Kill(p)
      PROVE  RInv'
  BY <1>0, <1>6, ListJournalsRecovery, LoadManifestRecovery,
     EndRollbackRecovery, RemoveJournalRecovery, KillRecovery
<1>7. ASSUME NEW p \in Procs, NEW n \in Notes, Classify(p, n) \/ Restore(p, n)
      PROVE  RInv'
  BY <1>0, <1>7, ClassifyRecovery, RestoreRecovery
<1>8. CASE UNCHANGED vars
  <2>1. ASSUME NEW p \in Procs PROVE Part(p)'
    BY <1>8 DEF vars, RInv, Part, Refactoring, Recovering, Made
  <2>2. Overlaps' /\ Unseen'
    BY <1>8 DEF vars, RInv, Overlaps, Unseen, Refactoring, Alive, Pending,
      JournalDirs
  <2>3. ASSUME NEW j \in Procs, Answerable(j)' PROVE Kept(j)'
    <3>1. Kept(j)
      BY <1>8, <2>3 DEF vars, RInv, Answerable
    <3> QED
      BY <1>8, <3>1 DEF vars, Kept, Sure, Uncopied, Recorded, Standing, Undone, Gone,
        Alive, Refactoring, Recovering, Pending, JournalDirs
  <2> QED
    BY <1>0, <2>1, <2>2, <2>3 DEF RInv
<1> QED
  BY <1>1, <1>2, <1>3, <1>3a, <1>4, <1>5, <1>6, <1>7, <1>8 DEF Next

\* Unless two refactorings ran at once, or a doctor beside one, a journal goes
\* only when all of its refactoring was applied or nothing of it is left.
THEOREM UnfinishedBlocks == Spec => []UnfinishedIsPending
<1>1. Spec => []RInv
  BY InitRInv, NextRInv, PTL DEF Spec
<1>2. RInv => UnfinishedIsPending
  <2>1. SUFFICES ASSUME RInv, NEW j \in Procs, run[j].op = "refactor", ~Alive(j),
                        said[j] # "applied", ~Pending(j), j \notin hist.beset,
                        NEW n \in Sure(j)
                 PROVE  j \notin disk[n]
    BY DEF UnfinishedIsPending, Sure
  <2>2. Kept(j)
    BY <2>1 DEF RInv, Answerable
  <2>3. CASE run[j].pc = "idle"
    BY <2>2, <2>3 DEF Kept, Recorded, BeforeWrites
  <2>4. CASE run[j].pc = "ended"
    BY <2>1, <2>2, <2>4 DEF Kept, Gone
  <2> QED
    BY <2>1, <2>3, <2>4 DEF Alive
<1> QED
  BY <1>1, <1>2, PTL

=============================================================================
