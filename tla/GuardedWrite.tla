---------------------------- MODULE GuardedWrite ----------------------------
(***************************************************************************)
(* The single-note writers of vv (set, unset, append, prepend, appendsec,  *)
(* daily-append, patch, new) on one note, in both engines: the native one  *)
(* (write.rs) serves a command or, on any doubt, hands it to the python    *)
(* one (vv_impl.py), which starts it from the beginning.  Several commands *)
(* run at once, beside whoever else writes the note (the editor, a sync    *)
(* tool, a refactoring that rewrites its links) and beside a journal that  *)
(* comes and goes; Journals has the commands that keep one.                *)
(*                                                                         *)
(* A note is the token that owns its frontmatter key and its sections in   *)
(* document order; a section is a title and the set of tokens written      *)
(* under it.  A token is a command or a save by someone else.              *)
(* A file's signature (mtime_ns, size) is a number, fresh at every write;  *)
(* two writes in one clock tick that leave the size alone share it.        *)
(***************************************************************************)
EXTENDS Integers, Sequences, FiniteSets

CONSTANTS
  Writers,     \* the vv commands that write
  Ops,         \* the operations they may be
  Titles,      \* headings
  Ids,         \* section ids the user may name (Hn); 0: by its title
  Absent,      \* "no such file"
  NoSig,       \* file_sig of a file that is not there; "not captured"
  Nobody,      \* the token of what was there at the start
  MaxSaves,    \* bound: saves and deletions by others
  MaxJournals, \* bound: journals
  CoarseClock, \* may two writes fall in one tick?
  Layouts      \* where the native entry may be installed

OpKinds == {"set", "append", "appendsec", "append3", "patch", "new"}
LayoutKinds ==
  {"repo",      \* target/release of a checkout
   "archive",   \* beside src/, as the release archive unpacks
   "override"}  \* VV_PY_ENTRY names the python entry

ASSUME OpsAssumption == Ops \subseteq OpKinds
ASSUME IdsAssumption == Ids \subseteq Nat
ASSUME BoundsAssumption ==
  MaxSaves \in Nat /\ MaxJournals \in Nat /\ CoarseClock \in BOOLEAN
ASSUME LayoutAssumption == Layouts \subseteq LayoutKinds
ASSUME TitlesAssumption == Titles # {}
ASSUME SignatureAssumption == NoSig \notin Nat

Tokens   == Writers \cup (1 .. MaxSaves) \cup {Nobody}
Sections == [title : Titles, words : SUBSET Tokens]
Texts    == [key : Tokens, secs : Seq(Sections)]

ASSUME AbsentAssumption == Absent \notin Texts

VARIABLES
  file,     \* the note: its text and its signature
  clock,    \* how many times it has changed
  pending,  \* a journal is pending
  run,      \* the commands
  report,   \* how each command ended
  saves,    \* saves by others so far
  journals, \* journals so far
  hist      \* observed for the properties; no action's guard reads it

vars == <<file, clock, pending, run, report, saves, journals, hist>>

-----------------------------------------------------------------------------
NoText == [key |-> Nobody, secs |-> <<>>]
NoSection == [title |-> CHOOSE t \in Titles : TRUE, words |-> {}]

\* A command.  The section it is to write is named by its id, or (id 0) by
\* its title, aim; found: append NOTE SEC TEXT has looked for it.  seen is
\* the section the user of patch has reviewed; body says whether the command
\* still has its standard input.  The last three are observed, no guard reads
\* them: based, the change of the file its decision rests on; checked, the
\* change at its check; blind, the note was not there for its signature.
NotRun ==
  [pc |-> "idle", op |-> "set", engine |-> "python", aim |-> NoSection.title,
   id |-> 0, found |-> FALSE, seen |-> NoSection, body |-> TRUE,
   sig |-> NoSig, new |-> NoText, based |-> 0, checked |-> 0, blind |-> FALSE]

PCs == {"idle", "gate", "resolve", "sig", "find", "read", "check", "replace",
        "ended"}
Runs ==
  [pc : PCs, op : OpKinds, engine : {"native", "python"}, aim : Titles,
   id : Nat, found : BOOLEAN, seen : Sections, body : BOOLEAN,
   sig : Nat \cup {NoSig}, new : Texts, based : Nat, checked : Nat,
   blind : BOOLEAN]
Refusals == {"dirty", "exists", "not-found", "ambiguous", "stale", "error",
             "no-engine"}
Reports == {"none", "ok"} \cup Refusals

\* put: for each replace, whether the text carried what the command was to
\* write.  coarse: the changes that left the signature as it was.  barred:
\* the commands invoked while a journal was pending that still is.
Histories == [put : [Writers -> Seq(BOOLEAN)], coarse : SUBSET Nat,
              barred : SUBSET Writers]

TypeOK ==
  /\ file \in [text : Texts \cup {Absent}, sig : Nat]
  /\ clock \in Nat
  /\ pending \in BOOLEAN
  /\ run \in [Writers -> Runs]
  /\ report \in [Writers -> Reports]
  /\ saves \in 0 .. MaxSaves
  /\ journals \in 0 .. MaxJournals
  /\ hist \in Histories

-----------------------------------------------------------------------------
Exists == file.text # Absent

\* A change of the file, by anyone: os.replace, a save, an unlink.
Change(text, sigs) ==
  /\ clock' = clock + 1
  /\ \E s \in sigs : file' = [text |-> text, sig |-> s]

Fresh == {clock + 1}
SomeSig == IF CoarseClock /\ Exists THEN Fresh \cup {file.sig} ELSE Fresh

\* The change is observed: it may have left the signature as it was.
Seen(h) ==
  IF file'.sig = file.sig THEN [h EXCEPT !.coarse = @ \cup {clock + 1}] ELSE h

\* find_sec: the sections that answer to an id, or to a title.
Matches(text, id, t) ==
  {i \in DOMAIN text.secs : IF id = 0 THEN text.secs[i].title = t ELSE i = id}

\* Mutant: a refusal the caller does not know.
Miss_Unknown(hits) == IF hits = {} THEN "missing" ELSE "ambiguous"

Miss(hits) == IF hits = {} THEN "not-found" ELSE "ambiguous"

Add(text, i, w) == [text EXCEPT !.secs[i].words = @ \cup {w}]

\* What command w makes of the text it has read and, where it writes into a
\* section, of section i of it (splice, _fm_join).
Edited(w, text, i) ==
  CASE run[w].op = "set"    -> [text EXCEPT !.key = w]
    [] run[w].op = "append" -> Add(text, Len(text.secs), w)
    [] run[w].op = "patch"  ->
         [text EXCEPT !.secs[i].words = IF run[w].body THEN {w} ELSE {}]
    [] OTHER                -> Add(text, i, w)

Created(w) ==
  [key |-> w, secs |-> <<[NoSection EXCEPT !.words = {w}]>>]

\* Does a text hold what command w was to write?
Carries(w, text) ==
  text.key = w \/ \E i \in DOMAIN text.secs : w \in text.secs[i].words

-----------------------------------------------------------------------------
\* There is no note, or one with two sections; which title comes first is of
\* no consequence, as either is aimed at.
StartTexts ==
  {Absent} \cup
  {[key |-> Nobody, secs |-> <<[NoSection EXCEPT !.title = t],
                               [NoSection EXCEPT !.words = {Nobody}]>>] :
     t \in Titles \ {NoSection.title}}

Init ==
  /\ file \in [text : StartTexts, sig : {0}]
  /\ clock = 0
  /\ pending = FALSE
  /\ run = [w \in Writers |-> NotRun]
  /\ report = [w \in Writers |-> "none"]
  /\ saves = 0
  /\ journals = 0
  /\ hist = [put |-> [w \in Writers |-> <<>>], coarse |-> {}, barred |-> {}]

-----------------------------------------------------------------------------
Others == <<file, clock, pending, saves, journals>>

Goto(w, pc) == run' = [run EXCEPT ![w].pc = pc]

End(w, r) ==
  /\ run' = [run EXCEPT ![w] = [NotRun EXCEPT !.pc = "ended"]]
  /\ report' = [report EXCEPT ![w] = r]

\* Mutant: the captured input is not fed again.
Fallback_EmptyInput(w) ==
  /\ run' = [run EXCEPT ![w] =
       [NotRun EXCEPT !.pc = "gate", !.op = run[w].op, !.aim = run[w].aim,
          !.id = run[w].id, !.seen = run[w].seen, !.body = run[w].body]]
  /\ UNCHANGED report

\* The native engine gives up: python runs the whole command again.  Once
\* patch has consumed its standard input, what it captured is fed to python
\* through exec_python_with_stdin, which looks for the python entry in a
\* checkout only.
Fallback(w) ==
  \/ /\ ~run[w].body /\ "archive" \in Layouts
     /\ End(w, "no-engine")
  \/ /\ run[w].body \/ Layouts # {"archive"}
     /\ run' = [run EXCEPT ![w] =
            [NotRun EXCEPT !.pc = "gate", !.op = run[w].op,
               !.aim = run[w].aim, !.id = run[w].id, !.seen = run[w].seen]]
     /\ UNCHANGED report

\* The native engine refuses nothing itself.
Refuse(w, r) == IF run[w].engine = "native" THEN Fallback(w) ELSE End(w, r)

Ready(w, pc) == run[w].pc = pc

Reviewed(i, t) == {file.text.secs[j] : j \in Matches(file.text, i, t)}

\* The user runs a command: for patch, on a section read before.  append NOTE
\* SEC TEXT is given a title here; given an id it does the same.
Invoke(w, op, engine, t, i) ==
  /\ Ready(w, "idle")
  /\ engine = "native" => op \notin {"append3", "new"}
  /\ op \in {"set", "append", "append3", "new"} => i = 0
  /\ op \in {"set", "append", "new"} => t = NoSection.title  \* no section
  /\ \E seen \in IF op # "patch" THEN {NoSection}
                ELSE IF Exists THEN Reviewed(i, t) ELSE {} :
       run' = [run EXCEPT ![w] =
         [NotRun EXCEPT !.pc = "gate", !.op = op, !.engine = engine,
            !.aim = t, !.id = i, !.seen = seen]]
  /\ hist' = IF pending THEN [hist EXCEPT !.barred = @ \cup {w}] ELSE hist
  /\ UNCHANGED <<Others, report>>

\* Mutant: what is handed over is not gated again.
DirtyGate_Native(w) ==
  /\ Ready(w, "gate")
  /\ IF pending /\ run[w].engine = "native" THEN Refuse(w, "dirty")
     ELSE Goto(w, "resolve") /\ UNCHANGED report
  /\ UNCHANGED <<Others, hist>>

DirtyGate(w) ==
  /\ Ready(w, "gate")
  /\ IF pending THEN Refuse(w, "dirty")
     ELSE Goto(w, "resolve") /\ UNCHANGED report
  /\ UNCHANGED <<Others, hist>>

\* resolve finds the note; new wants no note there, and decides by that.
Resolve(w) ==
  /\ Ready(w, "resolve")
  /\ IF run[w].op = "new"
     THEN IF Exists THEN End(w, "exists")
          ELSE /\ run' = [run EXCEPT ![w].pc = "replace",
                    ![w].new = Created(w), ![w].checked = clock]
               /\ UNCHANGED report
     ELSE IF Exists THEN Goto(w, "sig") /\ UNCHANGED report
          ELSE Refuse(w, "not-found")
  /\ UNCHANGED <<Others, hist>>

CurrentSig == IF Exists THEN file.sig ELSE NoSig

\* Only append NOTE SEC TEXT looks for its section first; then cmd_appendsec
\* runs on the id found, with the signature captured here if there is one.
Finding(w) == run[w].op = "append3" /\ ~run[w].found

TakeSig(w) ==
  /\ Ready(w, "sig")
  /\ IF run[w].engine = "native" /\ ~Exists
     THEN Fallback(w)
     ELSE /\ run' = [run EXCEPT
               ![w].sig = IF @ = NoSig THEN CurrentSig ELSE @,
               ![w].blind = @ \/ ~Exists,
               ![w].pc = IF Finding(w) THEN "find" ELSE "read"]
          /\ UNCHANGED report
  /\ UNCHANGED <<Others, hist>>

\* Several matches are left to cmd_appendsec to refuse: it gets the title.
FindSection(w) ==
  /\ Ready(w, "find")
  /\ LET hits == IF Exists THEN Matches(file.text, run[w].id, run[w].aim)
                 ELSE {} IN
       IF hits = {}
       THEN End(w, IF Exists THEN "not-found" ELSE "error")
       ELSE /\ run' = [run EXCEPT ![w].found = TRUE, ![w].pc = "gate",
                 ![w].id = IF Cardinality(hits) = 1
                           THEN CHOOSE i \in hits : TRUE ELSE @,
                 ![w].based = clock]
            /\ UNCHANGED report
  /\ UNCHANGED <<Others, hist>>

\* The commands that write into a section, and the one that writes over one.
InSection(w) == run[w].op \in {"appendsec", "append3", "patch"}
\* Mutant: patch does not compare the section with what was reviewed.
Stale_Never(w, i) == FALSE

Stale(w, i) == run[w].op = "patch" /\ file.text.secs[i] # run[w].seen

\* The note is read and the new text made of it; patch compares the section
\* with the reviewed one before it consumes its standard input.
Read(w) ==
  /\ Ready(w, "read")
  /\ LET hits == IF ~Exists THEN {} ELSE
                 IF InSection(w) THEN Matches(file.text, run[w].id, run[w].aim)
                 ELSE {Len(file.text.secs)} IN
       IF Cardinality(hits) # 1
       THEN Refuse(w, IF Exists THEN Miss(hits) ELSE "error")
       ELSE \E i \in hits :
         IF Stale(w, i) THEN Refuse(w, "stale")
         ELSE /\ run' = [run EXCEPT ![w].pc = "check",
                   ![w].new = Edited(w, file.text, i),
                   ![w].body = @ /\ run[w].op # "patch",
                   ![w].based = IF run[w].found THEN @ ELSE clock]
              /\ UNCHANGED report
  /\ UNCHANGED <<Others, hist>>

\* Mutant: whatever the signature, the text is written.
Unmoved_Always(w) == TRUE

\* The guard of atomic_write.  A signature that could not be taken, because
\* the note was not there, guards nothing.
Unmoved(w) == run[w].sig = NoSig \/ CurrentSig = run[w].sig

CheckSignature(w) ==
  /\ Ready(w, "check")
  /\ IF Unmoved(w)
     THEN /\ run' = [run EXCEPT ![w].pc = "replace", ![w].checked = clock]
          /\ UNCHANGED report
     ELSE Refuse(w, "stale")
  /\ UNCHANGED <<Others, hist>>

\* The temporary file is written and takes the note's place.
Replace(w) ==
  /\ Ready(w, "replace")
  /\ Change(run[w].new, SomeSig)
  /\ End(w, "ok")
  /\ hist' = Seen([hist EXCEPT
       !.put[w] = Append(@, Carries(w, run[w].new))])
  /\ UNCHANGED <<pending, saves, journals>>

\* ... or an OSError before that.
ReplaceFails(w) ==
  /\ Ready(w, "replace")
  /\ Refuse(w, "error")
  /\ UNCHANGED <<Others, hist>>

(***************************************************************************)
(* A refactoring makes its journal, and it or doctor removes it.           *)
(***************************************************************************)

JournalAppears ==
  /\ ~pending
  /\ journals < MaxJournals
  /\ pending' = TRUE
  /\ journals' = journals + 1
  /\ UNCHANGED <<file, clock, run, report, saves, hist>>

JournalGoes ==
  /\ pending
  /\ pending' = FALSE
  /\ hist' = [hist EXCEPT !.barred = {}]
  /\ UNCHANGED <<file, clock, run, report, saves, journals>>

(***************************************************************************)
(* The editor: it writes words or a heading into the text, and it or a     *)
(* sync tool removes the file and makes it again.                          *)
(***************************************************************************)

Saved(text, s) ==
  {Add(text, i, s) : i \in DOMAIN text.secs}
  \cup {[text EXCEPT !.secs = <<[title |-> t, words |-> {s}]>> \o @] :
          t \in Titles}

EditorSaves ==
  /\ Exists
  /\ saves < MaxSaves
  /\ saves' = saves + 1
  /\ \E text \in Saved(file.text, saves + 1) : Change(text, SomeSig)
  /\ hist' = Seen(hist)
  /\ UNCHANGED <<pending, run, report, journals>>

EditorDeletes ==
  /\ Exists
  /\ saves < MaxSaves
  /\ saves' = saves + 1
  /\ Change(Absent, Fresh)
  /\ UNCHANGED <<pending, run, report, journals, hist>>

EditorCreates ==
  /\ ~Exists
  /\ saves < MaxSaves
  /\ saves' = saves + 1
  /\ Change([NoText EXCEPT !.secs =
               <<[NoSection EXCEPT !.words = {saves + 1}]>>], Fresh)
  /\ UNCHANGED <<pending, run, report, journals, hist>>

-----------------------------------------------------------------------------
Command(w) ==
  \/ \E op \in Ops, engine \in {"native", "python"}, t \in Titles, i \in Ids :
       Invoke(w, op, engine, t, i)
  \/ DirtyGate(w) \/ Resolve(w) \/ TakeSig(w) \/ FindSection(w) \/ Read(w)
  \/ CheckSignature(w) \/ Replace(w) \/ ReplaceFails(w)

Editor == EditorSaves \/ EditorDeletes \/ EditorCreates

Next == (\E w \in Writers : Command(w)) \/ JournalAppears \/ JournalGoes \/ Editor

Spec == Init /\ [][Next]_vars

-----------------------------------------------------------------------------
(***************************************************************************)
(* Properties.                                                             *)
(***************************************************************************)

\* Command w replaces the file in this step.
Replaces(w) == Ready(w, "replace") /\ Len(hist'.put[w]) > Len(hist.put[w])

\* The file is as the check found it: nobody wrote in the time atomic_write
\* takes from its check to os.replace.
InTime(w) == run[w].checked = clock

\* Every change since the one the command's decision rests on has gone by
\* within one tick of the clock, with the size it was.
Indistinct(w) == (run[w].based + 1) .. clock \subseteq hist.coarse

\* What a guarded command overwrites is what it has read, and what append
\* NOTE SEC TEXT found its section in; new overwrites nothing: no bytes of the
\* editor, of a refactoring or of another command are lost.  Outside: a write
\* between the check and os.replace, a write the signature cannot tell, and a
\* note that was not there when its signature was taken.
OverwritesOnlyWhatWasRead ==
  [][\A w \in Writers :
       (Replaces(w) /\ InTime(w) /\ ~run[w].blind)
         => IF run[w].op = "new" THEN ~Exists ELSE Indistinct(w)]_vars

\* A command invoked while a journal is pending writes nothing before it is
\* gone, whichever engine ends up with it and however often it is delegated.
PendingJournalStops ==
  [][\A w \in Writers : Replaces(w) => w \notin hist.barred]_vars

\* patch replaces the section its user reviewed, word for word; append NOTE
\* SEC TEXT writes under the heading its user named, though it addresses the
\* section by a number that a new heading moves.
WritesWhereMeant ==
  [][\A w \in Writers :
       (Replaces(w) /\ InTime(w) /\ hist.coarse = {} /\ ~run[w].blind)
         => LET hits == Matches(file.text, run[w].id, run[w].aim) IN
            /\ run[w].op = "patch" =>
                 \E i \in hits : hits = {i} /\ file.text.secs[i] = run[w].seen
            /\ run[w].op = "append3" =>
                 \E i \in hits :
                    hits = {i} /\ file.text.secs[i].title = run[w].aim]_vars

\* A command writes what it was given once if it reports success, and never
\* otherwise: a hand-over from one engine to the other neither repeats nor
\* empties it.
ExactlyOnce ==
  \A w \in Writers :
    hist.put[w] = IF report[w] = "ok" THEN <<TRUE>> ELSE <<>>

=============================================================================
