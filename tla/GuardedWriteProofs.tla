------------------------- MODULE GuardedWriteProofs -------------------------
(***************************************************************************)
(* Proofs about the single-note writers, for any number of commands, any   *)
(* saves and journals and a clock of any grain.                            *)
(***************************************************************************)
EXTENDS GuardedWrite, SequenceTheorems, FiniteSetTheorems, TLAPS

-----------------------------------------------------------------------------
(* Types.                                                                  *)

LEMMA NoSectionType == NoSection \in Sections /\ NoSection.title \in Titles
BY TitlesAssumption DEF NoSection, Sections

LEMMA NotRunType == NotRun \in Runs
BY NoSectionType DEF NotRun, Runs, PCs, OpKinds, NoText, Texts, Tokens, Sections

\* A text with the words of one section rewritten.
Reworded(text, i, words) == [text EXCEPT !.secs[i].words = words]

LEMMA RewordedType ==
  ASSUME NEW text \in Texts, NEW i \in DOMAIN text.secs,
         NEW words \in SUBSET Tokens
  PROVE  /\ Reworded(text, i, words) \in Texts
         /\ Reworded(text, i, words).secs # <<>>
         /\ i \in DOMAIN Reworded(text, i, words).secs
         /\ Reworded(text, i, words).secs[i].words = words
<1> DEFINE sec == [text.secs[i] EXCEPT !.words = words]
           secs == [text.secs EXCEPT ![i] = sec]
           new == [text EXCEPT !.secs = secs]
<1>1. text.secs \in Seq(Sections) /\ text.secs[i] \in Sections
  BY DEF Texts
<1>2. sec \in Sections /\ sec.words = words
  BY <1>1 DEF Sections
<1>3. secs \in Seq(Sections) /\ DOMAIN secs = DOMAIN text.secs /\ secs[i] = sec
  BY <1>1, <1>2
<1>4. secs # <<>>
  BY <1>3
<1> HIDE DEF secs
<1>5. new \in Texts /\ new.secs = secs
  BY <1>3 DEF Texts
<1>6. new = Reworded(text, i, words)
  BY DEF secs, Reworded
<1> QED
  BY <1>2, <1>3, <1>4, <1>5, <1>6

LEMMA EditedType ==
  ASSUME TypeOK, NEW w \in Writers, NEW text \in Texts,
         NEW i \in DOMAIN text.secs,
         run[w].op = "append" => i = Len(text.secs)
  PROVE  Edited(w, text, i) \in Texts
<1>1. w \in Tokens /\ run[w] \in Runs /\ {w} \in SUBSET Tokens
  BY DEF TypeOK, Tokens
<1>2. text.secs[i].words \cup {w} \in SUBSET Tokens
  <2>1. text.secs \in Seq(Sections)
    BY DEF Texts
  <2>2. text.secs[i] \in Sections
    BY <2>1
  <2> QED
    BY <1>1, <2>2 DEF Sections
<1>3. CASE run[w].op = "set"
  BY <1>1, <1>3 DEF Edited, Texts
<1>4. CASE run[w].op = "patch"
  <2>1. \E words \in SUBSET Tokens : Edited(w, text, i) = Reworded(text, i, words)
    BY <1>1, <1>4 DEF Edited, Reworded
  <2> QED
    BY <2>1, RewordedType
<1>5. CASE run[w].op \notin {"set", "patch"}
  <2>1. Edited(w, text, i) = Add(text, i, w)
    BY <1>5 DEF Edited
  <2>2. Add(text, i, w) = Reworded(text, i, text.secs[i].words \cup {w})
    BY DEF Add, Reworded
  <2> QED
    BY <1>2, <2>1, <2>2, RewordedType
<1> QED
  BY <1>3, <1>4, <1>5

\* The text a command makes holds what it was to write, if it still has its
\* input, and has a section.
LEMMA EditedCarries ==
  ASSUME TypeOK, NEW w \in Writers, NEW text \in Texts,
         NEW i \in DOMAIN text.secs,
         run[w].op = "append" => i = Len(text.secs),
         run[w].body
  PROVE  /\ Carries(w, Edited(w, text, i))
         /\ Edited(w, text, i).secs # <<>>
<1>1. w \in Tokens /\ run[w] \in Runs /\ {w} \in SUBSET Tokens
  BY DEF TypeOK, Tokens
<1>2. text.secs[i].words \cup {w} \in SUBSET Tokens
  <2>1. text.secs \in Seq(Sections)
    BY DEF Texts
  <2>2. text.secs[i] \in Sections
    BY <2>1
  <2> QED
    BY <1>1, <2>2 DEF Sections
<1>3. CASE run[w].op = "set"
  <2>1. text.secs # <<>>
    BY DEF Texts
  <2> QED
    BY <1>3, <2>1 DEF Edited, Texts, Carries
<1>4. CASE run[w].op = "patch"
  <2>1. Edited(w, text, i) = Reworded(text, i, {w})
    BY <1>4 DEF Edited, Reworded
  <2> QED
    BY <1>1, <2>1, RewordedType DEF Carries
<1>5. CASE run[w].op \notin {"set", "patch"}
  <2>1. Edited(w, text, i) = Add(text, i, w)
    BY <1>5 DEF Edited
  <2>2. Add(text, i, w) = Reworded(text, i, text.secs[i].words \cup {w})
    BY DEF Add, Reworded
  <2> QED
    BY <1>2, <2>1, <2>2, RewordedType DEF Carries
<1> QED
  BY <1>3, <1>4, <1>5

LEMMA CreatedType ==
  ASSUME NEW w \in Writers
  PROVE  /\ Created(w) \in Texts
         /\ Carries(w, Created(w)) /\ Created(w).secs # <<>>
<1>1. w \in Tokens
  BY DEF Tokens
<1>2. [NoSection EXCEPT !.words = {w}] \in Sections
  BY <1>1, NoSectionType DEF Sections
<1> QED
  BY <1>1, <1>2 DEF Created, Texts, Carries

LEMMA SavedType ==
  ASSUME NEW text \in Texts, text.secs # <<>>, NEW s \in 1 .. MaxSaves,
         NEW new \in Saved(text, s)
  PROVE  new \in Texts /\ new.secs # <<>>
<1>1. s \in Tokens /\ {s} \in SUBSET Tokens
  BY DEF Tokens
<1>2. text.secs \in Seq(Sections)
  BY DEF Texts
<1>3. ASSUME NEW i \in DOMAIN text.secs, new = Add(text, i, s)
      PROVE  new \in Texts /\ new.secs # <<>>
  <2>1. text.secs[i].words \cup {s} \in SUBSET Tokens
    <3>1. text.secs[i] \in Sections
      BY <1>2
    <3> QED
      BY <1>1, <3>1 DEF Sections
  <2>2. new = Reworded(text, i, text.secs[i].words \cup {s})
    BY <1>3 DEF Add, Reworded
  <2> QED
    BY <2>1, <2>2, RewordedType
<1>4. ASSUME NEW t \in Titles,
             new = [text EXCEPT !.secs = <<[title |-> t, words |-> {s}]>> \o @]
      PROVE  new \in Texts /\ new.secs # <<>>
  <2> DEFINE sec == [title |-> t, words |-> {s}]
             secs == <<sec>> \o text.secs
  <2>1. sec \in Sections
    BY <1>1 DEF Sections
  <2>2. <<sec>> \in Seq(Sections) /\ Len(<<sec>>) = 1
    BY <2>1
  <2>3. secs \in Seq(Sections) /\ Len(secs) = 1 + Len(text.secs)
    BY <1>2, <2>2, ConcatProperties
  <2>4. secs # <<>>
    BY <1>2, <2>3, EmptySeq, LenProperties
  <2>5. new = [text EXCEPT !.secs = secs]
    BY <1>4
  <2> HIDE DEF secs
  <2> QED
    BY <2>3, <2>4, <2>5 DEF Texts
<1> QED
  BY <1>3, <1>4 DEF Saved

LEMMA GotoType ==
  ASSUME TypeOK, NEW w \in Writers, NEW pc \in PCs, Goto(w, pc)
  PROVE  run' \in [Writers -> Runs]
<1>1. run[w] \in Runs
  BY DEF TypeOK
<1>2. [run[w] EXCEPT !.pc = pc] \in Runs
  BY <1>1 DEF Runs
<1> QED
  BY <1>2 DEF TypeOK, Goto

LEMMA EndType ==
  ASSUME TypeOK, NEW w \in Writers, NEW r \in Reports, End(w, r)
  PROVE  run' \in [Writers -> Runs] /\ report' \in [Writers -> Reports]
<1>1. [NotRun EXCEPT !.pc = "ended"] \in Runs
  BY NotRunType DEF Runs, PCs
<1> QED
  BY <1>1 DEF TypeOK, End

LEMMA FallbackType ==
  ASSUME TypeOK, NEW w \in Writers, Fallback(w)
  PROVE  run' \in [Writers -> Runs] /\ report' \in [Writers -> Reports]
<1>1. CASE End(w, "no-engine")
  BY <1>1, EndType DEF Reports, Refusals
<1>2. CASE ~End(w, "no-engine")
  <2> DEFINE r == [NotRun EXCEPT !.pc = "gate", !.op = run[w].op,
                     !.aim = run[w].aim, !.id = run[w].id, !.seen = run[w].seen]
  <2>1. run[w] \in Runs
    BY DEF TypeOK
  <2>2. r \in Runs
    BY <2>1, NotRunType DEF Runs, PCs
  <2>3. run' = [run EXCEPT ![w] = r] /\ report' = report
    BY <1>2 DEF Fallback
  <2> QED
    BY <2>2, <2>3 DEF TypeOK
<1> QED
  BY <1>1, <1>2

LEMMA RefuseType ==
  ASSUME TypeOK, NEW w \in Writers, NEW r \in Reports, Refuse(w, r)
  PROVE  run' \in [Writers -> Runs] /\ report' \in [Writers -> Reports]
BY EndType, FallbackType DEF Refuse

LEMMA ChangeType ==
  ASSUME TypeOK, NEW text \in Texts \cup {Absent}, NEW sigs \in SUBSET Nat,
         Change(text, sigs)
  PROVE  file' \in [text : Texts \cup {Absent}, sig : Nat] /\ clock' \in Nat
BY DEF Change, TypeOK

LEMMA SomeSigType ==
  ASSUME TypeOK
  PROVE  SomeSig \in SUBSET Nat /\ Fresh \in SUBSET Nat
BY DEF TypeOK, SomeSig, Fresh

LEMMA SeenType ==
  ASSUME TypeOK, NEW h \in Histories
  PROVE  Seen(h) \in Histories
<1>1. h.coarse \cup {clock + 1} \in SUBSET Nat
  BY DEF TypeOK, Histories
<1>2. [h EXCEPT !.coarse = h.coarse \cup {clock + 1}] \in Histories
  BY <1>1 DEF Histories
<1> QED
  BY <1>2 DEF Seen

LEMMA InitType == Init => TypeOK
<1> SUFFICES ASSUME Init PROVE TypeOK
  OBVIOUS
<1>1. StartTexts \subseteq Texts \cup {Absent}
  <2>1. ASSUME NEW t \in Titles
        PROVE  [key |-> Nobody, secs |-> <<[NoSection EXCEPT !.title = t],
                  [NoSection EXCEPT !.words = {Nobody}]>>] \in Texts
    <3>1. Nobody \in Tokens
      BY DEF Tokens
    <3>2. /\ [NoSection EXCEPT !.title = t] \in Sections
          /\ [NoSection EXCEPT !.words = {Nobody}] \in Sections
      BY <3>1, NoSectionType DEF Sections
    <3> QED
      BY <3>1, <3>2 DEF Texts
  <2> QED
    BY <2>1 DEF StartTexts
<1>2. run \in [Writers -> Runs]
  BY NotRunType DEF Init
<1>3. hist \in Histories
  BY DEF Init, Histories
<1>4. file \in [text : Texts \cup {Absent}, sig : Nat]
  BY <1>1 DEF Init
<1>5. report \in [Writers -> Reports]
  BY DEF Init, Reports
<1>6. clock \in Nat /\ pending \in BOOLEAN
  BY DEF Init
<1>7. saves \in 0 .. MaxSaves /\ journals \in 0 .. MaxJournals
  BY BoundsAssumption DEF Init
<1> QED
  BY <1>2, <1>3, <1>4, <1>5, <1>6, <1>7 DEF TypeOK

-----------------------------------------------------------------------------
(* The inductive invariant.                                                *)

\* A note has a section: a text without one has nowhere to append to.
HasSections == Exists => file.text.secs # <<>>

\* A signature is the number of the change that made it, and the changes
\* since then that left it alone are the coarse ones.
Signed ==
  /\ file.sig <= clock
  /\ (file.sig + 1) .. clock \subseteq hist.coarse

\* Whoever was invoked while a journal was pending stands at the gate.
Barred ==
  /\ hist.barred # {} => pending
  /\ \A w \in hist.barred : run[w].pc \in {"gate", "ended"}

\* A command that has not ended has reported nothing.
Silent(w) == run[w].pc # "ended" => report[w] = "none"

Composed(w) == run[w].pc \in {"check", "replace"}

\* The standard input is there until the text is made of it, and that text
\* holds what the command was to write.
Fed(w) ==
  /\ ~Composed(w) => run[w].body
  /\ Composed(w) => Carries(w, run[w].new) /\ run[w].new.secs # <<>>

\* append NOTE SEC TEXT is python's alone, and looks for its section first.
Roles(w) ==
  /\ run[w].op \in {"append3", "new"} => run[w].engine = "python"
  /\ run[w].pc \in {"sig", "find", "read", "check"} => run[w].op # "new"
  /\ run[w].pc = "find" => Finding(w)
  /\ run[w].found => run[w].op = "append3"
  /\ Finding(w) => run[w].id = 0 /\ run[w].pc \notin {"read", "check", "replace"}

\* What a command remembers is of the past.
Past(w) ==
  /\ run[w].based <= clock /\ run[w].checked <= clock
  /\ run[w].sig # NoSig => run[w].sig <= clock

\* A guarded command has its signature, and its decision is no older.
Guarded(w) ==
  ~run[w].blind /\ run[w].op # "new" =>
    /\ run[w].pc \in {"find", "read"} => run[w].sig # NoSig
    /\ run[w].found \/ Composed(w) =>
         run[w].sig # NoSig /\ run[w].sig <= run[w].based

\* What the check has found holds until the next change.
Checked(w) ==
  run[w].pc = "replace" /\ InTime(w) =>
    IF run[w].op = "new" THEN ~Exists ELSE run[w].blind \/ Indistinct(w)

\* A command's section is as it was when its decision was taken, as long as
\* nothing has changed since.
Aimed(w) ==
  run[w].based = clock =>
    /\ run[w].op = "patch" /\ Composed(w) =>
         \E i \in Matches(file.text, run[w].id, run[w].aim) :
           /\ Matches(file.text, run[w].id, run[w].aim) = {i}
           /\ file.text.secs[i] = run[w].seen
    /\ run[w].found /\ run[w].id # 0 =>
         /\ run[w].id \in DOMAIN file.text.secs
         /\ file.text.secs[run[w].id].title = run[w].aim
    /\ run[w].found /\ run[w].id = 0 =>
         /\ ~Composed(w)
         /\ Cardinality(Matches(file.text, 0, run[w].aim)) # 1

Sound(w) ==
  /\ Silent(w) /\ Fed(w) /\ Roles(w) /\ Past(w)
  /\ Guarded(w) /\ Checked(w) /\ Aimed(w)

Inv ==
  /\ TypeOK /\ HasSections /\ Signed /\ Barred /\ ExactlyOnce
  /\ \A w \in Writers : Sound(w)

-----------------------------------------------------------------------------
(* Every step keeps the types.                                             *)

\* A command reads a section there is; append reads the last.
LEMMA HitType ==
  ASSUME TypeOK, HasSections, NEW w \in Writers,
         NEW i \in IF ~Exists THEN {} ELSE
                   IF InSection(w) THEN Matches(file.text, run[w].id, run[w].aim)
                   ELSE {Len(file.text.secs)}
  PROVE  /\ Exists /\ file.text \in Texts
         /\ i \in DOMAIN file.text.secs
         /\ run[w].op = "append" => i = Len(file.text.secs)
<1>1. Exists
  OBVIOUS
<1>2. file.text \in Texts /\ file.text.secs # <<>>
  BY <1>1 DEF TypeOK, Exists, HasSections
<1>3. CASE InSection(w)
  BY <1>1, <1>2, <1>3 DEF Matches, InSection
<1>4. CASE ~InSection(w)
  <2>1. i = Len(file.text.secs)
    BY <1>1, <1>4
  <2>2. file.text.secs \in Seq(Sections)
    BY <1>2 DEF Texts
  <2>3. Len(file.text.secs) \in DOMAIN file.text.secs
    BY <1>2, <2>2
  <2> QED
    BY <1>1, <1>2, <2>1, <2>3
<1> QED
  BY <1>3, <1>4

LEMMA NextType == TypeOK /\ HasSections /\ [Next]_vars => TypeOK'
<1> SUFFICES ASSUME TypeOK, HasSections, [Next]_vars PROVE TypeOK'
  OBVIOUS
<1> USE DEF Others
<1>1. ASSUME NEW w \in Writers, NEW op \in Ops,
             NEW engine \in {"native", "python"}, NEW t \in Titles, NEW i \in Ids,
             Invoke(w, op, engine, t, i)
      PROVE  TypeOK'
  <2>1. PICK seen \in IF op # "patch" THEN {NoSection}
                      ELSE IF Exists THEN Reviewed(i, t) ELSE {} :
          run' = [run EXCEPT ![w] =
            [NotRun EXCEPT !.pc = "gate", !.op = op, !.engine = engine,
               !.aim = t, !.id = i, !.seen = seen]]
    BY <1>1 DEF Invoke
  <2>2. seen \in Sections
    <3>1. ASSUME Exists PROVE \A j \in DOMAIN file.text.secs :
                                file.text.secs[j] \in Sections
      BY <3>1 DEF TypeOK, Exists, Texts
    <3> QED
      BY <2>1, <3>1, NoSectionType DEF Reviewed, Matches
  <2>3. [NotRun EXCEPT !.pc = "gate", !.op = op, !.engine = engine,
           !.aim = t, !.id = i, !.seen = seen] \in Runs
    BY <2>2, NotRunType, OpsAssumption, IdsAssumption DEF Runs, PCs
  <2>4. hist' \in Histories
    <3>1. hist.barred \cup {w} \in SUBSET Writers
      BY DEF TypeOK, Histories
    <3>2. [hist EXCEPT !.barred = hist.barred \cup {w}] \in Histories
      BY <3>1 DEF TypeOK, Histories
    <3> QED
      BY <1>1, <3>2 DEF Invoke, TypeOK
  <2> QED
    BY <1>1, <2>1, <2>3, <2>4 DEF Invoke, TypeOK
<1>2. ASSUME NEW w \in Writers, DirtyGate(w) PROVE TypeOK'
  <2>1. run' \in [Writers -> Runs] /\ report' \in [Writers -> Reports]
    BY <1>2, GotoType, RefuseType
    DEF DirtyGate, PCs, Reports, Refusals, TypeOK
  <2> QED
    BY <1>2, <2>1 DEF DirtyGate, TypeOK
<1>3. ASSUME NEW w \in Writers, Resolve(w) PROVE TypeOK'
  <2> DEFINE r == [run[w] EXCEPT !.pc = "replace", !.new = Created(w),
                     !.checked = clock]
  <2>1. r \in Runs
    <3>1. run[w] \in Runs /\ clock \in Nat /\ Created(w) \in Texts
      BY CreatedType DEF TypeOK
    <3> QED
      BY <3>1 DEF Runs, PCs
  <2>2. ASSUME run' = [run EXCEPT ![w].pc = "replace",
                         ![w].new = Created(w), ![w].checked = clock]
        PROVE  run' = [run EXCEPT ![w] = r]
    BY <2>2 DEF TypeOK
  <2>3. run' \in [Writers -> Runs] /\ report' \in [Writers -> Reports]
    <3>1. CASE run[w].op = "new" /\ Exists
      BY <1>3, <3>1, EndType DEF Resolve, Reports, Refusals
    <3>2. CASE run[w].op = "new" /\ ~Exists
      BY <1>3, <2>1, <2>2, <3>2 DEF Resolve, TypeOK
    <3>3. CASE run[w].op # "new" /\ Exists
      BY <1>3, <3>3, GotoType DEF Resolve, PCs, TypeOK
    <3>4. CASE run[w].op # "new" /\ ~Exists
      BY <1>3, <3>4, RefuseType DEF Resolve, Reports, Refusals
    <3> QED
      BY <3>1, <3>2, <3>3, <3>4
  <2> QED
    BY <1>3, <2>3 DEF Resolve, TypeOK
<1>4. ASSUME NEW w \in Writers, TakeSig(w) PROVE TypeOK'
  <2> DEFINE r == [run[w] EXCEPT
                     !.sig = IF @ = NoSig THEN CurrentSig ELSE @,
                     !.blind = @ \/ ~Exists,
                     !.pc = IF Finding(w) THEN "find" ELSE "read"]
  <2>1. CASE run[w].engine = "native" /\ ~Exists
    BY <1>4, <2>1, FallbackType DEF TakeSig, TypeOK
  <2>2. CASE ~(run[w].engine = "native" /\ ~Exists)
    <3>1. run[w] \in Runs /\ CurrentSig \in Nat \cup {NoSig}
      BY DEF TypeOK, CurrentSig
    <3>2. (run[w].blind \/ ~Exists) \in BOOLEAN
      OBVIOUS
    <3>3. r \in Runs
      BY <3>1, <3>2 DEF Runs, PCs
    <3>4. run' = [run EXCEPT ![w] = r]
      BY <1>4, <2>2, <3>1 DEF TakeSig
    <3> HIDE DEF r
    <3>5. run' \in [Writers -> Runs]
      BY <3>3, <3>4 DEF TypeOK
    <3> QED
      BY <1>4, <2>2, <3>5 DEF TakeSig, TypeOK
  <2> QED
    BY <2>1, <2>2
<1>5. ASSUME NEW w \in Writers, FindSection(w) PROVE TypeOK'
  <2> DEFINE hits == IF Exists THEN Matches(file.text, run[w].id, run[w].aim)
                     ELSE {}
             r == [run[w] EXCEPT !.found = TRUE, !.pc = "gate",
                     !.id = IF Cardinality(hits) = 1
                            THEN CHOOSE i \in hits : TRUE ELSE @,
                     !.based = clock]
  <2>1. CASE hits = {}
    <3>1. run' \in [Writers -> Runs] /\ report' \in [Writers -> Reports]
      BY <1>5, <2>1, EndType DEF FindSection, Reports, Refusals
    <3> QED
      BY <1>5, <3>1 DEF FindSection, TypeOK
  <2>2. CASE hits # {}
    <3>1. hits \subseteq Nat
      <4>1. ASSUME Exists PROVE DOMAIN file.text.secs \subseteq Nat
        BY <4>1 DEF TypeOK, Exists, Texts
      <4> QED
        BY <4>1 DEF Matches
    <3>2. (CHOOSE i \in hits : TRUE) \in Nat
      BY <2>2, <3>1
    <3> HIDE DEF hits
    <3>3. run[w] \in Runs
      BY DEF TypeOK
    <3>4. r \in Runs
      BY <3>2, <3>3 DEF Runs, PCs, TypeOK
    <3>5. run' = [run EXCEPT ![w] = r] /\ report' = report
      BY <1>5, <2>2, <3>3 DEF FindSection, hits
    <3> HIDE DEF r
    <3> QED
      BY <1>5, <3>4, <3>5 DEF FindSection, TypeOK
  <2> QED
    BY <2>1, <2>2
<1>6. ASSUME NEW w \in Writers, Read(w) PROVE TypeOK'
  <2> DEFINE hits == IF ~Exists THEN {} ELSE
                     IF InSection(w)
                     THEN Matches(file.text, run[w].id, run[w].aim)
                     ELSE {Len(file.text.secs)}
  <2>1. CASE Cardinality(hits) # 1
    <3>1. (IF Exists THEN Miss(hits) ELSE "error") \in Reports
      BY DEF Miss, Reports, Refusals
    <3>2. Refuse(w, IF Exists THEN Miss(hits) ELSE "error")
      BY <1>6, <2>1 DEF Read
    <3> QED
      BY <1>6, <3>1, <3>2, RefuseType DEF Read, TypeOK
  <2>2. CASE Cardinality(hits) = 1
    <3>1. PICK i \in hits :
            IF Stale(w, i) THEN Refuse(w, "stale")
            ELSE /\ run' = [run EXCEPT ![w].pc = "check",
                      ![w].new = Edited(w, file.text, i),
                      ![w].body = @ /\ run[w].op # "patch",
                      ![w].based = IF run[w].found THEN @ ELSE clock]
                 /\ UNCHANGED report
      BY <1>6, <2>2 DEF Read
    <3>2. CASE Stale(w, i)
      BY <1>6, <3>1, <3>2, RefuseType DEF Read, TypeOK, Reports, Refusals
    <3>3. CASE ~Stale(w, i)
      <4> DEFINE new == Edited(w, file.text, i)
                 r == [run[w] EXCEPT !.pc = "check", !.new = new,
                         !.body = @ /\ run[w].op # "patch",
                         !.based = IF run[w].found THEN @ ELSE clock]
      <4>1. run[w] \in Runs /\ clock \in Nat
        BY DEF TypeOK
      <4>2. new \in Texts
        BY <3>1, HitType, EditedType
      <4>3. run' = [run EXCEPT ![w] = r] /\ report' = report
        BY <3>1, <3>3, <4>1
      <4> HIDE DEF new
      <4>4. (run[w].body /\ run[w].op # "patch") \in BOOLEAN
        OBVIOUS
      <4>5. r \in Runs
        BY <4>1, <4>2, <4>4 DEF Runs, PCs
      <4> HIDE DEF r
      <4> QED
        BY <1>6, <4>3, <4>5 DEF Read, TypeOK
    <3> QED
      BY <3>2, <3>3
  <2> QED
    BY <2>1, <2>2
<1>7. ASSUME NEW w \in Writers, CheckSignature(w) PROVE TypeOK'
  <2> DEFINE r == [run[w] EXCEPT !.pc = "replace", !.checked = clock]
  <2>1. r \in Runs /\ run[w] \in Runs
    <3>1. run[w] \in Runs /\ clock \in Nat
      BY DEF TypeOK
    <3> QED
      BY <3>1 DEF Runs, PCs
  <2>2. CASE Unmoved(w)
    <3>1. run' = [run EXCEPT ![w] = r] /\ report' = report
      BY <1>7, <2>1, <2>2 DEF CheckSignature
    <3> QED
      BY <1>7, <2>1, <3>1 DEF CheckSignature, TypeOK
  <2>3. CASE ~Unmoved(w)
    BY <1>7, <2>3, RefuseType DEF CheckSignature, TypeOK, Reports, Refusals
  <2> QED
    BY <2>2, <2>3
<1>8. ASSUME NEW w \in Writers, Replace(w) PROVE TypeOK'
  <2>1. run' \in [Writers -> Runs] /\ report' \in [Writers -> Reports]
    BY <1>8, EndType DEF Replace, Reports
  <2>2. file' \in [text : Texts \cup {Absent}, sig : Nat] /\ clock' \in Nat
    <3>1. run[w].new \in Texts \cup {Absent}
      BY DEF TypeOK, Runs
    <3> QED
      BY <1>8, <3>1, ChangeType, SomeSigType DEF Replace
  <2>3. [hist EXCEPT !.put[w] = Append(@, Carries(w, run[w].new))] \in Histories
    <3>1. Carries(w, run[w].new) \in BOOLEAN
      BY DEF Carries
    <3>2. Append(hist.put[w], Carries(w, run[w].new)) \in Seq(BOOLEAN)
      BY <3>1 DEF TypeOK, Histories
    <3> QED
      BY <3>2 DEF TypeOK, Histories
  <2> QED
    BY <1>8, <2>1, <2>2, <2>3, SeenType DEF Replace, TypeOK
<1>9. ASSUME NEW w \in Writers, ReplaceFails(w) PROVE TypeOK'
  BY <1>9, RefuseType DEF ReplaceFails, TypeOK, Reports, Refusals
<1>10. CASE JournalAppears
  BY <1>10, BoundsAssumption DEF JournalAppears, TypeOK
<1>11. CASE JournalGoes
  BY <1>11 DEF JournalGoes, TypeOK, Histories
<1>12. ASSUME Editor PROVE TypeOK'
  <2>1. saves' \in 0 .. MaxSaves /\ saves + 1 \in 1 .. MaxSaves
    BY <1>12, BoundsAssumption
    DEF Editor, EditorSaves, EditorDeletes, EditorCreates, TypeOK
  <2>2. CASE EditorSaves
    <3>1. PICK text \in Saved(file.text, saves + 1) : Change(text, SomeSig)
      BY <2>2 DEF EditorSaves
    <3>2. file.text \in Texts /\ file.text.secs # <<>>
      BY <2>2 DEF EditorSaves, TypeOK, Exists, HasSections
    <3>3. text \in Texts
      BY <2>1, <3>1, <3>2, SavedType
    <3>4. file' \in [text : Texts \cup {Absent}, sig : Nat] /\ clock' \in Nat
      BY <3>1, <3>3, ChangeType, SomeSigType
    <3>5. hist' \in Histories
      BY <2>2, SeenType DEF EditorSaves, TypeOK
    <3> QED
      BY <2>1, <2>2, <3>4, <3>5 DEF EditorSaves, TypeOK
  <2>3. CASE EditorDeletes
    <3>1. file' \in [text : Texts \cup {Absent}, sig : Nat] /\ clock' \in Nat
      BY <2>3, ChangeType, SomeSigType DEF EditorDeletes
    <3> QED
      BY <2>1, <2>3, <3>1 DEF EditorDeletes, TypeOK
  <2>4. CASE EditorCreates
    <3>1. [NoText EXCEPT !.secs = <<[NoSection EXCEPT !.words = {saves + 1}]>>]
            \in Texts
      <4>1. saves + 1 \in Tokens /\ Nobody \in Tokens
        BY <2>1 DEF Tokens
      <4>2. [NoSection EXCEPT !.words = {saves + 1}] \in Sections
        BY <4>1, NoSectionType DEF Sections
      <4>3. <<[NoSection EXCEPT !.words = {saves + 1}]>> \in Seq(Sections)
        BY <4>2
      <4> QED
        BY <4>1, <4>3 DEF NoText, Texts
    <3>2. file' \in [text : Texts \cup {Absent}, sig : Nat] /\ clock' \in Nat
      BY <2>4, <3>1, ChangeType, SomeSigType DEF EditorCreates
    <3> QED
      BY <2>1, <2>4, <3>2 DEF EditorCreates, TypeOK
  <2> QED
    BY <1>12, <2>2, <2>3, <2>4 DEF Editor
<1>13. CASE UNCHANGED vars
  BY <1>13 DEF vars, TypeOK
<1> QED
  BY <1>1, <1>2, <1>3, <1>4, <1>5, <1>6, <1>7, <1>8, <1>9, <1>10, <1>11,
     <1>12, <1>13 DEF Next, Command

-----------------------------------------------------------------------------
(* The invariant is inductive.                                             *)

LEMMA InitInv == Init => Inv
<1> SUFFICES ASSUME Init PROVE Inv
  OBVIOUS
<1>1. TypeOK
  BY InitType
<1>2. HasSections
  BY DEF Init, StartTexts, HasSections, Exists
<1>3. Signed
  <2>1. (0 + 1) .. 0 = {}
    OBVIOUS
  <2> QED
    BY <2>1 DEF Init, Signed
<1>4. Barred /\ ExactlyOnce
  BY DEF Init, Barred, ExactlyOnce
<1>5. ASSUME NEW w \in Writers PROVE Sound(w)
  <2>1. run[w] = NotRun /\ report[w] = "none" /\ clock = 0
    BY DEF Init
  <2> QED
    BY <2>1 DEF Sound, Silent, Fed, Composed, Roles, Finding, Past, Guarded,
      Checked, Aimed, NotRun
<1> QED
  BY <1>1, <1>2, <1>3, <1>4, <1>5 DEF Inv

\* What a command relies on outlasts whatever the others do.
LEMMA StillSound ==
  ASSUME TypeOK, NEW w \in Writers, Sound(w),
         run'[w] = run[w], report'[w] = report[w],
         hist.coarse \subseteq hist'.coarse,
         (file' = file /\ clock' = clock) \/ clock' = clock + 1
  PROVE  Sound(w)'
<1>1. /\ clock \in Nat /\ run[w].based \in Nat /\ run[w].checked \in Nat
      /\ run[w].sig \in Nat \cup {NoSig}
  BY DEF TypeOK, Runs
<1>2. Past(w)'
  BY <1>1, SignatureAssumption DEF Sound, Past
<1>3. Silent(w)' /\ Fed(w)' /\ Roles(w)' /\ Guarded(w)'
  BY DEF Sound, Silent, Fed, Roles, Guarded, Composed, Finding, Carries
<1>4. CASE file' = file /\ clock' = clock
  <2>1. Checked(w)'
    BY <1>4 DEF Sound, Checked, InTime, Indistinct, Exists
  <2>2. Aimed(w)'
    BY <1>4 DEF Sound, Aimed, Composed, Matches
  <2> QED
    BY <1>2, <1>3, <2>1, <2>2 DEF Sound
<1>5. CASE clock' = clock + 1
  <2>1. run[w].based # clock' /\ run[w].checked # clock'
    BY <1>1, <1>5 DEF Sound, Past
  <2>2. Checked(w)' /\ Aimed(w)'
    BY <2>1 DEF Checked, Aimed, InTime
  <2> QED
    BY <1>2, <1>3, <2>2 DEF Sound
<1> QED
  BY <1>4, <1>5

\* A command takes a step of its own that does not touch the note.
LEMMA Alone ==
  ASSUME Inv, TypeOK', NEW w \in Writers,
         UNCHANGED <<file, clock, pending, hist>>,
         \A v \in Writers \ {w} : run'[v] = run[v] /\ report'[v] = report[v],
         Sound(w)',
         w \in hist.barred => run'[w].pc \in {"gate", "ended"},
         report'[w] = "ok" <=> report[w] = "ok"
  PROVE  Inv'
<1>1. HasSections' /\ Signed'
  BY DEF Inv, HasSections, Exists, Signed
<1>2. Barred'
  <2>1. hist.barred \subseteq Writers
    BY DEF Inv, TypeOK, Histories
  <2> QED
    BY <2>1 DEF Inv, Barred
<1>3. ExactlyOnce'
  BY DEF Inv, ExactlyOnce
<1>4. ASSUME NEW v \in Writers PROVE Sound(v)'
  <2>1. CASE v = w
    BY <2>1
  <2>2. CASE v # w
    BY <2>2, StillSound DEF Inv
  <2> QED
    BY <2>1, <2>2
<1> QED
  BY <1>1, <1>2, <1>3, <1>4 DEF Inv

LEMMA EndSound ==
  ASSUME TypeOK, NEW w \in Writers, NEW r, End(w, r), clock' \in Nat
  PROVE  /\ Sound(w)' /\ run'[w].pc = "ended" /\ report'[w] = r
         /\ \A v \in Writers \ {w} : run'[v] = run[v] /\ report'[v] = report[v]
<1>1. /\ run'[w] = [NotRun EXCEPT !.pc = "ended"] /\ report'[w] = r
      /\ \A v \in Writers \ {w} : run'[v] = run[v] /\ report'[v] = report[v]
  BY DEF TypeOK, End
<1>2. /\ run'[w].pc = "ended" /\ run'[w].op = "set" /\ run'[w].body = TRUE
      /\ run'[w].found = FALSE /\ run'[w].sig = NoSig
      /\ run'[w].based = 0 /\ run'[w].checked = 0
  BY <1>1 DEF NotRun
<1>3. Sound(w)'
  BY <1>2 DEF Sound, Silent, Fed, Composed, Roles, Finding, Past, Guarded,
    Checked, Aimed
<1> QED
  BY <1>1, <1>2, <1>3

LEMMA EndKeeps ==
  ASSUME Inv, TypeOK', NEW w \in Writers, NEW r \in Refusals,
         run[w].pc # "ended", End(w, r), UNCHANGED <<file, clock, pending, hist>>
  PROVE  Inv'
<1>1. report[w] = "none"
  BY DEF Inv, Sound, Silent
<1>2. r # "ok"
  BY DEF Refusals
<1>3. TypeOK /\ clock' \in Nat
  BY DEF Inv, TypeOK
<1>4. /\ Sound(w)' /\ run'[w].pc = "ended" /\ report'[w] = r
      /\ \A v \in Writers \ {w} : run'[v] = run[v] /\ report'[v] = report[v]
  BY <1>3, EndSound
<1> QED
  BY <1>1, <1>2, <1>4, Alone

LEMMA FallbackKeeps ==
  ASSUME Inv, TypeOK', NEW w \in Writers, run[w].engine = "native",
         run[w].pc # "ended", Fallback(w), UNCHANGED <<file, clock, pending, hist>>
  PROVE  Inv'
<1>1. CASE End(w, "no-engine")
  BY <1>1, EndKeeps DEF Refusals
<1>2. CASE ~End(w, "no-engine")
  <2> DEFINE r == [NotRun EXCEPT !.pc = "gate", !.op = run[w].op,
                     !.aim = run[w].aim, !.id = run[w].id, !.seen = run[w].seen]
  <2>1. run' = [run EXCEPT ![w] = r] /\ report' = report
    BY <1>2 DEF Fallback
  <2>2. /\ run'[w] = r
        /\ \A v \in Writers \ {w} : run'[v] = run[v] /\ report'[v] = report[v]
    BY <2>1 DEF Inv, TypeOK
  <2>3. /\ run'[w].pc = "gate" /\ run'[w].op = run[w].op /\ run'[w].body = TRUE
        /\ run'[w].engine = "python" /\ run'[w].found = FALSE
        /\ run'[w].sig = NoSig /\ run'[w].based = 0 /\ run'[w].checked = 0
    BY <2>2 DEF NotRun
  <2>4. run[w].op \notin {"append3", "new"} /\ report'[w] = "none"
    BY <2>1 DEF Inv, Sound, Roles, Silent
  <2>5. clock' \in Nat
    BY DEF TypeOK
  <2>6. Sound(w)'
    BY <2>3, <2>4, <2>5 DEF Sound, Silent, Fed, Composed, Roles, Finding, Past,
      Guarded, Checked, Aimed
  <2> QED
    BY <2>1, <2>2, <2>3, <2>6, Alone
<1> QED
  BY <1>1, <1>2

LEMMA RefuseKeeps ==
  ASSUME Inv, TypeOK', NEW w \in Writers, NEW r \in Refusals,
         run[w].pc # "ended", Refuse(w, r), UNCHANGED <<file, clock, pending, hist>>
  PROVE  Inv'
BY EndKeeps, FallbackKeeps DEF Refuse

\* A signature made anew counts the change that made it, and one that stays
\* leaves the change among the coarse ones.
LEMMA ChangeSigned ==
  ASSUME TypeOK, Signed, NEW text, Change(text, SomeSig),
         hist'.coarse = IF file'.sig = file.sig THEN hist.coarse \cup {clock + 1}
                        ELSE hist.coarse
  PROVE  Signed' /\ clock' = clock + 1 /\ hist.coarse \subseteq hist'.coarse
<1>1. clock \in Nat /\ file.sig \in Nat /\ clock' = clock + 1
  BY DEF TypeOK, Change
<1>2. file'.sig = clock + 1 \/ file'.sig = file.sig
  BY DEF Change, SomeSig, Fresh
<1>3. CASE file'.sig = clock + 1
  <2>1. (file'.sig + 1) .. clock' = {}
    BY <1>1, <1>3
  <2> QED
    BY <1>1, <1>3, <2>1 DEF Signed
<1>4. CASE file'.sig = file.sig
  <2>1. (file.sig + 1) .. (clock + 1) \subseteq
          ((file.sig + 1) .. clock) \cup {clock + 1}
    BY <1>1
  <2> QED
    BY <1>1, <1>4, <2>1 DEF Signed
<1> QED
  BY <1>1, <1>2, <1>3, <1>4

LEMMA FreshSigned ==
  ASSUME TypeOK, Signed, NEW text, Change(text, Fresh), hist'.coarse = hist.coarse
  PROVE  Signed' /\ clock' = clock + 1
<1>1. Change(text, SomeSig) /\ file'.sig = clock + 1
  BY DEF Change, SomeSig, Fresh
<1>2. file'.sig # file.sig
  BY <1>1 DEF TypeOK, Signed
<1> QED
  BY <1>1, <1>2, ChangeSigned

LEMMA SeenCoarse ==
  ASSUME TypeOK, NEW h \in Histories, hist' = Seen(h)
  PROVE  /\ hist'.coarse = IF file'.sig = file.sig THEN h.coarse \cup {clock + 1}
                           ELSE h.coarse
         /\ hist'.put = h.put /\ hist'.barred = h.barred
BY DEF Seen, Histories

LEMMA InvokeKeeps ==
  ASSUME Inv, TypeOK', NEW w \in Writers, NEW op \in Ops,
         NEW engine \in {"native", "python"}, NEW t \in Titles, NEW i \in Ids,
         Invoke(w, op, engine, t, i)
  PROVE  Inv'
<1>1. PICK seen : run' = [run EXCEPT ![w] =
            [NotRun EXCEPT !.pc = "gate", !.op = op, !.engine = engine,
               !.aim = t, !.id = i, !.seen = seen]]
  BY DEF Invoke
<1>2. /\ run'[w] = [NotRun EXCEPT !.pc = "gate", !.op = op, !.engine = engine,
                      !.aim = t, !.id = i, !.seen = seen]
      /\ \A v \in Writers \ {w} : run'[v] = run[v]
      /\ report' = report /\ file' = file /\ clock' = clock /\ pending' = pending
  BY <1>1 DEF Inv, TypeOK, Invoke, Others
<1>3. /\ run'[w].pc = "gate" /\ run'[w].op = op /\ run'[w].body = TRUE
      /\ run'[w].engine = engine /\ run'[w].found = FALSE /\ run'[w].id = i
      /\ run'[w].sig = NoSig /\ run'[w].based = 0 /\ run'[w].checked = 0
  BY <1>2 DEF NotRun
<1>4. /\ hist'.put = hist.put /\ hist'.coarse = hist.coarse
      /\ hist'.barred \subseteq hist.barred \cup {w}
      /\ hist'.barred # {} => pending
      /\ hist.barred \subseteq Writers
  BY DEF Inv, TypeOK, Histories, Invoke, Barred
<1>5. report[w] = "none" /\ clock \in Nat
  BY DEF Inv, Sound, Silent, Invoke, Ready, TypeOK
<1>6. HasSections' /\ Signed' /\ ExactlyOnce'
  BY <1>2, <1>4 DEF Inv, HasSections, Exists, Signed, ExactlyOnce
<1>7. Barred'
  BY <1>2, <1>3, <1>4 DEF Inv, Barred
<1>8. ASSUME NEW v \in Writers PROVE Sound(v)'
  <2>1. CASE v = w
    <3>1. /\ op \in {"append3", "new"} => engine = "python"
          /\ op = "append3" => i = 0
      BY DEF Invoke
    <3>2. Checked(w)' /\ Aimed(w)' /\ Guarded(w)'
      BY <1>3 DEF Checked, Aimed, Guarded, Composed
    <3>3. Silent(w)' /\ Fed(w)' /\ Roles(w)' /\ Past(w)'
      BY <1>2, <1>3, <1>5, <3>1 DEF Silent, Fed, Composed, Roles, Finding, Past
    <3> QED
      BY <2>1, <3>2, <3>3 DEF Sound
  <2>2. CASE v # w
    BY <1>2, <1>4, <2>2, StillSound DEF Inv
  <2> QED
    BY <2>1, <2>2
<1> QED
  BY <1>6, <1>7, <1>8 DEF Inv

\* A command goes on with something else to do.
LEMMA GotoKeeps ==
  ASSUME Inv, TypeOK', NEW w \in Writers, NEW pc, Goto(w, pc),
         UNCHANGED <<report, file, clock, pending, hist>>,
         w \notin hist.barred, pc \in {"resolve", "sig"},
         run[w].pc \in {"gate", "resolve"},
         pc = "sig" => run[w].op # "new"
  PROVE  Inv'
<1>1. /\ run'[w] = [run[w] EXCEPT !.pc = pc] /\ run[w] \in Runs
      /\ \A v \in Writers \ {w} : run'[v] = run[v]
  BY DEF Inv, TypeOK, Goto
<1>2. /\ run'[w].pc = pc /\ run'[w].op = run[w].op /\ run'[w].id = run[w].id
      /\ run'[w].aim = run[w].aim /\ run'[w].engine = run[w].engine
      /\ run'[w].found = run[w].found /\ run'[w].body = run[w].body
      /\ run'[w].sig = run[w].sig /\ run'[w].based = run[w].based
      /\ run'[w].checked = run[w].checked /\ run'[w].blind = run[w].blind
  BY <1>1 DEF Runs
<1>3. Sound(w)
  BY DEF Inv
<1>4. Silent(w)' /\ Fed(w)' /\ Roles(w)' /\ Past(w)' /\ Guarded(w)' /\ Checked(w)'
  BY <1>2, <1>3 DEF Sound, Silent, Fed, Composed, Roles, Finding, Past, Guarded,
    Checked
<1>5. Aimed(w)'
  BY <1>2, <1>3 DEF Sound, Aimed, Composed, Matches
<1> QED
  BY <1>1, <1>4, <1>5, Alone DEF Sound

LEMMA ResolveKeeps ==
  ASSUME Inv, TypeOK', NEW w \in Writers, Resolve(w)
  PROVE  Inv'
<1>1. /\ run[w].pc = "resolve" /\ w \notin hist.barred
      /\ UNCHANGED <<file, clock, pending, hist>>
  BY DEF Resolve, Ready, Others, Inv, Barred
<1>2. CASE run[w].op = "new" /\ Exists
  BY <1>1, <1>2, EndKeeps DEF Resolve, Refusals
<1>3. CASE run[w].op = "new" /\ ~Exists
  <2>1. /\ run'[w] = [run[w] EXCEPT !.pc = "replace", !.new = Created(w),
                        !.checked = clock]
        /\ run[w] \in Runs /\ clock \in Nat
        /\ \A v \in Writers \ {w} : run'[v] = run[v]
        /\ report' = report
    BY <1>3 DEF Inv, TypeOK, Resolve
  <2>2. /\ run'[w].pc = "replace" /\ run'[w].op = "new"
        /\ run'[w].engine = run[w].engine /\ run'[w].new = Created(w)
        /\ run'[w].found = run[w].found
        /\ run'[w].sig = run[w].sig /\ run'[w].based = run[w].based
        /\ run'[w].checked = clock
    BY <1>3, <2>1 DEF Runs
  <2>3. Sound(w) /\ ~run[w].found
    BY <1>3 DEF Inv, Sound, Roles
  <2>4. Silent(w)' /\ Roles(w)' /\ Past(w)'
    BY <1>1, <1>3, <2>1, <2>2, <2>3 DEF Sound, Silent, Roles, Finding, Past
  <2>5. Fed(w)'
    BY <2>2, CreatedType DEF Fed, Composed, Carries
  <2>6. Guarded(w)' /\ Checked(w)' /\ Aimed(w)'
    BY <1>1, <1>3, <2>2, <2>3 DEF Guarded, Checked, Aimed, Exists
  <2> QED
    BY <1>1, <2>1, <2>4, <2>5, <2>6, Alone DEF Sound
<1>4. CASE run[w].op # "new" /\ Exists
  BY <1>1, <1>4, GotoKeeps DEF Resolve
<1>5. CASE run[w].op # "new" /\ ~Exists
  BY <1>1, <1>5, RefuseKeeps DEF Resolve, Refusals
<1> QED
  BY <1>2, <1>3, <1>4, <1>5

LEMMA TakeSigKeeps ==
  ASSUME Inv, TypeOK', NEW w \in Writers, TakeSig(w)
  PROVE  Inv'
<1>1. /\ run[w].pc = "sig" /\ w \notin hist.barred
      /\ UNCHANGED <<file, clock, pending, hist>>
  BY DEF TakeSig, Ready, Others, Inv, Barred
<1>2. CASE run[w].engine = "native" /\ ~Exists
  BY <1>1, <1>2, FallbackKeeps DEF TakeSig
<1>3. CASE ~(run[w].engine = "native" /\ ~Exists)
  <2>1. /\ run' = [run EXCEPT
             ![w].sig = IF @ = NoSig THEN CurrentSig ELSE @,
             ![w].blind = @ \/ ~Exists,
             ![w].pc = IF Finding(w) THEN "find" ELSE "read"]
        /\ report' = report
    BY <1>3 DEF TakeSig
  <2>2. run \in [Writers -> Runs] /\ run[w] \in Runs
    BY DEF Inv, TypeOK
  <2>3. /\ run'[w] = [run[w] EXCEPT
               !.sig = IF @ = NoSig THEN CurrentSig ELSE @,
               !.blind = @ \/ ~Exists,
               !.pc = IF Finding(w) THEN "find" ELSE "read"]
        /\ \A v \in Writers \ {w} : run'[v] = run[v]
    BY <2>1, <2>2
  <2>4. /\ run'[w].pc = IF Finding(w) THEN "find" ELSE "read"
        /\ run'[w].sig = IF run[w].sig = NoSig THEN CurrentSig ELSE run[w].sig
        /\ run'[w].blind = (run[w].blind \/ ~Exists)
        /\ run'[w].op = run[w].op /\ run'[w].id = run[w].id
        /\ run'[w].aim = run[w].aim /\ run'[w].engine = run[w].engine
        /\ run'[w].found = run[w].found /\ run'[w].body = run[w].body
        /\ run'[w].based = run[w].based /\ run'[w].checked = run[w].checked
    BY <2>2, <2>3 DEF Runs
  <2>5. Sound(w) /\ clock \in Nat /\ file.sig \in Nat /\ file.sig <= clock
    BY DEF Inv, TypeOK, Signed
  <2>6. Silent(w)' /\ Fed(w)' /\ Roles(w)' /\ Checked(w)'
    BY <1>1, <2>1, <2>4, <2>5 DEF Sound, Silent, Fed, Composed, Roles, Finding,
      Checked
  <2>7. Past(w)' /\ Guarded(w)'
    BY <1>1, <2>4, <2>5, SignatureAssumption
    DEF Sound, Past, Guarded, Composed, CurrentSig
  <2>8. Aimed(w)'
    BY <1>1, <2>4, <2>5 DEF Sound, Aimed, Composed, Matches
  <2> QED
    BY <1>1, <2>1, <2>3, <2>6, <2>7, <2>8, Alone DEF Sound
<1> QED
  BY <1>2, <1>3

\* The section found has the title that was asked for, or there is not one.
LEMMA FindSectionKeeps ==
  ASSUME Inv, TypeOK', NEW w \in Writers, FindSection(w)
  PROVE  Inv'
<1> DEFINE hits == IF Exists THEN Matches(file.text, run[w].id, run[w].aim) ELSE {}
           id == IF Cardinality(hits) = 1 THEN CHOOSE i \in hits : TRUE ELSE run[w].id
<1>1. /\ run[w].pc = "find" /\ w \notin hist.barred
      /\ UNCHANGED <<file, clock, pending, hist>>
      /\ run[w].op = "append3" /\ ~run[w].found /\ run[w].id = 0
      /\ run[w].engine = "python"
  BY DEF FindSection, Ready, Others, Inv, Barred, Sound, Roles, Finding
<1>2. CASE hits = {}
  BY <1>1, <1>2, EndKeeps DEF FindSection, Refusals
<1>3. CASE hits # {}
  <2>1. /\ run' = [run EXCEPT ![w].found = TRUE, ![w].pc = "gate",
                     ![w].id = IF Cardinality(hits) = 1
                               THEN CHOOSE i \in hits : TRUE ELSE @,
                     ![w].based = clock]
        /\ report' = report
    BY <1>3 DEF FindSection
  <2>2. run \in [Writers -> Runs] /\ run[w] \in Runs /\ clock \in Nat
    BY DEF Inv, TypeOK
  <2>3. /\ Exists /\ hits = Matches(file.text, 0, run[w].aim)
        /\ file.text \in Texts
    BY <1>1, <1>3 DEF Inv, TypeOK, Exists
  <2> HIDE DEF hits
  <2>4. /\ run'[w] = [run[w] EXCEPT !.found = TRUE, !.pc = "gate",
                        !.id = id, !.based = clock]
        /\ \A v \in Writers \ {w} : run'[v] = run[v]
    BY <2>1, <2>2
  <2> HIDE DEF id
  <2>5. /\ run'[w].pc = "gate" /\ run'[w].found = TRUE /\ run'[w].id = id
        /\ run'[w].based = clock
        /\ run'[w].op = run[w].op /\ run'[w].aim = run[w].aim
        /\ run'[w].engine = run[w].engine /\ run'[w].body = run[w].body
        /\ run'[w].sig = run[w].sig /\ run'[w].blind = run[w].blind
        /\ run'[w].checked = run[w].checked
    BY <2>2, <2>4 DEF Runs
  <2>6. Sound(w)
    BY DEF Inv
  <2>7. Silent(w)' /\ Fed(w)' /\ Roles(w)' /\ Checked(w)'
    BY <1>1, <2>1, <2>5, <2>6 DEF Sound, Silent, Fed, Composed, Roles, Finding,
      Checked
  <2>8. Past(w)' /\ Guarded(w)'
    BY <1>1, <2>2, <2>5, <2>6 DEF Sound, Past, Guarded, Composed
  <2>9. Aimed(w)'
    <3>1. CASE Cardinality(hits) = 1
      <4>1. id \in hits
        BY <1>3, <3>1 DEF id
      <4>2. /\ id \in DOMAIN file.text.secs
            /\ file.text.secs[id].title = run[w].aim
        BY <2>3, <4>1 DEF Matches
      <4>3. id # 0
        BY <2>3, <4>2 DEF Texts
      <4> QED
        BY <1>1, <2>5, <4>2, <4>3 DEF Aimed, Composed
    <3>2. CASE Cardinality(hits) # 1
      <4>1. id = 0
        BY <1>1, <3>2 DEF id
      <4>2. Matches(file.text, 0, run[w].aim)'
              = Matches(file.text, 0, run[w].aim)
        BY <1>1, <2>5 DEF Matches
      <4> QED
        BY <1>1, <2>3, <2>5, <3>2, <4>1, <4>2 DEF Aimed, Composed
    <3> QED
      BY <3>1, <3>2
  <2> QED
    BY <1>1, <2>1, <2>4, <2>7, <2>8, <2>9, Alone DEF Sound
<1> QED
  BY <1>2, <1>3

LEMMA CheckSignatureKeeps ==
  ASSUME Inv, TypeOK', NEW w \in Writers, CheckSignature(w)
  PROVE  Inv'
<1>1. /\ run[w].pc = "check" /\ w \notin hist.barred
      /\ UNCHANGED <<file, clock, pending, hist>>
  BY DEF CheckSignature, Ready, Others, Inv, Barred
<1>2. CASE ~Unmoved(w)
  BY <1>1, <1>2, RefuseKeeps DEF CheckSignature, Refusals
<1>3. CASE Unmoved(w)
  <2>1. /\ run' = [run EXCEPT ![w].pc = "replace", ![w].checked = clock]
        /\ report' = report
    BY <1>3 DEF CheckSignature
  <2>2. run \in [Writers -> Runs] /\ run[w] \in Runs /\ clock \in Nat
    BY DEF Inv, TypeOK
  <2>3. /\ run'[w] = [run[w] EXCEPT !.pc = "replace", !.checked = clock]
        /\ \A v \in Writers \ {w} : run'[v] = run[v]
    BY <2>1, <2>2
  <2>4. /\ run'[w].pc = "replace" /\ run'[w].checked = clock
        /\ run'[w].op = run[w].op /\ run'[w].id = run[w].id
        /\ run'[w].aim = run[w].aim /\ run'[w].engine = run[w].engine
        /\ run'[w].found = run[w].found /\ run'[w].body = run[w].body
        /\ run'[w].sig = run[w].sig /\ run'[w].based = run[w].based
        /\ run'[w].blind = run[w].blind /\ run'[w].new = run[w].new
        /\ run'[w].seen = run[w].seen
    BY <2>2, <2>3 DEF Runs
  <2>5. Sound(w)
    BY DEF Inv
  <2>6. Silent(w)' /\ Fed(w)' /\ Roles(w)'
    BY <1>1, <2>1, <2>4, <2>5 DEF Sound, Silent, Fed, Composed, Roles, Finding,
      Carries
  <2>7. Past(w)' /\ Guarded(w)'
    BY <1>1, <2>2, <2>4, <2>5 DEF Sound, Past, Guarded, Composed
  <2>8. Aimed(w)'
    BY <1>1, <2>4, <2>5 DEF Sound, Aimed, Composed, Matches
  <2>9. Checked(w)'
    <3>1. run[w].op # "new"
      BY <1>1, <2>5 DEF Sound, Roles
    <3>2. ASSUME ~run[w].blind PROVE Indistinct(w)
      <4>1. run[w].sig # NoSig /\ run[w].sig <= run[w].based
        BY <1>1, <2>5, <3>1, <3>2 DEF Sound, Guarded, Composed
      <4>2. file.sig = run[w].sig
        BY <1>3, <4>1 DEF Unmoved, CurrentSig
      <4>3. /\ file.sig \in Nat /\ run[w].based \in Nat
            /\ (file.sig + 1) .. clock \subseteq hist.coarse
        BY <2>2 DEF Inv, TypeOK, Signed, Runs
      <4>4. (run[w].based + 1) .. clock \subseteq (file.sig + 1) .. clock
        BY <2>2, <4>1, <4>2, <4>3
      <4> QED
        BY <4>3, <4>4 DEF Indistinct
    <3> QED
      BY <1>1, <2>4, <3>1, <3>2 DEF Checked, Indistinct
  <2> QED
    BY <1>1, <2>1, <2>3, <2>6, <2>7, <2>8, <2>9, Alone DEF Sound
<1> QED
  BY <1>2, <1>3

\* A text made of a section that is as reviewed is meant for it.
LEMMA ReadKeeps ==
  ASSUME Inv, TypeOK', NEW w \in Writers, Read(w)
  PROVE  Inv'
<1> DEFINE hits == IF ~Exists THEN {} ELSE
                   IF InSection(w) THEN Matches(file.text, run[w].id, run[w].aim)
                   ELSE {Len(file.text.secs)}
<1>1. /\ run[w].pc = "read" /\ w \notin hist.barred
      /\ UNCHANGED <<file, clock, pending, hist>>
  BY DEF Read, Ready, Others, Inv, Barred
<1>2. CASE Cardinality(hits) # 1
  <2>1. (IF Exists THEN Miss(hits) ELSE "error") \in Refusals
    BY DEF Miss, Refusals
  <2>2. Refuse(w, IF Exists THEN Miss(hits) ELSE "error")
    BY <1>2 DEF Read
  <2> QED
    BY <1>1, <2>1, <2>2, RefuseKeeps
<1>3. CASE Cardinality(hits) = 1
  <2>1. PICK i \in hits :
          IF Stale(w, i) THEN Refuse(w, "stale")
          ELSE /\ run' = [run EXCEPT ![w].pc = "check",
                    ![w].new = Edited(w, file.text, i),
                    ![w].body = @ /\ run[w].op # "patch",
                    ![w].based = IF run[w].found THEN @ ELSE clock]
               /\ UNCHANGED report
    BY <1>3 DEF Read
  <2>2. CASE Stale(w, i)
    BY <1>1, <2>1, <2>2, RefuseKeeps DEF Refusals
  <2>3. CASE ~Stale(w, i)
    <3> DEFINE new == Edited(w, file.text, i)
    <3>1. run \in [Writers -> Runs] /\ run[w] \in Runs /\ clock \in Nat /\ TypeOK
      BY DEF Inv, TypeOK
    <3>2. Sound(w) /\ HasSections
      BY DEF Inv
    <3>3. /\ Exists /\ file.text \in Texts /\ i \in DOMAIN file.text.secs
          /\ run[w].op = "append" => i = Len(file.text.secs)
      BY <2>1, <3>1, <3>2, HitType
    <3>4. Carries(w, new) /\ new.secs # <<>>
      BY <1>1, <3>1, <3>2, <3>3, EditedCarries DEF Sound, Fed, Composed
    <3>5. /\ run' = [run EXCEPT ![w].pc = "check", ![w].new = new,
                       ![w].body = @ /\ run[w].op # "patch",
                       ![w].based = IF run[w].found THEN @ ELSE clock]
          /\ report' = report
      BY <2>1, <2>3
    <3> HIDE DEF new
    <3>6. /\ run'[w] = [run[w] EXCEPT !.pc = "check", !.new = new,
                          !.body = @ /\ run[w].op # "patch",
                          !.based = IF run[w].found THEN @ ELSE clock]
          /\ \A v \in Writers \ {w} : run'[v] = run[v]
      BY <3>1, <3>5
    <3>7. /\ run'[w].pc = "check" /\ run'[w].new = new
          /\ run'[w].based = IF run[w].found THEN run[w].based ELSE clock
          /\ run'[w].op = run[w].op /\ run'[w].id = run[w].id
          /\ run'[w].aim = run[w].aim /\ run'[w].engine = run[w].engine
          /\ run'[w].found = run[w].found /\ run'[w].sig = run[w].sig
          /\ run'[w].blind = run[w].blind /\ run'[w].seen = run[w].seen
          /\ run'[w].checked = run[w].checked
      BY <3>1, <3>6 DEF Runs
    <3>8. Silent(w)' /\ Fed(w)' /\ Roles(w)' /\ Checked(w)'
      BY <1>1, <3>2, <3>4, <3>5, <3>7
      DEF Sound, Silent, Fed, Composed, Roles, Finding, Checked, Carries
    <3>9. Past(w)' /\ Guarded(w)'
      BY <1>1, <3>1, <3>2, <3>7 DEF Sound, Past, Guarded, Composed, Roles
    <3>10. Aimed(w)'
      <4>1. Matches(file.text, run[w].id, run[w].aim)'
              = Matches(file.text, run[w].id, run[w].aim)
        BY <1>1, <3>7 DEF Matches
      <4>2. ASSUME InSection(w)
            PROVE  /\ Cardinality(Matches(file.text, run[w].id, run[w].aim)) = 1
                   /\ i \in Matches(file.text, run[w].id, run[w].aim)
                   /\ Matches(file.text, run[w].id, run[w].aim) = {i}
        <5>1. hits = Matches(file.text, run[w].id, run[w].aim)
          BY <3>3, <4>2
        <5>2. IsFiniteSet(hits)
          <6>1. DOMAIN file.text.secs = 1 .. Len(file.text.secs)
                /\ Len(file.text.secs) \in Nat
            BY <3>3 DEF Texts
          <6>2. hits \subseteq 1 .. Len(file.text.secs)
            BY <5>1, <6>1 DEF Matches
          <6>3. IsFiniteSet(1 .. Len(file.text.secs))
            BY <6>1, FS_Interval
          <6> HIDE DEF hits
          <6> QED
            BY <6>2, <6>3, FS_Subset
        <5>3. \E x : hits = {x}
          BY <1>3, <5>2, FS_Singleton
        <5> HIDE DEF hits
        <5> QED
          BY <1>3, <2>1, <5>1, <5>3
      <4>3. ASSUME run[w].op = "patch"
            PROVE  /\ Matches(file.text, run[w].id, run[w].aim) = {i}
                   /\ file.text.secs[i] = run[w].seen
        BY <2>3, <4>2, <4>3 DEF InSection, Stale
      <4>4. ASSUME run[w].found, run[w].id = 0
            PROVE  run'[w].based # clock
        <5>1. run[w].op = "append3"
          BY <3>2, <4>4 DEF Sound, Roles
        <5>2. Cardinality(Matches(file.text, 0, run[w].aim)) = 1
          BY <4>2, <4>4, <5>1 DEF InSection
        <5> QED
          BY <3>2, <3>7, <4>4, <5>2 DEF Sound, Aimed
      <4>5. ASSUME run[w].found, run[w].id # 0, run'[w].based = clock
            PROVE  /\ run[w].id \in DOMAIN file.text.secs
                   /\ file.text.secs[run[w].id].title = run[w].aim
        BY <3>2, <3>7, <4>5 DEF Sound, Aimed
      <4>6. (run[w].op = "patch" /\ Composed(w)')
              => \E k \in Matches(file.text, run[w].id, run[w].aim)' :
                   /\ Matches(file.text, run[w].id, run[w].aim)' = {k}
                   /\ file'.text.secs[k] = run'[w].seen
        BY <1>1, <3>7, <4>1, <4>3
      <4> QED
        BY <1>1, <3>7, <4>4, <4>5, <4>6 DEF Aimed
    <3> QED
      BY <1>1, <3>1, <3>5, <3>6, <3>8, <3>9, <3>10, Alone DEF Sound
  <2> QED
    BY <2>2, <2>3
<1> QED
  BY <1>2, <1>3

\* The note is the text that was made, and is reported once.
LEMMA ReplaceKeeps ==
  ASSUME Inv, TypeOK', NEW w \in Writers, Replace(w)
  PROVE  Inv'
<1>1. TypeOK /\ clock' \in Nat /\ Sound(w) /\ run[w].pc = "replace"
  BY DEF Inv, TypeOK, Replace, Ready
<1>2. /\ Sound(w)' /\ run'[w].pc = "ended" /\ report'[w] = "ok"
      /\ \A v \in Writers \ {w} : run'[v] = run[v] /\ report'[v] = report[v]
  BY <1>1, EndSound DEF Replace
<1>3. Carries(w, run[w].new) = TRUE /\ run[w].new.secs # <<>> /\ hist.put[w] = <<>>
  <2>1. report[w] = "none"
    BY <1>1 DEF Sound, Silent
  <2> QED
    BY <1>1, <2>1 DEF Sound, Fed, Composed, Inv, ExactlyOnce, Carries
<1> DEFINE h == [hist EXCEPT !.put[w] = Append(@, Carries(w, run[w].new))]
<1>4. /\ h \in Histories /\ h.coarse = hist.coarse /\ h.barred = hist.barred
      /\ h.put = [hist.put EXCEPT ![w] = <<TRUE>>]
  <2>1. hist \in Histories /\ hist.put \in [Writers -> Seq(BOOLEAN)]
    BY <1>1 DEF TypeOK, Histories
  <2>2. Append(hist.put[w], Carries(w, run[w].new)) = <<TRUE>>
    <3>1. Append(<<>>, TRUE) = <<TRUE>>
      OBVIOUS
    <3> QED
      BY <1>3, <3>1, Zenon
  <2>3. h = [hist EXCEPT !.put = [hist.put EXCEPT ![w] = <<TRUE>>]]
    BY <2>1, <2>2
  <2>4. <<TRUE>> \in Seq(BOOLEAN)
    OBVIOUS
  <2> HIDE DEF h
  <2> QED
    BY <2>1, <2>3, <2>4 DEF Histories
<1>5. hist' = Seen(h)
  BY DEF Replace
<1> HIDE DEF h
<1>6. /\ hist'.coarse = IF file'.sig = file.sig THEN hist.coarse \cup {clock + 1}
                        ELSE hist.coarse
      /\ hist'.put = [hist.put EXCEPT ![w] = <<TRUE>>]
      /\ hist'.barred = hist.barred
  BY <1>1, <1>4, <1>5, SeenCoarse
<1>7. Signed' /\ clock' = clock + 1 /\ hist.coarse \subseteq hist'.coarse
  BY <1>1, <1>6, ChangeSigned DEF Replace, Inv
<1>8. HasSections'
  BY <1>3 DEF Replace, Change, HasSections
<1>9. Barred'
  <2>1. hist.barred \subseteq Writers /\ pending' = pending
    BY <1>1 DEF TypeOK, Histories, Replace
  <2> QED
    BY <1>1, <1>2, <1>6, <2>1 DEF Inv, Barred
<1>10. ExactlyOnce'
  <2>1. \A v \in Writers \ {w} : hist'.put[v] = hist.put[v]
    BY <1>1, <1>6 DEF TypeOK, Histories
  <2>2. hist'.put[w] = <<TRUE>>
    BY <1>1, <1>6 DEF TypeOK, Histories
  <2> QED
    BY <1>2, <2>1, <2>2 DEF Inv, ExactlyOnce
<1>11. ASSUME NEW v \in Writers PROVE Sound(v)'
  BY <1>1, <1>2, <1>7, StillSound DEF Inv
<1> QED
  BY <1>7, <1>8, <1>9, <1>10, <1>11 DEF Inv

\* The journals come and go.
LEMMA JournalKeeps ==
  ASSUME Inv, TypeOK', JournalAppears \/ JournalGoes
  PROVE  Inv'
<1>1. /\ UNCHANGED <<file, clock, run, report>> /\ TypeOK
      /\ hist'.put = hist.put /\ hist'.coarse = hist.coarse
  BY DEF JournalAppears, JournalGoes, Inv, TypeOK, Histories
<1>2. HasSections' /\ Signed' /\ ExactlyOnce'
  BY <1>1 DEF Inv, HasSections, Exists, Signed, ExactlyOnce
<1>3. Barred'
  BY <1>1 DEF JournalAppears, JournalGoes, Inv, Barred, TypeOK, Histories
<1>4. ASSUME NEW w \in Writers PROVE Sound(w)'
  BY <1>1, StillSound DEF Inv
<1> QED
  BY <1>2, <1>3, <1>4 DEF Inv

\* Whoever else writes, with a section in what is written.
LEMMA EditorKeeps ==
  ASSUME Inv, TypeOK', Editor
  PROVE  Inv'
<1>1. TypeOK /\ Signed /\ hist \in Histories
  BY DEF Inv, TypeOK
<1>2. UNCHANGED <<run, report, pending>>
  BY DEF Editor, EditorSaves, EditorDeletes, EditorCreates
<1>3. /\ Signed' /\ clock' = clock + 1 /\ HasSections'
      /\ hist.coarse \subseteq hist'.coarse
      /\ hist'.put = hist.put /\ hist'.barred = hist.barred
  <2>1. CASE EditorSaves
    <3>1. PICK text \in Saved(file.text, saves + 1) : Change(text, SomeSig)
      BY <2>1 DEF EditorSaves
    <3>2. saves + 1 \in 1 .. MaxSaves
      BY <1>1, <2>1, BoundsAssumption DEF EditorSaves, TypeOK
    <3>3. file.text \in Texts /\ file.text.secs # <<>>
      BY <1>1, <2>1 DEF EditorSaves, TypeOK, Exists, Inv, HasSections
    <3>4. text.secs # <<>>
      BY <3>1, <3>2, <3>3, SavedType
    <3>5. HasSections'
      BY <3>1, <3>4 DEF Change, HasSections
    <3>6. /\ hist'.put = hist.put /\ hist'.barred = hist.barred
          /\ hist'.coarse = IF file'.sig = file.sig
                            THEN hist.coarse \cup {clock + 1} ELSE hist.coarse
      BY <1>1, <2>1, SeenCoarse DEF EditorSaves
    <3> QED
      BY <1>1, <3>1, <3>5, <3>6, ChangeSigned
  <2>2. CASE EditorDeletes
    <3>1. Change(Absent, Fresh) /\ hist' = hist
      BY <2>2 DEF EditorDeletes
    <3>2. HasSections'
      BY <3>1 DEF Change, HasSections, Exists
    <3> QED
      BY <1>1, <3>1, <3>2, FreshSigned
  <2>3. CASE EditorCreates
    <3> DEFINE text == [NoText EXCEPT !.secs =
                          <<[NoSection EXCEPT !.words = {saves + 1}]>>]
    <3>1. Change(text, Fresh) /\ hist' = hist
      BY <2>3 DEF EditorCreates
    <3>2. text.secs # <<>>
      BY DEF NoText
    <3> HIDE DEF text
    <3>3. HasSections'
      BY <3>1, <3>2 DEF Change, HasSections
    <3> QED
      BY <1>1, <3>1, <3>3, FreshSigned
  <2> QED
    BY <2>1, <2>2, <2>3 DEF Editor
<1>4. Barred' /\ ExactlyOnce'
  BY <1>2, <1>3 DEF Inv, Barred, ExactlyOnce
<1>5. ASSUME NEW w \in Writers PROVE Sound(w)'
  BY <1>1, <1>2, <1>3, StillSound DEF Inv
<1> QED
  BY <1>3, <1>4, <1>5 DEF Inv

LEMMA NextInv == Inv /\ [Next]_vars => Inv'
<1> SUFFICES ASSUME Inv, [Next]_vars PROVE Inv'
  OBVIOUS
<1>0. TypeOK'
  BY NextType DEF Inv
<1>1. ASSUME NEW w \in Writers, NEW op \in Ops,
             NEW engine \in {"native", "python"}, NEW t \in Titles, NEW i \in Ids,
             Invoke(w, op, engine, t, i)
      PROVE  Inv'
  BY <1>0, <1>1, InvokeKeeps
<1>2. ASSUME NEW w \in Writers, DirtyGate(w) PROVE Inv'
  <2>1. UNCHANGED <<file, clock, pending, hist>> /\ run[w].pc = "gate"
    BY <1>2 DEF DirtyGate, Others, Ready
  <2>2. CASE pending
    BY <1>0, <1>2, <2>1, <2>2, RefuseKeeps DEF DirtyGate, Refusals
  <2>3. CASE ~pending
    <3>1. w \notin hist.barred
      BY <2>3 DEF Inv, Barred
    <3> QED
      BY <1>0, <1>2, <2>1, <2>3, <3>1, GotoKeeps DEF DirtyGate
  <2> QED
    BY <2>2, <2>3
<1>3. ASSUME NEW w \in Writers, Resolve(w) PROVE Inv'
  BY <1>0, <1>3, ResolveKeeps
<1>4. ASSUME NEW w \in Writers, TakeSig(w) PROVE Inv'
  BY <1>0, <1>4, TakeSigKeeps
<1>5. ASSUME NEW w \in Writers, FindSection(w) PROVE Inv'
  BY <1>0, <1>5, FindSectionKeeps
<1>6. ASSUME NEW w \in Writers, Read(w) PROVE Inv'
  BY <1>0, <1>6, ReadKeeps
<1>7. ASSUME NEW w \in Writers, CheckSignature(w) PROVE Inv'
  BY <1>0, <1>7, CheckSignatureKeeps
<1>8. ASSUME NEW w \in Writers, Replace(w) PROVE Inv'
  BY <1>0, <1>8, ReplaceKeeps
<1>9. ASSUME NEW w \in Writers, ReplaceFails(w) PROVE Inv'
  <2>1. UNCHANGED <<file, clock, pending, hist>> /\ run[w].pc # "ended"
    BY <1>9 DEF ReplaceFails, Others, Ready
  <2> QED
    BY <1>0, <1>9, <2>1, RefuseKeeps DEF ReplaceFails, Refusals
<1>10. CASE JournalAppears \/ JournalGoes
  BY <1>0, <1>10, JournalKeeps
<1>11. CASE Editor
  BY <1>0, <1>11, EditorKeeps
<1>12. CASE UNCHANGED vars
  <2>1. ASSUME NEW w \in Writers PROVE Sound(w)'
    BY <1>12, StillSound DEF vars, Inv
  <2>2. HasSections' /\ Signed' /\ Barred' /\ ExactlyOnce'
    BY <1>12 DEF vars, Inv, HasSections, Exists, Signed, Barred, ExactlyOnce
  <2> QED
    BY <1>0, <2>1, <2>2 DEF Inv
<1> QED
  BY <1>1, <1>2, <1>3, <1>4, <1>5, <1>6, <1>7, <1>8, <1>9, <1>10, <1>11, <1>12
  DEF Next, Command

\* The invariant of the single-note writers.
THEOREM Inductive == Spec => []Inv
<1> QED
  BY InitInv, NextInv, PTL DEF Spec

\* Every variable keeps its type.
THEOREM TypeCorrect == Spec => []TypeOK
<1>1. Inv => TypeOK
  BY DEF Inv
<1> QED
  BY <1>1, Inductive, PTL

\* Whatever the hand-overs between the engines, a command writes what it was
\* given once if it reports success and never otherwise.
THEOREM WrittenOnce == Spec => []ExactlyOnce
<1>1. Inv => ExactlyOnce
  BY DEF Inv
<1> QED
  BY <1>1, Inductive, PTL

-----------------------------------------------------------------------------
(* The action properties.                                                  *)

\* No command invoked while a journal was pending replaces a note before the
\* journal is gone, in either engine.
THEOREM PendingStops == Spec => PendingJournalStops
<1>1. Inv /\ [Next]_vars =>
        [\A w \in Writers : Replaces(w) => w \notin hist.barred]_vars
  BY DEF Inv, Barred, Replaces, Ready
<1> QED
  BY <1>1, Inductive, PTL DEF Spec, PendingJournalStops

\* With the check and os.replace in one piece, and changes that the signature
\* can tell, a guarded command overwrites what it has read and nothing else.
THEOREM NothingLost == Spec => OverwritesOnlyWhatWasRead
<1>1. Inv =>
        [\A w \in Writers :
           (Replaces(w) /\ InTime(w) /\ ~run[w].blind)
             => IF run[w].op = "new" THEN ~Exists ELSE Indistinct(w)]_vars
  BY DEF Inv, Sound, Checked, Replaces, Ready
<1> QED
  BY <1>1, Inductive, PTL DEF OverwritesOnlyWhatWasRead

\* patch replaces the section that was reviewed and append NOTE SEC TEXT
\* writes under the heading that was named, however sections have moved.
THEOREM AimHeld == Spec => WritesWhereMeant
<1>1. ASSUME Inv, NEW w \in Writers, Replaces(w), InTime(w),
             hist.coarse = {}, ~run[w].blind
      PROVE  LET hits == Matches(file.text, run[w].id, run[w].aim) IN
             /\ run[w].op = "patch" =>
                  \E i \in hits : hits = {i} /\ file.text.secs[i] = run[w].seen
             /\ run[w].op = "append3" =>
                  \E i \in hits :
                     hits = {i} /\ file.text.secs[i].title = run[w].aim
  <2>1. /\ run[w].pc = "replace" /\ run[w].based \in Nat /\ clock \in Nat
        /\ Sound(w)
    BY <1>1 DEF Replaces, Ready, Inv, TypeOK, Runs
  <2>2. CASE run[w].op \in {"patch", "append3"}
    <3>1. run[w].based = clock
      <4>1. (run[w].based + 1) .. clock = {}
        BY <1>1, <2>1, <2>2 DEF Sound, Checked, Indistinct
      <4>2. run[w].based <= clock
        BY <2>1 DEF Sound, Past
      <4> QED
        BY <2>1, <4>1, <4>2
    <3>2. CASE run[w].op = "patch"
      BY <2>1, <3>1, <3>2 DEF Sound, Aimed, Composed
    <3>3. CASE run[w].op = "append3"
      <4>1. run[w].found
        BY <2>1, <3>3 DEF Sound, Roles, Finding
      <4>2. /\ run[w].id # 0 /\ run[w].id \in DOMAIN file.text.secs
            /\ file.text.secs[run[w].id].title = run[w].aim
        BY <2>1, <3>1, <4>1 DEF Sound, Aimed, Composed
      <4>3. Matches(file.text, run[w].id, run[w].aim) = {run[w].id}
        BY <4>2 DEF Matches
      <4> QED
        BY <3>3, <4>2, <4>3
    <3> QED
      BY <2>2, <3>2, <3>3
  <2>3. CASE run[w].op \notin {"patch", "append3"}
    BY <2>3
  <2> QED
    BY <2>2, <2>3
<1>2. Inv =>
        [\A w \in Writers :
           (Replaces(w) /\ InTime(w) /\ hist.coarse = {} /\ ~run[w].blind)
             => LET hits == Matches(file.text, run[w].id, run[w].aim) IN
                /\ run[w].op = "patch" =>
                     \E i \in hits : hits = {i} /\ file.text.secs[i] = run[w].seen
                /\ run[w].op = "append3" =>
                     \E i \in hits :
                        hits = {i} /\ file.text.secs[i].title = run[w].aim]_vars
  BY <1>1, Zenon
<1> QED
  BY <1>2, Inductive, PTL DEF WritesWhereMeant

=============================================================================
