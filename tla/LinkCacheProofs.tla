--------------------------- MODULE LinkCacheProofs ---------------------------
(***************************************************************************)
(* Proofs about the link caches: for every vault, any number of processes  *)
(* of which some die, and any machine crashes, a row that is believed      *)
(* without a look at the note is right, and a command answers with what    *)
(* the notes were while it ran.                                            *)
(***************************************************************************)
EXTENDS LinkCache, FiniteSetTheorems, TLAPS

-----------------------------------------------------------------------------
(* The inductive invariant.                                                *)

\* Time goes on: nothing is from the future.
Dated ==
  /\ \A n \in Notes : Exists(n) => note[n].sig[1] <= now
  /\ \A i \in 0 .. MaxRuns : dbs[i].stamp <= now /\ inode[i].stamp <= now
  /\ \A p \in Procs : /\ proc[p].base.stamp <= now
                      /\ proc[p].stamp <= now /\ proc[p].began <= now

\* Every process that quarantines a database was started for it.
Busy == {p \in Procs : Running(p)}
Counted == IsFiniteSet(Busy) /\ cur + Cardinality(Busy) <= runs

\* What a process has looked at.
Looked(p) ==
  /\ engine = "native" => proc[p].scope = Notes
  /\ proc[p].pc \in {"write", "rename"} => engine = "native"
  /\ proc[p].todo \subseteq proc[p].scope
  /\ proc[p].changed \subseteq proc[p].scope
  /\ proc[p].pc = "hash" => \A n \in proc[p].todo : proc[p].base.row[n] # Absent
  /\ proc[p].pc = "read" =>
       proc[p].todo \subseteq {n \in proc[p].changed : proc[p].walk[n] # Absent}

Opening == {"drop", "create", "version", "stamp"}
Starting == Opening \cup {"walk"}

\* While it runs it has been told of every edit; a note it did not find was
\* not there.
Told(p) ==
  \A n \in Notes :
    /\ TextIn(note[n]) \in proc[p].since[n]
    /\ n \in proc[p].scope /\ (proc[p].pc \in Starting => n \notin proc[p].todo)
         /\ proc[p].walk[n] = Absent
         => Absent \in proc[p].since[n]

Seen(p, n, r) == TextIn(r) \in proc[p].since[n]

\* A row older than limit is not wrong: where its signature is that of the
\* note, so is its text; and where a process has met its signature, its text
\* is one the note has had since that process began.
Good(r, n, limit, notes, procs) ==
  r # Absent /\ r.sig[1] < limit =>
    /\ notes[n] # Absent /\ r.sig = notes[n].sig => r.text = notes[n].text
    /\ \A p \in Procs :
         procs[p].pc # "idle" /\ procs[p].walk[n] = r.sig
           => r.text \in procs[p].since[n]

GoodCache(c, stamp) ==
  \A n \in Notes : Good(c.row[n], n, stamp - Slop, note, proc)

\* Whatever a command may open next, or holds open, is good.
GoodCaches ==
  \A i \in 0 .. MaxRuns :
    /\ inode[i].whole => GoodCache(inode[i], inode[i].stamp)
    /\ GoodCache(dbs[i], dbs[i].stamp)

\* Also by the stamp a process has read, which may not be the last.
Ahead(p) ==
  engine = "python" /\ proc[p].pc \in {"walk", "load"} =>
    GoodCache(dbs[proc[p].id], proc[p].base.stamp)

\* A row of the database that is no longer the one a process has read was
\* committed by another one.
Followed(p) ==
  engine = "python" /\ proc[p].pc \in {"hash", "read"} =>
    \A n \in Notes :
      LET r == dbs[proc[p].id].row[n] IN
      \/ r = proc[p].base.row[n]
      \/ /\ Good(r, n, proc[p].stamp - Slop, note, proc)
         /\ Seen(p, n, r) \/ n \in proc[p].overtaken

\* The rows a process keeps, and those it has read.
Kept(p) ==
  proc[p].pc \in {"hash", "read"} =>
    \A n \in proc[p].scope \ (proc[p].todo \cup proc[p].changed) :
      LET r == proc[p].base.row[n] IN
        Good(r, n, proc[p].began, note, proc) /\ Seen(p, n, r)
Fetched(p) ==
  proc[p].pc = "read" =>
    /\ \A n \in proc[p].changed \ proc[p].todo :
         /\ Good(proc[p].fresh[n], n, proc[p].began, note, proc)
         /\ Seen(p, n, proc[p].fresh[n])
    /\ \A n \in Notes \ proc[p].changed : proc[p].fresh[n] = proc[p].base.row[n]
Composed(p) ==
  /\ proc[p].pc = "write" =>
       \A n \in Notes :
         Good(proc[p].fresh[n], n, proc[p].stamp - Slop, note, proc)
  /\ proc[p].pc \in {"write", "rename"} =>
       \A n \in Notes : Seen(p, n, proc[p].fresh[n])

\* What it is about to answer.
Answering(p) ==
  proc[p].pc = "query" =>
    \A n \in proc[p].scope :
      IF engine = "native" THEN Seen(p, n, proc[p].base.row[n])
      ELSE Seen(p, n, dbs[proc[p].id].row[n]) \/ n \in proc[p].overtaken

Answered(p) == proc[p].wrong \subseteq proc[p].overtaken

Honest(p) == Ahead(p) /\ Followed(p) /\ Kept(p) /\ Fetched(p)
               /\ Composed(p) /\ Answering(p) /\ Answered(p)

Tidy == Dated /\ \A p \in Procs : Running(p) => Looked(p) /\ Told(p)
Sound == GoodCaches /\ \A p \in Procs : Honest(p)
Truthful == ~slow => Sound
IInv == Tidy /\ Truthful /\ Counted

-----------------------------------------------------------------------------
(* What the actions do to a process.                                       *)

Fields == {"pc", "scope", "todo", "base", "walk", "changed", "fresh", "stamp",
           "id", "since", "began", "wrong", "overtaken", "dropped"}
ProcKeeps(p, changed) ==
  \A f \in Fields \ changed : proc'[p][f] = proc[p][f]
Others(p) ==
  /\ DOMAIN proc' = Procs
  /\ \A q \in Procs \ {p} : proc'[q] = proc[q]

\* The steps of the python engine by their outcome.  A process quits the
\* database for a live scan ...
Quits(p) ==
  Running(p) /\ Quarantine(p) /\ UNCHANGED <<world, files, runs, slow>>

\* ... ends without an answer ...
Ends(p) ==
  /\ proc' = [proc EXCEPT ![p] = Idle]
  /\ lock' \in {lock, Release(p)}
  /\ UNCHANGED <<world, dbs, cur, schema, files, runs, slow>>

\* ... or goes on.
Opens(p) ==
  /\ proc[p].pc \in Opening
  /\ \E pc \in Opening : proc' = [proc EXCEPT ![p].pc = pc]
  /\ \E id \in 0 .. MaxRuns : /\ tables' \in {tables, tables \cup {id}}
                              /\ versioned' \in {versioned, versioned \cup {id}}
  /\ UNCHANGED <<world, dbs, cur, lock, files, runs, slow>>
Stamps(p) ==
  /\ Ready(p, "stamp")
  /\ proc' = [proc EXCEPT ![p].pc = "walk",
                          ![p].base.stamp = dbs[proc[p].id].stamp]
  /\ UNCHANGED <<world, sqlite, files, runs, slow>>
Selects(p) ==
  /\ engine = "python"
  /\ Ready(p, "load")
  /\ Compare(p, [dbs[proc[p].id] EXCEPT !.stamp = proc[p].base.stamp])
  /\ UNCHANGED <<world, sqlite, files, runs, slow>>
Locks(p) ==
  /\ lock' = [lock EXCEPT ![proc[p].id] = p]
  /\ UNCHANGED <<world, dbs, cur, schema, files, runs, proc, slow>>
Asks(p) ==
  /\ Ready(p, "query")
  /\ LET c == IF engine = "native" THEN proc[p].base ELSE dbs[proc[p].id] IN
       Answer(p, [n \in Notes |-> TextIn(c.row[n])])
  /\ UNCHANGED <<world, sqlite, files, runs, slow>>

Moves(p) ==
  \/ \E scope \in {Notes} \cup Folders : Start(p, scope)
  \/ \E n \in Notes : \/ Stat(p, n) \/ Hash(p, n)
                      \/ LexNote(p, n) \/ ParseNote(p, n)
  \/ LoadFile(p) \/ CreateTmp(p) \/ WriteTmp(p) \/ RenameTmp(p)
  \/ DropTables(p) \/ Opens(p) \/ Stamps(p) \/ Selects(p) \/ Locks(p)
  \/ Commit(p) \/ Asks(p) \/ Quits(p) \/ Ends(p)

LEMMA StepMoves ==
  ASSUME TypeOK, NEW p \in Procs, Step(p)
  PROVE  Moves(p)
<1> USE DEF Moves
<1>0. proc[p].id \in 0 .. MaxRuns
  BY DEF TypeOK, Processes
<1>1. CASE CreateTables(p)
  <2>1. Running(p) /\ proc[p].pc \in Opening /\ UNCHANGED <<world, files, runs, slow>>
    BY <1>1 DEF CreateTables, Ready, Running, Opening
  <2>2. CASE proc[p].id \in tables
    BY <1>1, <2>1, <2>2 DEF CreateTables, Quits
  <2>3. CASE proc[p].id \notin tables
    <3>1. /\ proc' = [proc EXCEPT ![p].pc = "version"] /\ "version" \in Opening
          /\ tables' = tables \cup {proc[p].id}
          /\ UNCHANGED <<dbs, cur, lock, versioned>>
      BY <1>1, <2>3 DEF CreateTables, Opening
    <3> QED
      BY <1>0, <2>1, <3>1 DEF Opens
  <2> QED
    BY <2>2, <2>3
<1>2. CASE SetVersion(p)
  <2>1. /\ proc[p].pc \in Opening /\ "stamp" \in Opening
        /\ proc' = [proc EXCEPT ![p].pc = "stamp"]
        /\ versioned' = versioned \cup {proc[p].id}
        /\ UNCHANGED <<world, dbs, cur, lock, tables, files, runs, slow>>
    BY <1>2 DEF SetVersion, Ready, Opening
  <2> QED
    BY <1>0, <2>1 DEF Opens
<1>3. CASE ReadStamp(p)
  <2>1. Ready(p, "stamp") /\ Running(p) /\ UNCHANGED <<world, files, runs, slow>>
    BY <1>3 DEF ReadStamp, Ready, Running
  <2> QED
    BY <1>3, <2>1 DEF ReadStamp, Stamps, Quits
<1>4. CASE SelectRows(p)
  <2>1. Running(p) /\ UNCHANGED <<world, files, runs, slow>>
    BY <1>4 DEF SelectRows, Ready, Running
  <2> QED
    BY <1>4, <2>1 DEF SelectRows, Selects, Quits
<1>5. CASE TakeLock(p)
  <2>1. Running(p) /\ UNCHANGED <<world, files, runs, slow>>
    BY <1>5 DEF TakeLock, Ready, Running
  <2> QED
    BY <1>5, <2>1 DEF TakeLock, Locks, Quits
<1>6. CASE LockTimeout(p)
  BY <1>6 DEF LockTimeout, Quits, Ready, Running
<1>7. CASE Query(p)
  <2>1. CASE engine = "native" \/ proc[p].id \in tables
    BY <1>7, <2>1 DEF Query, Asks
  <2>2. CASE ~(engine = "native" \/ proc[p].id \in tables)
    BY <1>7, <2>2 DEF Query, Ends, sqlite
  <2> QED
    BY <2>1, <2>2
<1>8. CASE Die(p)
  BY <1>8 DEF Die, Ends
<1> QED
  BY <1>1, <1>2, <1>3, <1>4, <1>5, <1>6, <1>7, <1>8 DEF Step

LEMMA SentinelFacts ==
  /\ Absent \notin Procs /\ Absent \notin Files /\ Absent \notin Rows
  /\ Absent \notin Sigs /\ Absent \notin Lost .. MaxEdits /\ Absent \notin Texts
BY SentinelAssumption, BoundsAssumption DEF Lost, Texts

LEMMA RowFacts ==
  /\ \A r \in Rows : /\ r.text \in Lost .. MaxEdits /\ r.sig \in Sigs
                     /\ r.sig[1] \in Int /\ r # Absent
  /\ \A f \in Files : /\ f.text \in Texts /\ f.sig \in Sigs
                      /\ f.sig[1] \in Int /\ f \in Rows /\ f # Absent
BY SentinelFacts, BoundsAssumption DEF Rows, Files, Sigs, Lost, Texts

LEMMA TextFacts ==
  ASSUME TypeOK, NEW n \in Notes
  PROVE  /\ TextIn(note[n]) \in Texts \cup {Absent}
         /\ SigOf(n) \in Sigs \cup {Absent}
         /\ SigOf(n) = Absent <=> ~Exists(n)
         /\ TextIn(note[n]) = Absent <=> ~Exists(n)
BY RowFacts, SentinelFacts DEF TypeOK, TextIn, SigOf, Exists

LEMMA NewCacheType ==
  /\ NewCache \in Caches /\ Empty \in Caches
  /\ NewCache.row = NoRows /\ ~Empty.whole
<1>1. NewCache \in Caches /\ NewCache.row = NoRows
  BY BoundsAssumption DEF NewCache, Caches, NoRows
<1>2. Empty \in Caches /\ ~Empty.whole
  BY <1>1 DEF Empty, Caches
<1> QED
  BY <1>1, <1>2

LEMMA TornType ==
  ASSUME NEW c \in Caches
  PROVE  TornOf(c) \in Caches /\ ~TornOf(c).whole /\ TornOf(c).stamp = c.stamp
<1>1. \A n \in Notes : c.row[n] # Absent => [c.row[n] EXCEPT !.text = Lost] \in Rows
  BY BoundsAssumption DEF Caches, Rows, Lost
<1>2. [n \in Notes |-> IF c.row[n] = Absent THEN Absent
                       ELSE [c.row[n] EXCEPT !.text = Lost]]
        \in [Notes -> Rows \cup {Absent}]
  BY <1>1
<1>3. TornOf(c) = [c EXCEPT !.whole = FALSE,
        !.row = [n \in Notes |-> IF c.row[n] = Absent THEN Absent
                                 ELSE [c.row[n] EXCEPT !.text = Lost]]]
  BY DEF TornOf
<1> QED
  BY <1>2, <1>3 DEF Caches

LEMMA IdleType == Idle \in Processes
BY NewCacheType, BoundsAssumption
DEF Idle, Processes, PCs, NoRows

LEMMA AnswerEffect ==
  ASSUME TypeOK, NEW p \in Procs, NEW text, Answer(p, text)
  PROVE  /\ Others(p) /\ proc'[p] \in Processes
         /\ proc'[p].pc = "idle" /\ proc'[p].walk = NoRows
         /\ proc'[p].base = NewCache /\ proc'[p].stamp = 0 /\ proc'[p].began = 0
         /\ proc'[p].wrong = {n \in proc[p].scope : text[n] \notin proc[p].since[n]}
         /\ proc'[p].overtaken = proc[p].overtaken
<1>1. proc[p] \in Processes /\ proc' = [proc EXCEPT ![p] =
        [Idle EXCEPT
          !.wrong = {n \in proc[p].scope : text[n] \notin proc[p].since[n]},
          !.overtaken = proc[p].overtaken, !.dropped = proc[p].dropped]]
  BY DEF TypeOK, Answer
<1>2. proc'[p] = [Idle EXCEPT
          !.wrong = {n \in proc[p].scope : text[n] \notin proc[p].since[n]},
          !.overtaken = proc[p].overtaken, !.dropped = proc[p].dropped]
  BY <1>1 DEF TypeOK
<1>3. {n \in proc[p].scope : text[n] \notin proc[p].since[n]} \in SUBSET Notes
  BY <1>1 DEF Processes
<1>4. proc'[p] \in Processes
  <2> DEFINE W == {n \in proc[p].scope : text[n] \notin proc[p].since[n]}
  <2>1. /\ W \in SUBSET Notes /\ proc[p].overtaken \in SUBSET Notes
        /\ proc[p].dropped \in BOOLEAN
    BY <1>1, <1>3 DEF Processes
  <2> HIDE DEF W
  <2>2. [Idle EXCEPT !.wrong = W, !.overtaken = proc[p].overtaken,
           !.dropped = proc[p].dropped] \in Processes
    BY <2>1, IdleType DEF Processes
  <2> QED
    BY <1>2, <2>2 DEF W
<1>5. Others(p)
  BY <1>1 DEF TypeOK, Others
<1> QED
  BY <1>2, <1>4, <1>5, IdleType DEF Idle, Processes

LEMMA StartEffect ==
  ASSUME TypeOK, NEW p \in Procs, NEW scope \in {Notes} \cup Folders,
         Start(p, scope)
  PROVE  /\ Others(p) /\ proc'[p] \in Processes
         /\ proc'[p].pc \in Starting /\ proc'[p].scope = scope
         /\ engine = "python" => proc'[p].pc # "walk"
         /\ proc'[p].todo = scope /\ proc'[p].walk = NoRows
         /\ proc'[p].changed = {} /\ proc'[p].base = NewCache
         /\ proc'[p].since = [n \in Notes |-> {TextIn(note[n])}]
         /\ proc'[p].stamp = 0 /\ proc'[p].began = 0
         /\ proc'[p].wrong = {} /\ proc'[p].overtaken = {}
<1>1. scope \in SUBSET Notes
  BY FoldersAssumption
<1> DEFINE id == IF engine = "python" THEN cur ELSE runs + 1
           pc == IF engine = "native" THEN "walk"
                 ELSE IF cur \in versioned THEN "stamp" ELSE "drop"
           since == [n \in Notes |-> {TextIn(note[n])}]
<1>2. id \in 0 .. MaxRuns
  BY BoundsAssumption DEF TypeOK, Start
<1>3. pc \in Starting /\ pc \in PCs /\ (engine = "python" => pc # "walk")
  BY DEF Starting, Opening, PCs
<1>4. since \in [Notes -> SUBSET (Texts \cup {Absent})]
  BY TextFacts
<1>5. proc' = [proc EXCEPT ![p] =
        [Idle EXCEPT !.scope = scope, !.todo = scope, !.pc = pc,
          !.id = id, !.since = since]]
  BY DEF Start
<1> HIDE DEF id, pc, since
<1>6. proc'[p] = [Idle EXCEPT !.scope = scope, !.todo = scope, !.pc = pc,
          !.id = id, !.since = since]
  BY <1>5 DEF TypeOK
<1>7. proc'[p] \in Processes
  BY <1>1, <1>2, <1>3, <1>4, <1>6, IdleType DEF Processes
<1>8. Others(p)
  BY <1>5 DEF TypeOK, Others
<1>9. /\ proc'[p].pc = pc /\ proc'[p].scope = scope
      /\ proc'[p].todo = scope /\ proc'[p].walk = NoRows
      /\ proc'[p].changed = {} /\ proc'[p].base = NewCache
      /\ proc'[p].since = since
      /\ proc'[p].stamp = 0 /\ proc'[p].began = 0
      /\ proc'[p].wrong = {} /\ proc'[p].overtaken = {}
  BY <1>6 DEF Idle
<1> QED
  BY <1>3, <1>7, <1>8, <1>9 DEF since

LEMMA OpensEffect ==
  ASSUME TypeOK, NEW p \in Procs, Opens(p)
  PROVE  /\ Others(p) /\ proc'[p] \in Processes /\ ProcKeeps(p, {"pc"})
         /\ proc'[p].pc \in Opening
<1>1. PICK pc \in Opening : proc' = [proc EXCEPT ![p].pc = pc]
  BY DEF Opens
<1>2. proc'[p] = [proc[p] EXCEPT !.pc = pc] /\ proc[p] \in Processes
        /\ pc \in PCs
  BY <1>1 DEF TypeOK, Opening, PCs
<1>3. proc'[p] \in Processes /\ proc'[p].pc = pc
  BY <1>2 DEF Processes
<1> QED
  BY <1>1, <1>2, <1>3 DEF TypeOK, Processes, Others, ProcKeeps, Fields

LEMMA StampsEffect ==
  ASSUME TypeOK, NEW p \in Procs, Stamps(p)
  PROVE  /\ Others(p) /\ proc'[p] \in Processes
         /\ ProcKeeps(p, {"pc", "base"}) /\ proc'[p].pc = "walk"
         /\ proc'[p].base.stamp = dbs[proc[p].id].stamp
<1> DEFINE st == dbs[proc[p].id].stamp
           base == [proc[p].base EXCEPT !.stamp = st]
<1>1. proc[p] \in Processes /\ proc[p].base \in Caches /\ st \in 0 .. MaxTime
  BY DEF TypeOK, Processes, Caches
<1>2. proc' = [proc EXCEPT ![p].pc = "walk", ![p].base.stamp = st]
  BY DEF Stamps
<1> HIDE DEF st
<1>3. base \in Caches /\ base.stamp = st
  BY <1>1 DEF Caches
<1>4. proc'[p] = [proc[p] EXCEPT !.pc = "walk", !.base = base]
  BY <1>1, <1>2 DEF TypeOK, Processes
<1> HIDE DEF base
<1>5. /\ proc'[p] \in Processes /\ proc'[p].pc = "walk"
      /\ proc'[p].base = base
  BY <1>1, <1>3, <1>4 DEF Processes, PCs
<1>6. ProcKeeps(p, {"pc", "base"})
  BY <1>1, <1>4 DEF Processes, ProcKeeps, Fields
<1>7. Others(p)
  BY <1>2 DEF TypeOK, Others
<1> QED
  BY <1>3, <1>5, <1>6, <1>7 DEF st

LEMMA StatEffect ==
  ASSUME TypeOK, NEW p \in Procs, NEW n \in Notes, Stat(p, n)
  PROVE  /\ Others(p) /\ proc'[p] \in Processes
         /\ ProcKeeps(p, {"pc", "todo", "walk", "began"})
         /\ proc'[p].walk = [proc[p].walk EXCEPT ![n] = SigOf(n)]
         /\ proc'[p].todo = proc[p].todo \ {n}
         /\ proc'[p].pc \in {"walk", "load"}
         /\ proc'[p].pc = "load" => proc'[p].todo = {}
         /\ proc'[p].began \in {now, proc[p].began}
<1> DEFINE rest == proc[p].todo \ {n}
           began == IF proc[p].todo = proc[p].scope THEN now ELSE proc[p].began
           pc == IF rest = {} THEN "load" ELSE "walk"
<1>1. proc[p] \in Processes
  BY DEF TypeOK
<1>2. proc' = [proc EXCEPT ![p] =
         [proc[p] EXCEPT !.walk[n] = SigOf(n), !.todo = rest, !.pc = pc,
            !.began = began]]
  BY DEF Stat
<1> HIDE DEF rest, began, pc
<1>3. proc'[p] = [proc[p] EXCEPT !.walk = [proc[p].walk EXCEPT ![n] = SigOf(n)],
            !.todo = rest, !.pc = pc, !.began = began]
  BY <1>1, <1>2 DEF TypeOK, Processes
<1>4. /\ rest \in SUBSET Notes /\ began \in 0 .. MaxTime
      /\ pc \in PCs /\ pc \in {"walk", "load"} /\ began \in {now, proc[p].began}
      /\ pc = "load" => rest = {}
  BY <1>1 DEF rest, began, pc, Processes, PCs, TypeOK
<1>5. [proc[p].walk EXCEPT ![n] = SigOf(n)] \in [Notes -> Sigs \cup {Absent}]
  BY <1>1, TextFacts DEF Processes
<1>6. proc'[p] \in Processes
  BY ZenonT(60), <1>1, <1>3, <1>4, <1>5 DEF Processes
<1>7. Others(p)
  BY <1>2 DEF TypeOK, Others
<1>8. /\ proc'[p].walk = [proc[p].walk EXCEPT ![n] = SigOf(n)]
      /\ proc'[p].todo = rest /\ proc'[p].pc = pc /\ proc'[p].began = began
  BY <1>1, <1>3 DEF Processes
<1>9. ProcKeeps(p, {"pc", "todo", "walk", "began"})
  BY <1>1, <1>3 DEF Processes, ProcKeeps, Fields
<1> QED
  BY <1>4, <1>6, <1>7, <1>8, <1>9 DEF rest

\* What Decide makes of a process that has still `rest` to hash.
Decided(p, rest) ==
  LET d == proc'[p] IN
  IF rest # {} THEN d.pc = "hash" /\ d.todo = rest
  ELSE IF d.changed = {} THEN d.pc = "query" /\ d.todo = {}
  ELSE /\ d.pc = "read" /\ d.todo = {n \in d.changed : d.walk[n] # Absent}
       /\ \A n \in Notes : d.fresh[n] =
            IF n \in d.changed /\ d.walk[n] = Absent THEN Absent
            ELSE d.base.row[n]

LEMMA DecideEffect ==
  ASSUME NEW r \in Processes, r.pc = "hash"
  PROVE  LET d == Decide(r) IN
         /\ d \in Processes
         /\ \A f \in Fields \ {"pc", "todo", "fresh"} : d[f] = r[f]
         /\ r.todo # {} => d.pc = "hash" /\ d.todo = r.todo
         /\ r.todo = {} /\ r.changed = {} => d.pc = "query" /\ d.todo = {}
         /\ r.todo = {} /\ r.changed # {} =>
              /\ d.pc = "read"
              /\ d.todo = {n \in r.changed : r.walk[n] # Absent}
              /\ \A n \in Notes : d.fresh[n] =
                   IF n \in r.changed /\ r.walk[n] = Absent THEN Absent
                   ELSE r.base.row[n]
<1> DEFINE gone == {n \in r.changed : r.walk[n] = Absent}
           todo == r.changed \ gone
           fresh == [n \in Notes |-> IF n \in gone THEN Absent
                                     ELSE r.base.row[n]]
<1>1. CASE r.todo # {}
  BY <1>1 DEF Decide
<1>2. CASE r.todo = {} /\ r.changed = {}
  <2>1. Decide(r) = [r EXCEPT !.pc = "query"]
    BY <1>2 DEF Decide
  <2> QED
    BY <1>2, <2>1 DEF Processes, PCs, Fields
<1>3. CASE r.todo = {} /\ r.changed # {}
  <2>1. Decide(r) = [r EXCEPT !.pc = "read", !.todo = todo, !.fresh = fresh]
    BY <1>3 DEF Decide
  <2>2. todo \in SUBSET Notes /\ fresh \in [Notes -> Rows \cup {Absent}]
    BY DEF Processes, Caches
  <2>3. todo = {n \in r.changed : r.walk[n] # Absent}
    OBVIOUS
  <2>4. \A n \in Notes : fresh[n] =
          IF n \in r.changed /\ r.walk[n] = Absent THEN Absent
          ELSE r.base.row[n]
    OBVIOUS
  <2> HIDE DEF todo, fresh
  <2>5. Decide(r) \in Processes
    BY <2>1, <2>2 DEF Processes, PCs
  <2>6. /\ Decide(r).pc = "read" /\ Decide(r).todo = todo
        /\ Decide(r).fresh = fresh
    BY <2>1 DEF Processes
  <2>7. \A f \in Fields \ {"pc", "todo", "fresh"} : Decide(r)[f] = r[f]
    BY <2>1 DEF Processes, Fields
  <2> QED
    BY <1>3, <2>3, <2>4, <2>5, <2>6, <2>7
<1> QED
  BY <1>1, <1>2, <1>3

LEMMA CompareEffect ==
  ASSUME TypeOK, NEW p \in Procs, NEW c \in Caches, Compare(p, c)
  PROVE  LET known == {n \in proc[p].scope : ~Differs(p, c, n)}
         IN /\ Others(p) /\ proc'[p] \in Processes
            /\ ProcKeeps(p, {"pc", "base", "stamp", "changed", "todo", "fresh"})
            /\ proc'[p].base = c /\ proc'[p].stamp = now
            /\ proc'[p].changed = proc[p].scope \ known
            /\ Decided(p, {n \in known :
                             c.row[n] # Absent /\ Young(c, c.row[n].sig)})
<1> DEFINE known == {n \in proc[p].scope : ~Differs(p, c, n)}
           changed == proc[p].scope \ known
           rest == {n \in known : c.row[n] # Absent /\ Young(c, c.row[n].sig)}
           r == [proc[p] EXCEPT !.pc = "hash", !.base = c, !.stamp = now,
                   !.changed = changed, !.todo = rest]
<1>1. proc[p] \in Processes /\ now \in 0 .. MaxTime
  BY DEF TypeOK
<1>2. proc' = [proc EXCEPT ![p] = Decide(r)]
  BY DEF Compare
<1>3. rest \in SUBSET Notes /\ changed \in SUBSET Notes
  BY <1>1 DEF Processes
<1> HIDE DEF known, changed, rest
<1>4. r \in Processes
  BY <1>1, <1>3 DEF Processes, PCs
<1>5. /\ r.pc = "hash" /\ r.base = c /\ r.stamp = now /\ r.changed = changed
      /\ r.todo = rest /\ r.walk = proc[p].walk
  BY <1>1 DEF Processes
<1>6. \A f \in Fields \ {"pc", "base", "stamp", "changed", "todo", "fresh"} :
        r[f] = proc[p][f]
  BY <1>1 DEF Processes, Fields
<1> HIDE DEF r
<1>7. proc'[p] = Decide(r)
  BY <1>2 DEF TypeOK
<1>8. Others(p)
  BY <1>2 DEF TypeOK, Others
<1>9. proc'[p] \in Processes
  BY <1>4, <1>5, <1>7, DecideEffect
<1>10. \A f \in Fields \ {"pc", "todo", "fresh"} : proc'[p][f] = r[f]
  BY <1>4, <1>5, <1>7, DecideEffect
<1>11. ProcKeeps(p, {"pc", "base", "stamp", "changed", "todo", "fresh"})
  BY <1>6, <1>10 DEF ProcKeeps
<1>12. /\ proc'[p].base = c /\ proc'[p].stamp = now
       /\ proc'[p].changed = changed /\ proc'[p].walk = r.walk
  BY <1>5, <1>10 DEF Fields
<1>13. Decided(p, rest)
  BY <1>4, <1>5, <1>7, <1>12, DecideEffect DEF Decided
<1> QED
  BY <1>8, <1>9, <1>11, <1>12, <1>13 DEF known, changed, rest

\* The hashed note is as the row has it, or counts as changed.
LEMMA HashEffect ==
  ASSUME TypeOK, NEW p \in Procs, NEW n \in Notes, Hash(p, n),
         ~(engine = "native" /\ ~Exists(n))
  PROVE  /\ Others(p) /\ proc'[p] \in Processes
         /\ ProcKeeps(p, {"pc", "changed", "todo", "fresh"})
         /\ proc'[p].changed =
              IF TextIn(note[n]) # proc[p].base.row[n].text
              THEN proc[p].changed \cup {n} ELSE proc[p].changed
         /\ Decided(p, proc[p].todo \ {n})
<1> DEFINE changed == IF TextIn(note[n]) # proc[p].base.row[n].text
                      THEN proc[p].changed \cup {n} ELSE proc[p].changed
           rest == proc[p].todo \ {n}
           r == [proc[p] EXCEPT !.todo = rest, !.changed = changed]
<1>1. proc[p] \in Processes /\ proc[p].pc = "hash"
  BY DEF TypeOK, Hash, Ready
<1>2. proc' = [proc EXCEPT ![p] = Decide(r)]
  BY DEF Hash
<1>3. rest \in SUBSET Notes /\ changed \in SUBSET Notes
  BY <1>1 DEF Processes
<1> HIDE DEF changed, rest
<1>4. r \in Processes
  BY <1>1, <1>3 DEF Processes
<1>5. r.pc = "hash" /\ r.changed = changed /\ r.todo = rest
  BY <1>1 DEF Processes
<1>6. \A f \in Fields \ {"changed", "todo"} : r[f] = proc[p][f]
  BY <1>1 DEF Processes, Fields
<1> HIDE DEF r
<1>7. proc'[p] = Decide(r)
  BY <1>2 DEF TypeOK
<1>8. Others(p)
  BY <1>2 DEF TypeOK, Others
<1>9. proc'[p] \in Processes
  BY <1>4, <1>5, <1>7, DecideEffect
<1>10. \A f \in Fields \ {"pc", "todo", "fresh"} : proc'[p][f] = r[f]
  BY <1>4, <1>5, <1>7, DecideEffect
<1>11. ProcKeeps(p, {"pc", "changed", "todo", "fresh"})
  BY <1>6, <1>10 DEF ProcKeeps
<1>12. /\ proc'[p].changed = changed /\ proc'[p].walk = r.walk
       /\ proc'[p].base = r.base
  BY <1>5, <1>10 DEF Fields
<1>13. Decided(p, rest)
  BY <1>4, <1>5, <1>7, <1>12, DecideEffect DEF Decided
<1> QED
  BY <1>8, <1>9, <1>11, <1>12, <1>13 DEF changed, rest

\* A process takes the row r for the note n.
LEMMA FetchEffect ==
  ASSUME TypeOK, NEW p \in Procs, NEW n \in Notes, NEW r \in Rows \cup {Absent},
         proc' = [proc EXCEPT ![p] =
           [proc[p] EXCEPT !.todo = proc[p].todo \ {n}, !.fresh[n] = r]]
  PROVE  /\ Others(p) /\ proc'[p] \in Processes
         /\ ProcKeeps(p, {"todo", "fresh"})
         /\ proc'[p].todo = proc[p].todo \ {n}
         /\ proc'[p].fresh = [proc[p].fresh EXCEPT ![n] = r]
<1>1. proc[p] \in Processes
  BY DEF TypeOK
<1>2. proc'[p] = [proc[p] EXCEPT !.todo = proc[p].todo \ {n},
                    !.fresh = [proc[p].fresh EXCEPT ![n] = r]]
  BY <1>1 DEF TypeOK, Processes
<1>3. /\ proc[p].todo \ {n} \in SUBSET Notes
      /\ [proc[p].fresh EXCEPT ![n] = r] \in [Notes -> Rows \cup {Absent}]
  BY <1>1 DEF Processes
<1>4. proc'[p] \in Processes
  <2>1. ASSUME NEW todo \in SUBSET Notes, NEW fresh \in [Notes -> Rows \cup {Absent}]
        PROVE  [proc[p] EXCEPT !.todo = todo, !.fresh = fresh] \in Processes
    BY <1>1 DEF Processes
  <2> QED
    BY ZenonT(60), <1>2, <1>3, <2>1
<1>5. Others(p)
  BY DEF TypeOK, Others
<1>6. /\ proc'[p].todo = proc[p].todo \ {n}
      /\ proc'[p].fresh = [proc[p].fresh EXCEPT ![n] = r]
  BY ZenonT(60), <1>1, <1>2 DEF Processes
<1>7. ProcKeeps(p, {"todo", "fresh"})
  BY <1>1, <1>2 DEF Processes, ProcKeeps, Fields
<1> QED
  BY <1>4, <1>5, <1>6, <1>7

LEMMA CreateTmpEffect ==
  ASSUME TypeOK, NEW p \in Procs, CreateTmp(p)
  PROVE  /\ Others(p) /\ proc'[p] \in Processes
         /\ ProcKeeps(p, {"pc", "id", "stamp"})
         /\ proc'[p].pc = "write" /\ proc'[p].stamp = now
         /\ \E i \in 0 .. MaxRuns :
              tmp' = i /\ inode' = [inode EXCEPT ![i] = Empty]
<1> DEFINE i == IF tmp = 0 THEN proc[p].id ELSE tmp
<1>1. proc[p] \in Processes /\ now \in 0 .. MaxTime /\ i \in 0 .. MaxRuns
  BY DEF TypeOK, Processes
<1>2. /\ proc' = [proc EXCEPT ![p].id = i, ![p].pc = "write",
                                ![p].stamp = now]
      /\ tmp' = i /\ inode' = [inode EXCEPT ![i] = Empty]
  BY DEF CreateTmp
<1> HIDE DEF i
<1>3. proc'[p] = [proc[p] EXCEPT !.id = i, !.pc = "write", !.stamp = now]
  BY <1>2 DEF TypeOK
<1>4. proc'[p] \in Processes
  BY <1>1, <1>3 DEF Processes, PCs
<1>5. Others(p)
  BY <1>2 DEF TypeOK, Others
<1>6. proc'[p].pc = "write" /\ proc'[p].stamp = now
  BY <1>1, <1>3 DEF Processes
<1>7. ProcKeeps(p, {"pc", "id", "stamp"})
  BY <1>1, <1>3 DEF Processes, ProcKeeps, Fields
<1> QED
  BY <1>1, <1>2, <1>4, <1>5, <1>6, <1>7

LEMMA WriteTmpEffect ==
  ASSUME TypeOK, NEW p \in Procs, WriteTmp(p)
  PROVE  /\ Others(p) /\ proc'[p] \in Processes
         /\ ProcKeeps(p, {"pc"}) /\ proc'[p].pc = "rename"
         /\ \E mine \in Caches :
              /\ mine.stamp = proc[p].stamp /\ mine.row = proc[p].fresh
              /\ \E f \in {mine, TornOf(mine)} :
                   inode' = [inode EXCEPT ![proc[p].id] = f]
<1> DEFINE mine == [stamp |-> proc[p].stamp, row |-> proc[p].fresh,
                    whole |-> TRUE]
<1>1. proc[p] \in Processes
  BY DEF TypeOK
<1>2. mine \in Caches /\ mine.stamp = proc[p].stamp /\ mine.row = proc[p].fresh
  BY <1>1 DEF Processes, Caches
<1>3. \E f \in {mine, TornOf(mine)} : inode' = [inode EXCEPT ![proc[p].id] = f]
  BY DEF WriteTmp
<1>4. proc' = [proc EXCEPT ![p].pc = "rename"]
  BY DEF WriteTmp
<1> HIDE DEF mine
<1>5. proc'[p] = [proc[p] EXCEPT !.pc = "rename"]
  BY <1>4 DEF TypeOK
<1>6. proc'[p] \in Processes /\ proc'[p].pc = "rename"
  BY <1>1, <1>5 DEF Processes, PCs
<1>7. Others(p) /\ ProcKeeps(p, {"pc"})
  BY <1>1, <1>4, <1>5 DEF TypeOK, Processes, Others, ProcKeeps, Fields
<1> QED
  BY <1>2, <1>3, <1>6, <1>7

\* The rows that process p commits, and the others as they are.
LEMMA CommitEffect ==
  ASSUME TypeOK, NEW p \in Procs, Commit(p)
  PROVE  LET i == proc[p].id IN
         /\ proc' \in [Procs -> Processes]
         /\ ProcKeeps(p, {"pc"}) /\ proc'[p].pc = "query"
         /\ \A q \in Procs \ {p} :
              /\ ProcKeeps(q, {"overtaken"})
              /\ proc[q].overtaken \subseteq proc'[q].overtaken
              /\ proc[q].pc = "idle" => proc'[q] = proc[q]
              /\ HasRead(q, i) => OutOfDate(p) \subseteq proc'[q].overtaken
         /\ dbs' \in [0 .. MaxRuns -> Caches]
         /\ dbs'[i].stamp = Stamped(p, dbs[i])
         /\ \A n \in Notes : dbs'[i].row[n] =
              IF n \in proc[p].changed THEN proc[p].fresh[n] ELSE dbs[i].row[n]
         /\ \A j \in 0 .. MaxRuns \ {i} : dbs'[j] = dbs[j]
<1> DEFINE i == proc[p].id
           c == dbs[i]
           row == [n \in Notes |-> IF n \in proc[p].changed
                                   THEN proc[p].fresh[n] ELSE c.row[n]]
<1>1. /\ proc \in [Procs -> Processes] /\ proc[p] \in Processes
      /\ i \in 0 .. MaxRuns /\ c \in Caches /\ OutOfDate(p) \in SUBSET Notes
  BY DEF TypeOK, Processes, OutOfDate
<1>2. Stamped(p, c) \in 0 .. MaxTime
  BY <1>1 DEF Stamped, Processes, Caches
<1>3. row \in [Notes -> Rows \cup {Absent}]
  BY <1>1 DEF Processes, Caches
<1>4. dbs' = [dbs EXCEPT ![i] = [c EXCEPT !.stamp = Stamped(p, c), !.row = row]]
  BY DEF Commit
<1>5. proc' = [q \in Procs |->
        IF q = p THEN [proc[p] EXCEPT !.pc = "query"]
        ELSE IF HasRead(q, i)
        THEN [proc[q] EXCEPT !.overtaken = proc[q].overtaken \cup OutOfDate(p)]
        ELSE proc[q]]
  BY DEF Commit
<1>6. \A n \in Notes : row[n] =
        IF n \in proc[p].changed THEN proc[p].fresh[n] ELSE dbs[i].row[n]
  OBVIOUS
<1> HIDE DEF c, row
<1>7. [c EXCEPT !.stamp = Stamped(p, c), !.row = row] \in Caches
  BY <1>1, <1>2, <1>3 DEF Caches
<1>8. dbs' \in [0 .. MaxRuns -> Caches]
        /\ \A j \in 0 .. MaxRuns \ {i} : dbs'[j] = dbs[j]
  BY <1>1, <1>4, <1>7 DEF TypeOK
<1>9. dbs'[i].stamp = Stamped(p, c) /\ dbs'[i].row = row
  BY <1>1, <1>4 DEF TypeOK, Caches
<1>10. proc'[p] = [proc[p] EXCEPT !.pc = "query"]
  BY <1>5
<1>11. proc'[p] \in Processes /\ proc'[p].pc = "query" /\ ProcKeeps(p, {"pc"})
  BY <1>1, <1>10 DEF Processes, PCs, ProcKeeps, Fields
<1>12. ASSUME NEW q \in Procs \ {p}
       PROVE  /\ proc'[q] \in Processes
              /\ ProcKeeps(q, {"overtaken"})
              /\ proc[q].overtaken \subseteq proc'[q].overtaken
              /\ proc[q].pc = "idle" => proc'[q] = proc[q]
              /\ HasRead(q, i) => OutOfDate(p) \subseteq proc'[q].overtaken
  <2>1. CASE HasRead(q, i)
    <3>1. proc[q] \in Processes
            /\ proc'[q] = [proc[q] EXCEPT !.overtaken =
                             proc[q].overtaken \cup OutOfDate(p)]
      BY <1>1, <1>5, <2>1
    <3>2. proc[q].overtaken \cup OutOfDate(p) \in SUBSET Notes
      BY <1>1, <3>1 DEF Processes
    <3>3. proc'[q] \in Processes
            /\ proc'[q].overtaken = proc[q].overtaken \cup OutOfDate(p)
      BY <3>1, <3>2 DEF Processes
    <3>4. ProcKeeps(q, {"overtaken"})
      BY <3>1 DEF Processes, ProcKeeps, Fields
    <3> QED
      BY <2>1, <3>3, <3>4 DEF HasRead
  <2>2. CASE ~HasRead(q, i)
    <3>1. proc'[q] = proc[q] /\ proc[q] \in Processes
      BY <1>1, <1>5, <2>2
    <3> QED
      BY <2>2, <3>1 DEF ProcKeeps
  <2> QED
    BY <2>1, <2>2
<1>13. proc' \in [Procs -> Processes]
  <2>1. \A q \in Procs : proc'[q] \in Processes
    BY <1>11, <1>12
  <2> QED
    BY <1>5, <2>1
<1> QED
  BY <1>6, <1>8, <1>9, <1>11, <1>12, <1>13 DEF c

\* The rows that the schema drops, and the others as they are.
LEMMA DropEffect ==
  ASSUME TypeOK, NEW p \in Procs, DropTables(p)
  PROVE  LET i == proc[p].id IN
         /\ proc' \in [Procs -> Processes]
         /\ ProcKeeps(p, {"pc"}) /\ proc'[p].pc = "create"
         /\ \A q \in Procs \ {p} :
              /\ ProcKeeps(q, {"overtaken", "dropped"})
              /\ proc[q].overtaken \subseteq proc'[q].overtaken
              /\ proc[q].pc = "idle" => proc'[q] = proc[q]
              /\ HasRead(q, i) => Stored(i) \subseteq proc'[q].overtaken
         /\ i \in 0 .. MaxRuns /\ dbs' = [dbs EXCEPT ![i] = NewCache]
<1> DEFINE i == proc[p].id
<1>1. /\ proc \in [Procs -> Processes] /\ proc[p] \in Processes
      /\ i \in 0 .. MaxRuns /\ Stored(i) \in SUBSET Notes
  BY DEF TypeOK, Processes, Stored
<1>2. dbs' = [dbs EXCEPT ![i] = NewCache]
  BY DEF DropTables
<1>3. proc' = [q \in Procs |->
        IF q = p THEN [proc[p] EXCEPT !.pc = "create"]
        ELSE IF HasRead(q, i)
        THEN [proc[q] EXCEPT !.overtaken = proc[q].overtaken \cup Stored(i),
                             !.dropped = TRUE]
        ELSE proc[q]]
  BY DEF DropTables
<1>4. proc'[p] = [proc[p] EXCEPT !.pc = "create"]
  BY <1>3
<1>5. proc'[p] \in Processes /\ proc'[p].pc = "create" /\ ProcKeeps(p, {"pc"})
  BY <1>1, <1>4 DEF Processes, PCs, ProcKeeps, Fields
<1>6. ASSUME NEW q \in Procs \ {p}
      PROVE  /\ proc'[q] \in Processes
             /\ ProcKeeps(q, {"overtaken", "dropped"})
             /\ proc[q].overtaken \subseteq proc'[q].overtaken
             /\ proc[q].pc = "idle" => proc'[q] = proc[q]
             /\ HasRead(q, i) => Stored(i) \subseteq proc'[q].overtaken
  <2>1. CASE HasRead(q, i)
    <3> DEFINE over == proc[q].overtaken \cup Stored(i)
    <3>1. proc[q] \in Processes
            /\ proc'[q] = [proc[q] EXCEPT !.overtaken = over, !.dropped = TRUE]
      BY <1>1, <1>3, <2>1
    <3>2. over \in SUBSET Notes
      BY <1>1, <3>1 DEF Processes
    <3>3. Stored(i) \subseteq over /\ proc[q].overtaken \subseteq over
      OBVIOUS
    <3> HIDE DEF over
    <3>4. proc'[q] \in Processes /\ proc'[q].overtaken = over
      BY <3>1, <3>2 DEF Processes
    <3>5. ProcKeeps(q, {"overtaken", "dropped"})
      BY <3>1 DEF Processes, ProcKeeps, Fields
    <3>6. proc[q].pc # "idle"
      BY <2>1 DEF HasRead
    <3> QED
      BY <3>3, <3>4, <3>5, <3>6
  <2>2. CASE ~HasRead(q, i)
    <3>1. proc'[q] = proc[q] /\ proc[q] \in Processes
      BY <1>1, <1>3, <2>2
    <3> QED
      BY <2>2, <3>1 DEF ProcKeeps
  <2> QED
    BY <2>1, <2>2
<1>7. proc' \in [Procs -> Processes]
  <2>1. \A q \in Procs : proc'[q] \in Processes
    BY <1>5, <1>6
  <2> QED
    BY <1>3, <2>1
<1> QED
  BY <1>1, <1>2, <1>5, <1>6, <1>7

LEMMA BecomesEffect ==
  ASSUME TypeOK, NEW n \in Notes, NEW f \in Files \cup {Absent}, Becomes(n, f)
  PROVE  /\ proc' \in [Procs -> Processes]
         /\ \A p \in Procs :
              /\ ProcKeeps(p, {"since"})
              /\ \A m \in Notes : proc[p].since[m] \subseteq proc'[p].since[m]
              /\ Running(p) => TextIn(f) \in proc'[p].since[n]
<1>1. TextIn(f) \in Texts \cup {Absent}
  BY RowFacts DEF TextIn
<1>2. proc' = [p \in Procs |->
         IF Running(p)
         THEN [proc[p] EXCEPT !.since[n] = proc[p].since[n] \cup {TextIn(f)}]
         ELSE proc[p]]
  BY DEF Becomes
<1>3. ASSUME NEW p \in Procs
      PROVE  /\ proc'[p] \in Processes /\ ProcKeeps(p, {"since"})
             /\ \A m \in Notes : proc[p].since[m] \subseteq proc'[p].since[m]
             /\ Running(p) => TextIn(f) \in proc'[p].since[n]
  <2>1. proc[p] \in Processes
    BY DEF TypeOK
  <2>2. CASE Running(p)
    <3> DEFINE since == [proc[p].since EXCEPT ![n] =
                           proc[p].since[n] \cup {TextIn(f)}]
    <3>1. since \in [Notes -> SUBSET (Texts \cup {Absent})]
      BY <1>1, <2>1 DEF Processes
    <3>2. \A m \in Notes : proc[p].since[m] \subseteq since[m]
      BY <2>1 DEF Processes
    <3>3. TextIn(f) \in since[n]
      BY <2>1 DEF Processes
    <3>4. proc'[p] = [proc[p] EXCEPT !.since = since]
      BY <1>2, <2>1, <2>2 DEF Processes
    <3> HIDE DEF since
    <3>5. proc'[p] \in Processes /\ proc'[p].since = since
      BY <2>1, <3>1, <3>4 DEF Processes
    <3>6. ProcKeeps(p, {"since"})
      BY <2>1, <3>4 DEF Processes, ProcKeeps, Fields
    <3> QED
      BY <3>2, <3>3, <3>5, <3>6
  <2>3. CASE ~Running(p)
    BY <1>2, <2>1, <2>3 DEF ProcKeeps
  <2> QED
    BY <2>2, <2>3
<1>4. proc' \in [Procs -> Processes]
  <2>1. \A p \in Procs : proc'[p] \in Processes
    BY <1>3
  <2> QED
    BY <1>2, <2>1
<1> QED
  BY <1>3, <1>4

-----------------------------------------------------------------------------
(* Types, and what is counted.                                             *)

LEMMA InitType == Init => TypeOK
<1> SUFFICES ASSUME Init PROVE TypeOK
  OBVIOUS
<1>1. note \in [Notes -> Files \cup {Absent}]
  BY BoundsAssumption DEF Init, Files, Sigs
<1>2. proc \in [Procs -> Processes]
  BY IdleType DEF Init
<1>3. 0 \in 0 .. MaxTime /\ 0 \in 0 .. MaxEdits /\ 0 \in 0 .. MaxRuns
  BY BoundsAssumption
<1>4. dbs \in [0 .. MaxRuns -> Caches] /\ inode \in [0 .. MaxRuns -> Caches]
  BY NewCacheType DEF Init
<1>5. lock \in [0 .. MaxRuns -> Procs \cup {Absent}]
  BY DEF Init
<1> QED
  BY <1>1, <1>2, <1>3, <1>4, <1>5 DEF Init, TypeOK

LEMMA ProcsType ==
  ASSUME NEW p \in Procs, proc \in [Procs -> Processes],
         Others(p), proc'[p] \in Processes,
         proc' = [q \in DOMAIN proc' |-> proc'[q]]
  PROVE  proc' \in [Procs -> Processes]
<1>1. \A q \in Procs : proc'[q] \in Processes
  BY DEF Others
<1> QED
  BY <1>1 DEF Others

\* What a process reads is a row; the notes it reads were there.
LEMMA RowsRead ==
  ASSUME TypeOK, NEW p \in Procs, NEW n \in Notes, Looked(p),
         proc[p].pc = "read", n \in proc[p].todo
  PROVE  /\ Exists(n) => [text |-> note[n].text, sig |-> proc[p].walk[n]] \in Rows
         /\ note[n] \in Rows \cup {Absent}
<1>1. proc[p].walk[n] \in Sigs
  BY DEF Looked, TypeOK, Processes
<1> QED
  BY <1>1, RowFacts, BoundsAssumption
  DEF TypeOK, Exists, Rows, Files, Lost, Texts

LEMMA ReleaseType ==
  ASSUME TypeOK, NEW p \in Procs
  PROVE  Release(p) \in [0 .. MaxRuns -> Procs \cup {Absent}]
BY DEF TypeOK, Release

LEMMA AnswerType ==
  ASSUME TypeOK, NEW p \in Procs, NEW text, Answer(p, text)
  PROVE  proc' \in [Procs -> Processes]
<1>1. proc \in [Procs -> Processes] /\ \E new : proc' = [proc EXCEPT ![p] = new]
  BY DEF Answer, TypeOK
<1> QED
  BY <1>1, AnswerEffect, ProcsType

LEMMA LiveScanType ==
  ASSUME TypeOK, NEW p \in Procs, LiveScan(p)
  PROVE  proc' \in [Procs -> Processes]
BY AnswerType DEF LiveScan

\* There is a name for every database that is quarantined.
LEMMA RoomForOne ==
  ASSUME TypeOK, Counted, NEW p \in Procs, Running(p)
  PROVE  /\ cur + 1 \in 0 .. MaxRuns
         /\ IsFiniteSet(Busy \ {p})
         /\ Cardinality(Busy \ {p}) = Cardinality(Busy) - 1
         /\ Cardinality(Busy) \in Nat
<1>1. IsFiniteSet(Busy) /\ p \in Busy
  BY DEF Counted, Busy
<1>2. /\ IsFiniteSet(Busy \ {p})
      /\ Cardinality(Busy \ {p}) = Cardinality(Busy) - 1
  BY <1>1, FS_RemoveElement
<1>3. Cardinality(Busy) \in Nat /\ Cardinality(Busy \ {p}) \in Nat
  BY <1>1, <1>2, FS_CardinalityType
<1>4. cur \in Nat /\ runs \in 0 .. MaxRuns /\ cur + Cardinality(Busy) <= runs
  BY BoundsAssumption DEF TypeOK, Counted
<1>5. cur + 1 \in 0 .. MaxRuns
  BY <1>2, <1>3, <1>4, BoundsAssumption
<1> QED
  BY <1>1, <1>2, <1>3, <1>5

LEMMA QuarantineType ==
  ASSUME TypeOK, Counted, NEW p \in Procs, Running(p), Quarantine(p)
  PROVE  /\ proc' \in [Procs -> Processes] /\ cur' \in 0 .. MaxRuns
         /\ lock' \in [0 .. MaxRuns -> Procs \cup {Absent}]
         /\ UNCHANGED <<dbs, schema>>
BY RoomForOne, LiveScanType, ReleaseType DEF Quarantine

LEMMA StepType ==
  ASSUME TypeOK, Tidy, Counted, NEW p \in Procs, Step(p)
  PROVE  TypeOK'
<1> USE DEF world, sqlite, schema, files
<1>1. CASE \E scope \in {Notes} \cup Folders : Start(p, scope)
  <2>1. PICK scope \in {Notes} \cup Folders : Start(p, scope)
    BY <1>1
  <2>2. proc' \in [Procs -> Processes]
    BY <2>1, StartEffect, ProcsType DEF Start, TypeOK
  <2> QED
    BY <2>1, <2>2, BoundsAssumption DEF Start, TypeOK
<1>2. CASE \E n \in Notes : Stat(p, n)
  <2>1. proc' \in [Procs -> Processes]
    BY <1>2, StatEffect, ProcsType DEF Stat, TypeOK
  <2> QED
    BY <1>2, <2>1 DEF Stat, TypeOK
<1>3. CASE \E n \in Notes : Hash(p, n)
  <2>1. PICK n \in Notes : Hash(p, n)
    BY <1>3
  <2>2. CASE engine = "native" /\ ~Exists(n)
    <3>1. proc' \in [Procs -> Processes]
      BY <2>1, <2>2, LiveScanType DEF Hash
    <3> QED
      BY <2>1, <3>1 DEF Hash, TypeOK
  <2>3. CASE ~(engine = "native" /\ ~Exists(n))
    <3>1. proc' \in [Procs -> Processes]
      BY <2>1, <2>3, HashEffect, ProcsType DEF Hash, TypeOK
    <3> QED
      BY <2>1, <3>1 DEF Hash, TypeOK
  <2> QED
    BY <2>2, <2>3
<1>4. CASE \E n \in Notes : LexNote(p, n)
  <2>1. PICK n \in Notes : LexNote(p, n)
    BY <1>4
  <2>2. proc' \in [Procs -> Processes]
    <3>1. CASE Exists(n)
      <4>1. [text |-> note[n].text, sig |-> proc[p].walk[n]] \in Rows
        BY <2>1, <3>1, RowsRead DEF LexNote, Ready, Tidy, Running
      <4>2. proc' = [proc EXCEPT ![p] =
              [proc[p] EXCEPT !.todo = proc[p].todo \ {n}, !.fresh[n] =
                 [text |-> note[n].text, sig |-> proc[p].walk[n]]]]
        BY <2>1, <3>1 DEF LexNote
      <4> QED
        BY <4>1, <4>2, FetchEffect, ProcsType DEF TypeOK
    <3>2. CASE ~Exists(n)
      BY <2>1, <3>2, LiveScanType DEF LexNote
    <3> QED
      BY <3>1, <3>2
  <2> QED
    BY <2>1, <2>2 DEF LexNote, TypeOK
<1>5. CASE \E n \in Notes : ParseNote(p, n)
  <2>1. PICK n \in Notes : ParseNote(p, n)
    BY <1>5
  <2>2. Running(p) /\ UNCHANGED <<world, files, runs, slow>>
    BY <2>1 DEF ParseNote, Ready, Running
  <2>3. CASE Exists(n) /\ SigOf(n) # proc[p].walk[n]
    BY <2>1, <2>2, <2>3, QuarantineType DEF ParseNote, TypeOK
  <2>4. CASE ~(Exists(n) /\ SigOf(n) # proc[p].walk[n])
    <3>1. note[n] \in Rows \cup {Absent}
      BY <2>1, RowsRead DEF ParseNote, Ready, Tidy, Running
    <3>2. /\ proc' = [proc EXCEPT ![p] =
               [proc[p] EXCEPT !.todo = proc[p].todo \ {n}, !.fresh[n] = note[n]]]
          /\ UNCHANGED sqlite
      BY <2>1, <2>4 DEF ParseNote
    <3>3. proc' \in [Procs -> Processes]
      BY <3>1, <3>2, FetchEffect, ProcsType DEF TypeOK
    <3> QED
      BY <2>2, <3>2, <3>3 DEF TypeOK
  <2> QED
    BY <2>3, <2>4
<1>6. CASE LoadFile(p) \/ Selects(p)
  <2>1. \E c \in Caches : Compare(p, c)
    <3>1. CASE LoadFile(p)
      BY <3>1, NewCacheType DEF LoadFile, TypeOK
    <3>2. CASE Selects(p)
      <4>1. [dbs[proc[p].id] EXCEPT !.stamp = proc[p].base.stamp] \in Caches
        <5>1. /\ dbs[proc[p].id] \in Caches
              /\ proc[p].base.stamp \in 0 .. MaxTime
          BY DEF TypeOK, Processes, Caches
        <5> QED
          BY <5>1 DEF Caches
      <4> QED
        BY <3>2, <4>1 DEF Selects
    <3> QED
      BY <1>6, <3>1, <3>2
  <2>2. proc' \in [Procs -> Processes]
    BY <2>1, CompareEffect, ProcsType DEF Compare, TypeOK
  <2> QED
    BY <1>6, <2>2 DEF LoadFile, Selects, TypeOK
<1>7. CASE CreateTmp(p)
  <2>1. proc' \in [Procs -> Processes]
    BY <1>7, CreateTmpEffect, ProcsType DEF CreateTmp, TypeOK
  <2>2. tmp' \in 0 .. MaxRuns /\ inode' \in [0 .. MaxRuns -> Caches]
    BY <1>7, CreateTmpEffect, NewCacheType DEF TypeOK
  <2>3. slow' \in BOOLEAN
    BY <1>7 DEF CreateTmp, Outlasts, TypeOK
  <2> QED
    BY <1>7, <2>1, <2>2, <2>3 DEF CreateTmp, TypeOK
<1>8. CASE WriteTmp(p)
  <2>1. proc' \in [Procs -> Processes]
    BY <1>8, WriteTmpEffect, ProcsType DEF WriteTmp, TypeOK
  <2>2. inode' \in [0 .. MaxRuns -> Caches]
    BY <1>8, WriteTmpEffect, TornType DEF TypeOK
  <2> QED
    BY <1>8, <2>1, <2>2 DEF WriteTmp, TypeOK
<1>9. CASE RenameTmp(p)
  <2>1. proc' \in [Procs -> Processes]
    BY <1>9, LiveScanType, AnswerType DEF RenameTmp
  <2>2. vvidx' \in 0 .. MaxRuns /\ tmp' \in 0 .. MaxRuns /\ UNCHANGED inode
    BY <1>9, BoundsAssumption DEF RenameTmp, TypeOK
  <2> QED
    BY <1>9, <2>1, <2>2 DEF RenameTmp, TypeOK
<1>10. CASE Locks(p)
  BY <1>10 DEF Locks, TypeOK
<1>11. CASE Quits(p)
  BY <1>11, QuarantineType DEF Quits, TypeOK
<1>15. CASE Opens(p)
  <2>1. proc' \in [Procs -> Processes]
    BY <1>15, OpensEffect, ProcsType DEF Opens, TypeOK
  <2>2. tables' \subseteq 0 .. MaxRuns /\ versioned' \subseteq 0 .. MaxRuns
    BY <1>15 DEF Opens, TypeOK
  <2> QED
    BY <1>15, <2>1, <2>2 DEF Opens, TypeOK
<1>16. CASE Stamps(p)
  <2>1. proc' \in [Procs -> Processes]
    BY <1>16, StampsEffect, ProcsType DEF Stamps, TypeOK
  <2> QED
    BY <1>16, <2>1 DEF Stamps, TypeOK
<1>17. CASE DropTables(p)
  <2>1. proc' \in [Procs -> Processes] /\ dbs' \in [0 .. MaxRuns -> Caches]
    BY <1>17, DropEffect, NewCacheType DEF TypeOK
  <2> QED
    BY <1>17, <2>1 DEF DropTables, TypeOK
<1>12. CASE Commit(p)
  <2>1. slow' \in BOOLEAN
    BY <1>12 DEF Commit, Outlasts, TypeOK
  <2>2. lock' \in [0 .. MaxRuns -> Procs \cup {Absent}]
    BY <1>12, ReleaseType DEF Commit
  <2>3. proc' \in [Procs -> Processes] /\ dbs' \in [0 .. MaxRuns -> Caches]
    BY <1>12, CommitEffect
  <2> QED
    BY <1>12, <2>1, <2>2, <2>3 DEF Commit, TypeOK
<1>13. CASE Asks(p)
  <2>1. proc' \in [Procs -> Processes]
    BY <1>13, AnswerType DEF Asks
  <2> QED
    BY <1>13, <2>1 DEF Asks, TypeOK
<1>14. CASE Ends(p)
  BY <1>14, IdleType, ReleaseType DEF Ends, TypeOK
<1> QED
  BY <1>1, <1>2, <1>3, <1>4, <1>5, <1>6, <1>7, <1>8, <1>9, <1>10, <1>11,
     <1>12, <1>13, <1>14, <1>15, <1>16, <1>17, StepMoves DEF Moves

LEMMA EditEffect ==
  ASSUME TypeOK, NEW n \in Notes, Edit(n)
  PROVE  \E f \in Files : Becomes(n, f) /\ f.sig[1] = now
<1>1. PICK shape \in Shapes :
        Becomes(n, [text |-> edits + 1, sig |-> <<now, shape>>])
  BY DEF Edit
<1> DEFINE f == [text |-> edits + 1, sig |-> <<now, shape>>]
<1>2. edits + 1 \in 0 .. MaxEdits
  BY <1>1, BoundsAssumption DEF Becomes, TypeOK
<1>3. f \in Files /\ f.sig[1] = now
  BY <1>2 DEF Files, Sigs, TypeOK
<1> QED
  BY <1>1, <1>3

LEMMA NextType == TypeOK /\ Tidy /\ Counted /\ [Next]_vars => TypeOK'
<1> SUFFICES ASSUME TypeOK, Tidy, Counted, [Next]_vars PROVE TypeOK'
  OBVIOUS
<1> USE DEF world, sqlite, schema, files
<1>1. CASE Tick
  BY <1>1, BoundsAssumption DEF Tick, TypeOK
<1>2. CASE PowerCut
  BY <1>2, IdleType, TornType DEF PowerCut, TypeOK
<1>3. CASE \E n \in Notes : Edit(n) \/ Delete(n)
  <2>1. PICK n \in Notes, f \in Files \cup {Absent} : Becomes(n, f)
    BY <1>3, EditEffect DEF Delete
  <2>2. proc' \in [Procs -> Processes]
    BY <2>1, BecomesEffect
  <2>3. note' \in [Notes -> Files \cup {Absent}] /\ edits' \in 0 .. MaxEdits
    BY <2>1, BoundsAssumption DEF Becomes, TypeOK
  <2> QED
    BY <2>1, <2>2, <2>3 DEF Becomes, TypeOK
<1>4. CASE UNCHANGED vars
  BY <1>4 DEF vars, TypeOK
<1> QED
  BY <1>1, <1>2, <1>3, <1>4, StepType DEF Next, World

-----------------------------------------------------------------------------
(* The bookkeeping of the processes.                                       *)

LEMMA InitTidy == Init => Tidy /\ Counted
<1> SUFFICES ASSUME Init PROVE Tidy /\ Counted
  OBVIOUS
<1>1. \A p \in Procs : proc[p] = Idle
  BY DEF Init
<1>2. Dated
  <2>1. \A n \in Notes : note[n].sig[1] = 0
    BY DEF Init
  <2>2. NewCache.stamp = 0 /\ Empty.stamp = 0
    BY DEF NewCache, Empty
  <2> QED
    BY <1>1, <2>1, <2>2 DEF Init, Dated, Idle
<1>3. Busy = {}
  BY <1>1 DEF Busy, Running, Idle
<1>4. Counted
  BY <1>3, FS_EmptySet DEF Counted, Init
<1> QED
  BY <1>1, <1>2, <1>4 DEF Tidy, Running, Idle

LEMMA TurnTidy ==
  ASSUME Tidy, NEW p \in Procs, Others(p), UNCHANGED <<engine, now, note>>,
         \A i \in 0 .. MaxRuns : dbs'[i].stamp <= now /\ inode'[i].stamp <= now,
         proc'[p].base.stamp <= now, proc'[p].stamp <= now,
         proc'[p].began <= now, Running(p)' => Looked(p)' /\ Told(p)'
  PROVE  Tidy'
<1>1. Dated'
  BY DEF Tidy, Dated, Exists, Others
<1>2. ASSUME NEW q \in Procs, q # p
      PROVE  (Running(q) => Looked(q) /\ Told(q))'
  <2>1. proc'[q] = proc[q]
    BY <1>2 DEF Others
  <2> QED
    BY <1>2, <2>1 DEF Tidy, Running, Looked, Told
<1>3. (Running(p) => Looked(p) /\ Told(p))'
  OBVIOUS
<1>4. (\A q \in Procs : Running(q) => Looked(q) /\ Told(q))'
  BY <1>2, <1>3
<1> QED
  BY <1>1, <1>4 DEF Tidy

LEMMA DatesOfCaches ==
  ASSUME Tidy, UNCHANGED <<dbs, inode>>
  PROVE  \A i \in 0 .. MaxRuns : dbs'[i].stamp <= now /\ inode'[i].stamp <= now
BY DEF Tidy, Dated


LEMMA DecidedLooked ==
  ASSUME NEW p \in Procs, NEW rest, Decided(p, rest),
         rest \subseteq {n \in proc'[p].scope : proc'[p].base.row[n] # Absent},
         proc'[p].changed \subseteq proc'[p].scope,
         (engine = "native" => proc[p].scope = Notes)'
  PROVE  Looked(p)'
<1>1. CASE rest # {}
  BY <1>1 DEF Decided, Looked
<1>2. CASE rest = {} /\ proc'[p].changed = {}
  BY <1>2 DEF Decided, Looked
<1>3. CASE rest = {} /\ proc'[p].changed # {}
  BY <1>3 DEF Decided, Looked
<1> QED
  BY <1>1, <1>2, <1>3

LEMMA AnswerTidy ==
  ASSUME TypeOK, Tidy, NEW p \in Procs, NEW text, Answer(p, text),
         UNCHANGED <<engine, now, note, dbs, inode>>
  PROVE  Tidy'
<1>1. NewCache.stamp = 0 /\ 0 <= now
  BY BoundsAssumption DEF NewCache, TypeOK
<1>2. ~Running(p)'
  BY AnswerEffect DEF Running
<1> QED
  BY <1>1, <1>2, AnswerEffect, TurnTidy, DatesOfCaches

LEMMA StepTidy ==
  ASSUME TypeOK, Tidy, NEW p \in Procs, Step(p)
  PROVE  Tidy'
<1> USE DEF world, sqlite, schema, files
<1>0. /\ proc[p] \in Processes
      /\ proc[p].base.stamp <= now /\ proc[p].stamp <= now
      /\ proc[p].began <= now /\ now <= now /\ 0 <= now
      /\ Running(p) => Looked(p) /\ Told(p)
  BY BoundsAssumption DEF TypeOK, Tidy, Dated
<1>1. CASE \E scope \in {Notes} \cup Folders : Start(p, scope)
  <2>1. PICK scope \in {Notes} \cup Folders : Start(p, scope)
    BY <1>1
  <2>2. Looked(p)'
    BY <2>1, StartEffect DEF Start, Looked, TypeOK, EnginesAssumption, Starting, Opening
  <2>3. Told(p)'
    <3>1. /\ proc'[p].pc \in Starting /\ proc'[p].todo = proc'[p].scope
          /\ proc'[p].since = [n \in Notes |-> {TextIn(note[n])}]
      BY <2>1, StartEffect
    <3>2. note' = note
      BY <2>1 DEF Start
    <3>3. \A n \in Notes : TextIn(note[n])' \in proc'[p].since[n]
      BY <3>1, <3>2 DEF TextIn
    <3> QED
      BY <3>1, <3>3 DEF Told
  <2>4. proc'[p].base.stamp <= now
    <3>1. proc'[p].base = NewCache
      BY <2>1, StartEffect
    <3> QED
      BY <1>0, <3>1 DEF NewCache
  <2>5. UNCHANGED <<engine, now, note, dbs, inode>>
    BY <2>1 DEF Start
  <2> QED
    BY <1>0, <2>1, <2>2, <2>3, <2>4, <2>5, StartEffect, TurnTidy, DatesOfCaches
<1>2. CASE \E n \in Notes : Stat(p, n)
  <2>1. PICK n \in Notes : Stat(p, n)
    BY <1>2
  <2>2. proc[p].pc = "walk" /\ Running(p)
          /\ UNCHANGED <<engine, now, note, dbs, inode>>
    BY <2>1 DEF Stat, Ready, Running
  <2>3. ProcKeeps(p, {"pc", "todo", "walk", "began"})
    BY <2>1, StatEffect
  <2>4. Looked(p)'
    BY <1>0, <2>1, <2>2, <2>3, StatEffect DEF Looked, ProcKeeps, Fields
  <2>5. Told(p)'
    <3> SUFFICES ASSUME NEW m \in Notes
                 PROVE  /\ TextIn(note[m]) \in proc[p].since[m]
                        /\ m \in proc[p].scope
                             /\ (proc'[p].pc \in Starting => m \notin proc'[p].todo)
                             /\ proc'[p].walk[m] = Absent
                             => Absent \in proc[p].since[m]
      BY <2>2, <2>3 DEF Told, ProcKeeps, Fields
    <3>1. TextIn(note[m]) \in proc[p].since[m]
      BY <1>0, <2>2 DEF Told
    <3>0. /\ proc'[p].walk = [proc[p].walk EXCEPT ![n] = SigOf(n)]
          /\ proc'[p].todo = proc[p].todo \ {n}
          /\ proc'[p].pc \in {"walk", "load"}
          /\ proc'[p].pc = "load" => proc'[p].todo = {}
      BY <2>1, StatEffect
    <3>4. DOMAIN proc[p].walk = Notes
      BY <1>0 DEF Processes
    <3>2. CASE m = n
      <4>1. proc'[p].walk[m] = SigOf(m)
        BY <3>0, <3>2, <3>4
      <4>2. SigOf(m) = Absent => TextIn(note[m]) = Absent
        BY TextFacts
      <4> QED
        BY <3>1, <4>1, <4>2
    <3>3. CASE m # n
      <4>1. proc'[p].walk[m] = proc[p].walk[m]
        BY <3>0, <3>3, <3>4
      <4>2. (proc'[p].pc \in Starting => m \notin proc'[p].todo)
              => m \notin proc[p].todo
        BY <2>2, <3>0, <3>3, <1>0 DEF Starting
      <4> QED
        BY <1>0, <2>2, <3>1, <4>1, <4>2 DEF Told
    <3> QED
      BY <3>2, <3>3
  <2>6. /\ proc'[p].base.stamp <= now /\ proc'[p].stamp <= now
        /\ proc'[p].began <= now
    BY <1>0, <2>1, <2>3, StatEffect DEF ProcKeeps, Fields
  <2> QED
    BY <2>1, <2>2, <2>4, <2>5, <2>6, StatEffect, TurnTidy, DatesOfCaches
<1>3. CASE \E n \in Notes : Hash(p, n)
  <2>1. PICK n \in Notes : Hash(p, n)
    BY <1>3
  <2>2. /\ proc[p].pc = "hash" /\ Running(p) /\ n \in proc[p].todo
        /\ UNCHANGED <<engine, now, note, dbs, inode>>
    BY <2>1 DEF Hash, Ready, Running
  <2>3. CASE engine = "native" /\ ~Exists(n)
    BY <2>1, <2>2, <2>3, AnswerTidy DEF Hash, LiveScan
  <2>4. CASE ~(engine = "native" /\ ~Exists(n))
    <3>1. ProcKeeps(p, {"pc", "changed", "todo", "fresh"})
            /\ Decided(p, proc[p].todo \ {n}) /\ Others(p)
      BY <2>1, <2>4, HashEffect
    <3>2. proc'[p].changed \subseteq proc'[p].scope
      <4>1. proc'[p].changed \in {proc[p].changed, proc[p].changed \cup {n}}
        BY <2>1, <2>4, HashEffect
      <4>2. Looked(p) /\ proc'[p].scope = proc[p].scope
        BY <1>0, <2>2, <3>1 DEF ProcKeeps, Fields
      <4> QED
        BY <2>2, <4>1, <4>2 DEF Looked
    <3>3. proc[p].todo \ {n} \subseteq
            {m \in proc'[p].scope : proc'[p].base.row[m] # Absent}
      BY <1>0, <2>2, <3>1 DEF Looked, ProcKeeps, Fields
    <3>4. Looked(p)'
      BY <1>0, <2>2, <3>1, <3>2, <3>3, DecidedLooked
      DEF Looked, ProcKeeps, Fields
    <3>5. Told(p)'
      BY <1>0, <2>2, <3>1 DEF Told, ProcKeeps, Fields, Decided, Starting, Opening
    <3>6. /\ proc'[p].base.stamp <= now /\ proc'[p].stamp <= now
          /\ proc'[p].began <= now
      BY <1>0, <3>1 DEF ProcKeeps, Fields
    <3> QED
      BY <2>2, <3>1, <3>4, <3>5, <3>6, TurnTidy, DatesOfCaches
  <2> QED
    BY <2>3, <2>4
\* One that takes a row, or ends.
<1>4. ASSUME NEW n \in Notes, NEW r \in Rows \cup {Absent}, proc[p].pc = "read",
             proc' = [proc EXCEPT ![p] =
               [proc[p] EXCEPT !.todo = proc[p].todo \ {n}, !.fresh[n] = r]],
             UNCHANGED <<engine, now, note, dbs, inode>>
      PROVE  Tidy'
  <2>1. ProcKeeps(p, {"todo", "fresh"}) /\ Others(p)
          /\ proc'[p].todo = proc[p].todo \ {n}
    BY <1>4, FetchEffect
  <2>2. Looked(p)' /\ Told(p)'
    <3>1. Looked(p) /\ Told(p)
      BY <1>0, <1>4 DEF Running
    <3> QED
      BY <1>4, <2>1, <3>1 DEF Looked, Told, ProcKeeps, Fields
  <2>3. /\ proc'[p].base.stamp <= now /\ proc'[p].stamp <= now
        /\ proc'[p].began <= now
    BY <1>0, <2>1 DEF ProcKeeps, Fields
  <2> QED
    BY <1>4, <2>1, <2>2, <2>3, TurnTidy, DatesOfCaches
<1>5. CASE \E n \in Notes : LexNote(p, n)
  <2>1. PICK n \in Notes : LexNote(p, n)
    BY <1>5
  <2>2. /\ proc[p].pc = "read" /\ n \in proc[p].todo
        /\ UNCHANGED <<engine, now, note, dbs, inode>>
    BY <2>1 DEF LexNote, Ready
  <2>3. CASE Exists(n)
    <3>1. [text |-> note[n].text, sig |-> proc[p].walk[n]] \in Rows
      BY <1>0, <2>2, <2>3, RowsRead DEF Running
    <3>2. proc' = [proc EXCEPT ![p] =
            [proc[p] EXCEPT !.todo = proc[p].todo \ {n}, !.fresh[n] =
               [text |-> note[n].text, sig |-> proc[p].walk[n]]]]
      BY <2>1, <2>3 DEF LexNote
    <3> QED
      BY <1>4, <2>2, <3>1, <3>2
  <2>4. CASE ~Exists(n)
    BY <2>1, <2>2, <2>4, AnswerTidy DEF LexNote, LiveScan
  <2> QED
    BY <2>3, <2>4
<1>6. CASE \E n \in Notes : ParseNote(p, n)
  <2>1. PICK n \in Notes : ParseNote(p, n)
    BY <1>6
  <2>2. /\ proc[p].pc = "read" /\ n \in proc[p].todo
        /\ UNCHANGED <<engine, now, note, dbs, inode>>
    BY <2>1 DEF ParseNote, Ready, Quarantine
  <2>3. CASE Quarantine(p)
    BY <2>2, <2>3, AnswerTidy DEF Quarantine, LiveScan
  <2>4. CASE ~Quarantine(p)
    <3>1. note[n] \in Rows \cup {Absent}
      BY <1>0, <2>2, RowsRead DEF Running
    <3>2. proc' = [proc EXCEPT ![p] =
            [proc[p] EXCEPT !.todo = proc[p].todo \ {n}, !.fresh[n] = note[n]]]
      BY <2>1, <2>4 DEF ParseNote
    <3> QED
      BY <1>4, <2>2, <3>1, <3>2
  <2> QED
    BY <2>3, <2>4
<1>7. CASE LoadFile(p) \/ Selects(p)
  <2>1. PICK c \in Caches : Compare(p, c) /\ c.stamp <= now
    <3>1. CASE LoadFile(p)
      BY <1>0, <3>1, NewCacheType DEF LoadFile, TypeOK, Tidy, Dated, NewCache
    <3>2. CASE Selects(p)
      <4>1. dbs[proc[p].id] \in Caches /\ proc[p].base.stamp \in 0 .. MaxTime
        BY DEF TypeOK, Processes, Caches
      <4>2. /\ [dbs[proc[p].id] EXCEPT !.stamp = proc[p].base.stamp] \in Caches
            /\ [dbs[proc[p].id] EXCEPT !.stamp = proc[p].base.stamp].stamp <= now
        BY <1>0, <4>1 DEF Caches
      <4> QED
        BY <3>2, <4>2 DEF Selects
    <3> QED
      BY <1>7, <3>1, <3>2
  <2>2. /\ proc[p].pc = "load" /\ Running(p)
        /\ UNCHANGED <<engine, now, note, dbs, inode>>
    BY <1>7 DEF LoadFile, Selects, Ready, Running
  <2> DEFINE known == {n \in proc[p].scope : ~Differs(p, c, n)}
             rest == {n \in known : c.row[n] # Absent /\ Young(c, c.row[n].sig)}
  <2>3. /\ ProcKeeps(p, {"pc", "base", "stamp", "changed", "todo", "fresh"})
        /\ proc'[p].base = c /\ proc'[p].stamp = now /\ Others(p)
        /\ proc'[p].changed \subseteq proc[p].scope /\ Decided(p, rest)
    BY <2>1, CompareEffect
  <2>4. /\ proc'[p].scope = proc[p].scope /\ proc'[p].walk = proc[p].walk
        /\ proc'[p].since = proc[p].since /\ proc'[p].began = proc[p].began
    BY <2>3 DEF ProcKeeps, Fields
  <2>5. rest \subseteq {n \in proc'[p].scope : proc'[p].base.row[n] # Absent}
    BY <2>3, <2>4
  <2>6. Looked(p)'
    <3> HIDE DEF rest
    <3> QED
      BY <1>0, <2>2, <2>3, <2>4, <2>5, DecidedLooked DEF Looked
  <2>7. Told(p)'
    <3>1. proc'[p].pc \notin Starting
      BY <2>3 DEF Decided, Starting, Opening
    <3> QED
      BY <1>0, <2>2, <2>4, <3>1 DEF Told, Starting, Opening
  <2> QED
    BY <1>0, <2>1, <2>2, <2>3, <2>4, <2>6, <2>7, TurnTidy, DatesOfCaches
<1>8. CASE CreateTmp(p)
  <2>1. /\ proc[p].pc = "read" /\ Running(p) /\ engine = "native"
        /\ proc[p].todo = {} /\ UNCHANGED <<engine, now, note, dbs>>
    BY <1>8 DEF CreateTmp, Ready, Running
  <2>2. ProcKeeps(p, {"pc", "id", "stamp"}) /\ Others(p)
          /\ proc'[p].pc = "write" /\ proc'[p].stamp = now
    BY <1>8, CreateTmpEffect
  <2>3. Looked(p)' /\ Told(p)'
    BY <1>0, <2>1, <2>2 DEF Looked, Told, ProcKeeps, Fields
  <2>4. \A i \in 0 .. MaxRuns : dbs'[i].stamp <= now /\ inode'[i].stamp <= now
    <3>1. Empty.stamp = 0
      BY DEF Empty, NewCache
    <3> QED
      BY <1>0, <1>8, <2>1, <3>1, CreateTmpEffect DEF Tidy, Dated, TypeOK
  <2>5. proc'[p].base.stamp <= now /\ proc'[p].began <= now
    BY <1>0, <2>2 DEF ProcKeeps, Fields
  <2> QED
    BY <1>0, <2>1, <2>2, <2>3, <2>4, <2>5, TurnTidy
<1>9. CASE WriteTmp(p)
  <2>1. /\ proc[p].pc = "write" /\ Running(p)
        /\ UNCHANGED <<engine, now, note, dbs>>
    BY <1>9 DEF WriteTmp, Ready, Running
  <2>2. ProcKeeps(p, {"pc"}) /\ Others(p) /\ proc'[p].pc = "rename"
    BY <1>9, WriteTmpEffect
  <2>3. Looked(p)' /\ Told(p)'
    BY <1>0, <2>1, <2>2 DEF Looked, Told, ProcKeeps, Fields, Starting, Opening
  <2>4. \A i \in 0 .. MaxRuns : dbs'[i].stamp <= now /\ inode'[i].stamp <= now
    <3>1. PICK f \in Caches : f.stamp <= now
                           /\ inode' = [inode EXCEPT ![proc[p].id] = f]
      BY <1>0, <1>9, WriteTmpEffect, TornType
    <3> QED
      BY <2>1, <3>1 DEF Tidy, Dated, TypeOK
  <2>5. /\ proc'[p].base.stamp <= now /\ proc'[p].began <= now
        /\ proc'[p].stamp <= now
    BY <1>0, <2>2 DEF ProcKeeps, Fields
  <2> QED
    BY <2>1, <2>2, <2>3, <2>4, <2>5, TurnTidy
<1>10. CASE RenameTmp(p) \/ Asks(p)
  <2>1. UNCHANGED <<engine, now, note, dbs, inode>> /\ \E text : Answer(p, text)
    BY <1>10 DEF RenameTmp, Asks, LiveScan
  <2> QED
    BY <2>1, AnswerTidy
<1>11. CASE Locks(p)
  <2>1. UNCHANGED <<engine, now, note, dbs, inode, proc>>
    BY <1>11 DEF Locks
  <2> QED
    BY <2>1 DEF Tidy, Dated, Exists, Running, Looked, Told
<1>12. CASE Quits(p)
  <2>1. UNCHANGED <<engine, now, note, dbs, inode>> /\ LiveScan(p)
    BY <1>12 DEF Quits, Quarantine
  <2> QED
    BY <2>1, AnswerTidy DEF LiveScan
<1>15. CASE Opens(p)
  <2>1. /\ proc[p].pc \in Opening /\ Running(p)
        /\ UNCHANGED <<engine, now, note, dbs, inode>>
    BY <1>15 DEF Opens, Opening, Running
  <2>2. Others(p) /\ ProcKeeps(p, {"pc"}) /\ proc'[p].pc \in Opening
    BY <1>15, OpensEffect
  <2>3. Looked(p)' /\ Told(p)'
    BY <1>0, <2>1, <2>2 DEF Looked, Told, ProcKeeps, Fields, Opening, Starting
  <2>4. /\ proc'[p].base.stamp <= now /\ proc'[p].stamp <= now
        /\ proc'[p].began <= now
    BY <1>0, <2>2 DEF ProcKeeps, Fields
  <2> QED
    BY <2>1, <2>2, <2>3, <2>4, TurnTidy, DatesOfCaches
<1>16. CASE Stamps(p)
  <2>1. /\ proc[p].pc = "stamp" /\ Running(p)
        /\ UNCHANGED <<engine, now, note, dbs, inode>>
    BY <1>16 DEF Stamps, Ready, Running
  <2>2. /\ Others(p) /\ ProcKeeps(p, {"pc", "base"}) /\ proc'[p].pc = "walk"
        /\ proc'[p].base.stamp = dbs[proc[p].id].stamp
    BY <1>16, StampsEffect
  <2>3. Looked(p)' /\ Told(p)'
    BY <1>0, <2>1, <2>2 DEF Looked, Told, ProcKeeps, Fields, Opening, Starting
  <2>4. /\ proc'[p].base.stamp <= now /\ proc'[p].stamp <= now
        /\ proc'[p].began <= now
    BY <1>0, <2>2 DEF ProcKeeps, Fields, Tidy, Dated, Processes
  <2> QED
    BY <2>1, <2>2, <2>3, <2>4, TurnTidy, DatesOfCaches
<1>17. CASE DropTables(p)
  <2>1. /\ proc[p].pc = "drop" /\ UNCHANGED <<engine, now, note, inode>>
    BY <1>17 DEF DropTables, Ready
  <2>2. /\ \A q \in Procs \ {p} : ProcKeeps(q, {"overtaken", "dropped"})
        /\ ProcKeeps(p, {"pc"}) /\ proc'[p].pc = "create"
        /\ proc[p].id \in 0 .. MaxRuns
        /\ dbs' = [dbs EXCEPT ![proc[p].id] = NewCache]
    BY <1>17, DropEffect
  <2>3. \A q \in Procs : ProcKeeps(q, {"pc", "overtaken", "dropped"})
    BY <2>2 DEF ProcKeeps, Fields
  <2>4. \A i \in 0 .. MaxRuns : dbs'[i].stamp <= now
    <3>1. NewCache.stamp <= now /\ DOMAIN dbs = 0 .. MaxRuns
      BY <1>0 DEF NewCache, TypeOK
    <3> QED
      BY <2>2, <3>1 DEF Tidy, Dated
  <2>5. Dated'
    BY <2>1, <2>3, <2>4 DEF Tidy, Dated, Exists, ProcKeeps, Fields
  <2>6. ASSUME NEW q \in Procs, q # p, Running(q)' PROVE Looked(q)' /\ Told(q)'
    <3>1. ProcKeeps(q, {"overtaken", "dropped"})
      BY <2>2, <2>6
    <3>2. Running(q)
      BY <2>6, <3>1 DEF Running, ProcKeeps, Fields
    <3>3. Looked(q) /\ Told(q)
      BY <3>2 DEF Tidy
    <3> QED
      BY <2>1, <3>1, <3>3 DEF Looked, Told, ProcKeeps, Fields
  <2>7. Looked(p)' /\ Told(p)'
    <3>1. Looked(p) /\ Told(p)
      BY <1>0, <2>1 DEF Running
    <3> QED
      BY <2>1, <2>2, <3>1 DEF Looked, Told, ProcKeeps, Fields, Opening, Starting
  <2> QED
    BY <2>5, <2>6, <2>7 DEF Tidy
<1>13. CASE Commit(p)
  <2>1. /\ proc[p].pc = "read" /\ UNCHANGED <<engine, now, note, inode>>
    BY <1>13 DEF Commit, Ready
  <2>2. \A q \in Procs : ProcKeeps(q, {"pc", "overtaken"})
    BY <1>13, CommitEffect DEF ProcKeeps, Fields
  <2>3. \A i \in 0 .. MaxRuns : dbs'[i].stamp <= now
    <3>1. /\ dbs'[proc[p].id].stamp = Stamped(p, dbs[proc[p].id])
          /\ \A j \in 0 .. MaxRuns \ {proc[p].id} : dbs'[j] = dbs[j]
      BY <1>13, CommitEffect
    <3>2. \A j \in 0 .. MaxRuns : dbs[j].stamp <= now
      BY DEF Tidy, Dated
    <3>3. proc[p].id \in 0 .. MaxRuns
      BY <1>0 DEF Processes
    <3>4. Stamped(p, dbs[proc[p].id]) <= now
      BY <1>0, <3>2, <3>3 DEF Stamped
    <3> QED
      BY <3>1, <3>2, <3>4
  <2>4. Dated'
    BY <2>1, <2>2, <2>3 DEF Tidy, Dated, Exists, ProcKeeps, Fields
  <2>5. ASSUME NEW q \in Procs, q # p, Running(q)' PROVE Looked(q)' /\ Told(q)'
    <3>1. ProcKeeps(q, {"overtaken"})
      BY <1>13, <2>5, CommitEffect
    <3>2. Running(q)
      BY <2>5, <3>1 DEF Running, ProcKeeps, Fields
    <3>3. Looked(q) /\ Told(q)
      BY <3>2 DEF Tidy
    <3> QED
      BY <2>1, <3>1, <3>3 DEF Looked, Told, ProcKeeps, Fields
  <2>6. Looked(p)' /\ Told(p)'
    <3>1. Looked(p) /\ Told(p) /\ ProcKeeps(p, {"pc"}) /\ proc'[p].pc = "query"
      BY <1>0, <1>13, <2>1, CommitEffect DEF Running
    <3> QED
      BY <2>1, <3>1 DEF Looked, Told, ProcKeeps, Fields
  <2> QED
    BY <2>4, <2>5, <2>6 DEF Tidy
<1>14. CASE Ends(p)
  <2>1. UNCHANGED <<engine, now, note, dbs, inode>> /\ Others(p)
          /\ proc'[p] = Idle
    BY <1>14 DEF Ends, TypeOK, Others
  <2>2. ~Running(p)' /\ Idle.base.stamp = 0 /\ Idle.stamp = 0 /\ Idle.began = 0
    BY <2>1 DEF Running, Idle, NewCache
  <2> QED
    BY <1>0, <2>1, <2>2, TurnTidy, DatesOfCaches
<1> QED
  BY <1>1, <1>2, <1>3, <1>5, <1>6, <1>7, <1>8, <1>9, <1>10, <1>11, <1>12,
     <1>13, <1>14, <1>15, <1>16, <1>17, StepMoves DEF Moves

LEMMA BecomesTidy ==
  ASSUME TypeOK, Tidy, NEW n \in Notes, NEW f \in Files \cup {Absent},
         f # Absent => f.sig[1] = now, Becomes(n, f)
  PROVE  Tidy'
<1>1. /\ UNCHANGED <<engine, now, dbs, inode>>
      /\ note' = [note EXCEPT ![n] = f]
  BY DEF Becomes, sqlite, files
<1>2. /\ note'[n] = f
      /\ \A m \in Notes \ {n} : note'[m] = note[m]
  BY <1>1 DEF TypeOK
<1>3. \A p \in Procs : ProcKeeps(p, {"since"})
  BY BecomesEffect
<1>4. Dated'
  <2>1. \A m \in Notes : note'[m] # Absent => note'[m].sig[1] <= now
    BY <1>2 DEF Tidy, Dated, Exists, TypeOK
  <2>2. \A p \in Procs : /\ proc'[p].base.stamp <= now
                         /\ proc'[p].stamp <= now /\ proc'[p].began <= now
    BY <1>3 DEF Tidy, Dated, ProcKeeps, Fields
  <2> QED
    BY <1>1, <2>1, <2>2 DEF Tidy, Dated, Exists
<1>5. ASSUME NEW p \in Procs, Running(p)'
      PROVE  Looked(p)' /\ Told(p)'
  <2>1. Running(p) /\ Looked(p) /\ Told(p)
    BY <1>3, <1>5 DEF Running, ProcKeeps, Fields, Tidy
  <2>2. Looked(p)'
    BY <1>1, <1>3, <2>1 DEF Looked, ProcKeeps, Fields
  <2>3. /\ \A m \in Notes : proc[p].since[m] \subseteq proc'[p].since[m]
        /\ TextIn(f) \in proc'[p].since[n]
    BY <2>1, BecomesEffect
  <2>4. \A m \in Notes : TextIn(note[m])' \in proc'[p].since[m]
    BY <1>2, <2>1, <2>3 DEF Told, TextIn
  <2> QED
    BY <1>3, <2>1, <2>2, <2>3, <2>4 DEF Told, ProcKeeps, Fields
<1> QED
  BY <1>4, <1>5 DEF Tidy

LEMMA NextTidy == TypeOK /\ Tidy /\ [Next]_vars => Tidy'
<1> SUFFICES ASSUME TypeOK, Tidy, [Next]_vars PROVE Tidy'
  OBVIOUS
<1> USE DEF world, sqlite, schema, files
<1>1. CASE Tick
  <2>1. now \in Int /\ now' = now + 1
          /\ UNCHANGED <<engine, note, dbs, inode, proc>>
    BY <1>1, BoundsAssumption DEF Tick, TypeOK
  <2>2. Dated'
    <3>1. \A n \in Notes : Exists(n) => note[n].sig[1] \in Int
      BY RowFacts DEF TypeOK, Exists
    <3>2. \A i \in 0 .. MaxRuns : dbs[i].stamp \in Int /\ inode[i].stamp \in Int
      BY DEF TypeOK, Caches
    <3>3. \A p \in Procs : /\ proc[p].base.stamp \in Int
                           /\ proc[p].stamp \in Int /\ proc[p].began \in Int
      BY DEF TypeOK, Processes, Caches
    <3>4. \A x \in Int : x <= now => x <= now'
      BY <2>1
    <3> QED
      BY <2>1, <3>1, <3>2, <3>3, <3>4 DEF Tidy, Dated, Exists
  <2> QED
    BY <2>1, <2>2 DEF Tidy, Running, Looked, Told
<1>2. CASE PowerCut
  <2>1. /\ UNCHANGED <<engine, now, note, dbs>>
        /\ inode' = [inode EXCEPT ![vvidx] = TornOf(inode[vvidx])]
        /\ proc' = [p \in Procs |-> Idle]
    BY <1>2 DEF PowerCut
  <2>2. TornOf(inode[vvidx]).stamp = inode[vvidx].stamp
    BY TornType DEF TypeOK
  <2>3. Idle.base.stamp = 0 /\ Idle.stamp = 0 /\ Idle.began = 0
          /\ Idle.pc = "idle" /\ 0 <= now
    BY BoundsAssumption DEF Idle, NewCache, TypeOK
  <2> QED
    BY <2>1, <2>2, <2>3 DEF Tidy, Dated, Exists, Running, TypeOK
<1>3. CASE \E n \in Notes : Edit(n) \/ Delete(n)
  <2>1. PICK n \in Notes, f \in Files \cup {Absent} :
          Becomes(n, f) /\ (f # Absent => f.sig[1] = now)
    BY <1>3, EditEffect DEF Delete
  <2> QED
    BY <2>1, BecomesTidy
<1>4. CASE UNCHANGED vars
  BY <1>4 DEF vars, Tidy, Dated, Exists, Running, Looked, Told
<1> QED
  BY <1>1, <1>2, <1>3, <1>4, StepTidy DEF Next, World

LEMMA NextCounted == TypeOK /\ Counted /\ [Next]_vars => Counted'
<1> SUFFICES ASSUME TypeOK, Counted, [Next]_vars PROVE Counted'
  OBVIOUS
<1> USE DEF world, sqlite, schema, files
<1>0. /\ IsFiniteSet(Busy) /\ Cardinality(Busy) \in Nat /\ cur \in Nat
      /\ runs \in Nat /\ cur + Cardinality(Busy) <= runs
  BY FS_CardinalityType, BoundsAssumption DEF TypeOK, Counted
<1>1. ASSUME UNCHANGED <<cur, runs>>, \A p \in Procs : Running(p)' = Running(p)
      PROVE  Counted'
  <2>1. Busy' = Busy
    BY <1>1 DEF Busy
  <2> QED
    BY <1>0, <1>1, <2>1 DEF Counted
<1>2. ASSUME NEW p \in Procs, Running(p), ~Running(p)', Others(p),
             runs' = runs, cur' \in {cur, cur + 1}
      PROVE  Counted'
  <2>1. Busy' = Busy \ {p}
    BY <1>2 DEF Busy, Others, Running
  <2>2. /\ IsFiniteSet(Busy \ {p}) /\ Cardinality(Busy \ {p}) \in Int
        /\ Cardinality(Busy \ {p}) = Cardinality(Busy) - 1
    BY <1>0, <1>2, RoomForOne
  <2>3. cur' + Cardinality(Busy \ {p}) <= runs'
    BY <1>0, <1>2, <2>2
  <2> QED
    BY <2>1, <2>2, <2>3 DEF Counted
<1>3. ASSUME NEW p \in Procs, Running(p), Running(p)', Others(p),
             UNCHANGED <<cur, runs>>
      PROVE  Counted'
  <2>1. \A q \in Procs : Running(q)' = Running(q)
    BY <1>3 DEF Running, Others
  <2> QED
    BY <1>1, <1>3, <2>1
<1>4. ASSUME NEW p \in Procs, Step(p) PROVE Counted'
  <2>1. CASE \E scope \in {Notes} \cup Folders : Start(p, scope)
    <3>1. PICK scope \in {Notes} \cup Folders : Start(p, scope)
      BY <2>1
    <3>2. Others(p) /\ proc'[p].pc # "idle"
      BY <3>1, StartEffect DEF Starting, Opening
    <3>3. ~Running(p) /\ runs' = runs + 1 /\ cur' = cur
      BY <3>1 DEF Start
    <3>4. Busy' = Busy \cup {p} /\ p \notin Busy
      BY <3>2, <3>3 DEF Busy, Running, Others
    <3>5. /\ IsFiniteSet(Busy \cup {p})
          /\ Cardinality(Busy \cup {p}) = Cardinality(Busy) + 1
      BY <1>0, <3>4, FS_AddElement
    <3>6. cur' + Cardinality(Busy \cup {p}) <= runs'
      BY <1>0, <3>3, <3>5
    <3> QED
      BY <3>4, <3>5, <3>6 DEF Counted
  <2>2. CASE \E n \in Notes : Stat(p, n)
    <3>1. Running(p) /\ Running(p)' /\ Others(p) /\ UNCHANGED <<cur, runs>>
      BY <2>2, StatEffect DEF Stat, Ready, Running
    <3> QED
      BY <1>3, <3>1
  <2>3. ASSUME NEW text, Answer(p, text), Running(p), runs' = runs,
               cur' \in {cur, cur + 1}
        PROVE  Counted'
    BY <1>2, <2>3, AnswerEffect DEF Running
  <2>4. CASE \E n \in Notes : Hash(p, n)
    <3>1. PICK n \in Notes : Hash(p, n)
      BY <2>4
    <3>2. Running(p) /\ UNCHANGED <<cur, runs>>
      BY <3>1 DEF Hash, Ready, Running
    <3>3. CASE engine = "native" /\ ~Exists(n)
      BY <2>3, <3>1, <3>2, <3>3 DEF Hash, LiveScan
    <3>4. CASE ~(engine = "native" /\ ~Exists(n))
      <4>1. Others(p) /\ Decided(p, proc[p].todo \ {n})
        BY <3>1, <3>4, HashEffect
      <4>2. Running(p)'
        BY <4>1 DEF Decided, Running
      <4> QED
        BY <1>3, <3>2, <4>1, <4>2
    <3> QED
      BY <3>3, <3>4
  <2>5. ASSUME proc[p].pc = "read", UNCHANGED <<cur, runs>>, NEW n \in Notes, NEW r,
               proc' = [proc EXCEPT ![p] =
                 [proc[p] EXCEPT !.todo = proc[p].todo \ {n}, !.fresh[n] = r]]
        PROVE  Counted'
    <3>1. Others(p) /\ proc'[p].pc = "read"
      BY <2>5 DEF TypeOK, Others, Processes
    <3> QED
      BY <1>3, <2>5, <3>1 DEF Running
  <2>6. CASE \E n \in Notes : LexNote(p, n)
    <3>1. PICK n \in Notes : LexNote(p, n)
      BY <2>6
    <3>2. Running(p) /\ proc[p].pc = "read" /\ UNCHANGED <<cur, runs>>
      BY <3>1 DEF LexNote, Ready, Running
    <3>3. CASE Exists(n)
      <4>1. proc' = [proc EXCEPT ![p] =
              [proc[p] EXCEPT !.todo = proc[p].todo \ {n}, !.fresh[n] =
                 [text |-> note[n].text, sig |-> proc[p].walk[n]]]]
        BY <3>1, <3>3 DEF LexNote
      <4> QED
        BY <2>5, <3>2, <4>1
    <3>4. CASE ~Exists(n)
      BY <2>3, <3>1, <3>2, <3>4 DEF LexNote, LiveScan
    <3> QED
      BY <3>3, <3>4
  <2>7. CASE \E n \in Notes : ParseNote(p, n)
    <3>1. PICK n \in Notes : ParseNote(p, n)
      BY <2>7
    <3>2. Running(p) /\ proc[p].pc = "read" /\ runs' = runs
      BY <3>1 DEF ParseNote, Ready, Running
    <3>3. CASE Quarantine(p)
      BY <2>3, <3>2, <3>3 DEF Quarantine, LiveScan
    <3>4. CASE ~Quarantine(p)
      <4>1. /\ proc' = [proc EXCEPT ![p] =
                 [proc[p] EXCEPT !.todo = proc[p].todo \ {n}, !.fresh[n] = note[n]]]
            /\ cur' = cur
        BY <3>1, <3>4 DEF ParseNote
      <4> QED
        BY <2>5, <3>2, <4>1
    <3> QED
      BY <3>3, <3>4
  <2>8. CASE LoadFile(p) \/ Selects(p)
    <3>1. PICK c \in Caches : Compare(p, c)
      <4>1. [dbs[proc[p].id] EXCEPT !.stamp = proc[p].base.stamp] \in Caches
        <5>1. /\ dbs[proc[p].id] \in Caches
              /\ proc[p].base.stamp \in 0 .. MaxTime
          BY DEF TypeOK, Processes, Caches
        <5> QED
          BY <5>1 DEF Caches
      <4> QED
        BY <2>8, <4>1, NewCacheType DEF LoadFile, Selects, TypeOK
    <3> DEFINE rest == {n \in {n \in proc[p].scope : ~Differs(p, c, n)} :
                           c.row[n] # Absent /\ Young(c, c.row[n].sig)}
    <3>2. Others(p) /\ Decided(p, rest)
      BY <3>1, CompareEffect
    <3>3. Running(p)'
      BY <3>2 DEF Decided, Running
    <3>4. Running(p) /\ UNCHANGED <<cur, runs>>
      BY <2>8 DEF LoadFile, Selects, Ready, Running
    <3> QED
      BY <1>3, <3>2, <3>3, <3>4
  <2>9. CASE CreateTmp(p)
    <3>1. Running(p) /\ Running(p)' /\ Others(p) /\ UNCHANGED <<cur, runs>>
      BY <2>9, CreateTmpEffect DEF CreateTmp, Ready, Running
    <3> QED
      BY <1>3, <3>1
  <2>10. CASE WriteTmp(p)
    <3>1. Running(p) /\ Running(p)' /\ Others(p) /\ UNCHANGED <<cur, runs>>
      BY <2>10, WriteTmpEffect DEF WriteTmp, Ready, Running
    <3> QED
      BY <1>3, <3>1
  <2>11. CASE RenameTmp(p) \/ Asks(p)
    <3>1. /\ Running(p) /\ UNCHANGED <<cur, runs>>
          /\ \E text : Answer(p, text)
      BY <2>11 DEF RenameTmp, Asks, LiveScan, Ready, Running
    <3> QED
      BY <2>3, <3>1
  <2>12. CASE Locks(p)
    BY <1>1, <2>12 DEF Locks, Running
  <2>13. CASE Quits(p)
    <3>1. Running(p) /\ runs' = runs /\ cur' = cur + 1 /\ LiveScan(p)
      BY <2>13 DEF Quits, Quarantine, Ready, Running
    <3> QED
      BY <2>3, <3>1 DEF LiveScan
  <2>16. CASE Opens(p)
    <3>1. Running(p) /\ Running(p)' /\ Others(p) /\ UNCHANGED <<cur, runs>>
      BY <2>16, OpensEffect DEF Opens, Opening, Running
    <3> QED
      BY <1>3, <3>1
  <2>17. CASE Stamps(p)
    <3>1. Running(p) /\ Running(p)' /\ Others(p) /\ UNCHANGED <<cur, runs>>
      BY <2>17, StampsEffect DEF Stamps, Ready, Running
    <3> QED
      BY <1>3, <3>1
  <2>18. CASE DropTables(p)
    <3>1. /\ proc[p].pc = "drop" /\ proc'[p].pc = "create"
          /\ \A q \in Procs \ {p} : ProcKeeps(q, {"overtaken", "dropped"})
      BY <2>18, DropEffect DEF DropTables, Ready
    <3>2. \A q \in Procs : Running(q)' = Running(q)
      BY <3>1 DEF Running, ProcKeeps, Fields
    <3> QED
      BY <1>1, <2>18, <3>2 DEF DropTables
  <2>14. CASE Commit(p)
    <3>1. /\ proc[p].pc = "read" /\ proc'[p].pc = "query"
          /\ \A q \in Procs \ {p} : ProcKeeps(q, {"overtaken"})
      BY <2>14, CommitEffect DEF Commit, Ready
    <3>2. \A q \in Procs : Running(q)' = Running(q)
      BY <3>1 DEF Running, ProcKeeps, Fields
    <3> QED
      BY <1>1, <2>14, <3>2 DEF Commit
  <2>15. CASE Ends(p)
    <3>1. Others(p) /\ proc'[p] = Idle /\ UNCHANGED <<cur, runs>>
      BY <2>15 DEF Ends, TypeOK, Others
    <3>2. ~Running(p)'
      BY <3>1 DEF Running, Idle
    <3>3. CASE Running(p)
      BY <1>2, <3>1, <3>2, <3>3
    <3>4. CASE ~Running(p)
      <4>1. \A q \in Procs : Running(q)' = Running(q)
        BY <3>1, <3>2, <3>4 DEF Running, Others
      <4> QED
        BY <1>1, <3>1, <4>1
    <3> QED
      BY <3>3, <3>4
  <2> QED
    BY <1>4, <2>1, <2>2, <2>4, <2>6, <2>7, <2>8, <2>9, <2>10, <2>11, <2>12,
       <2>13, <2>14, <2>15, <2>16, <2>17, <2>18, StepMoves DEF Moves
<1>5. CASE Tick
  BY <1>1, <1>5 DEF Tick, Running
<1>6. CASE PowerCut
  <2>1. proc' = [p \in Procs |-> Idle] /\ UNCHANGED <<cur, runs>>
    BY <1>6 DEF PowerCut
  <2>2. Busy' = {}
    BY <2>1 DEF Busy, Running, Idle
  <2> QED
    BY <1>0, <2>1, <2>2, FS_EmptySet DEF Counted
<1>7. CASE \E n \in Notes : Edit(n) \/ Delete(n)
  <2>1. PICK n \in Notes, f \in Files \cup {Absent} : Becomes(n, f)
    BY <1>7, EditEffect DEF Delete
  <2>2. \A p \in Procs : ProcKeeps(p, {"since"})
    BY <2>1, BecomesEffect
  <2>3. \A p \in Procs : Running(p)' = Running(p)
    BY <2>2 DEF Running, ProcKeeps, Fields
  <2> QED
    BY <1>1, <2>1, <2>3 DEF Becomes
<1>8. CASE UNCHANGED vars
  BY <1>1, <1>8 DEF vars, Running
<1> QED
  BY <1>4, <1>5, <1>6, <1>7, <1>8 DEF Next, World

-----------------------------------------------------------------------------
(* A row that is good stays good.                                          *)

Lasting ==
  \A n \in Notes, r \in Rows \cup {Absent}, limit \in Int :
    limit <= now /\ Good(r, n, limit, note, proc)
      => Good(r, n, limit, note', proc')

LEMMA SteadyLasts ==
  ASSUME TypeOK, note' = note,
         \A p \in Procs : \A n \in Notes : proc'[p].pc # "idle" =>
           \/ proc'[p].walk[n] = Absent
           \/ /\ proc[p].pc # "idle" /\ proc'[p].walk[n] = proc[p].walk[n]
              /\ proc[p].since[n] \subseteq proc'[p].since[n]
  PROVE  Lasting
<1> SUFFICES ASSUME NEW n \in Notes, NEW r \in Rows, NEW limit \in Int,
                    Good(r, n, limit, note, proc), r.sig[1] < limit
             PROVE  Good(r, n, limit, note, proc')
  BY DEF Lasting, Good
<1>1. r # Absent /\ r.sig # Absent
  BY RowFacts, SentinelFacts
<1>2. \A p \in Procs : proc'[p].pc # "idle" /\ proc'[p].walk[n] = r.sig
        => r.text \in proc'[p].since[n]
  BY <1>1 DEF Good
<1> QED
  BY <1>1, <1>2 DEF Good

LEMMA TurnLasts ==
  ASSUME TypeOK, NEW p \in Procs, Others(p), note' = note,
         \/ proc'[p].pc = "idle"
         \/ /\ proc[p].pc # "idle" /\ proc'[p].walk = proc[p].walk
            /\ proc'[p].since = proc[p].since
  PROVE  Lasting
<1>1. ASSUME NEW q \in Procs, proc'[q].pc # "idle"
      PROVE  /\ proc[q].pc # "idle" /\ proc'[q].walk = proc[q].walk
             /\ proc'[q].since = proc[q].since
  BY <1>1 DEF Others
<1> QED
  BY <1>1, SteadyLasts

\* A note that is statted has the signature of its text.
LEMMA StatLasts ==
  ASSUME TypeOK, Tidy, NEW p \in Procs, NEW m \in Notes, Stat(p, m)
  PROVE  Lasting
<1>1. /\ proc[p].pc # "idle" /\ note' = note
      /\ Others(p) /\ ProcKeeps(p, {"pc", "todo", "walk", "began"})
      /\ proc'[p].walk = [proc[p].walk EXCEPT ![m] = SigOf(m)]
  BY StatEffect DEF Stat, Ready, world
<1>2. proc'[p].since = proc[p].since /\ DOMAIN proc[p].walk = Notes
  BY <1>1 DEF ProcKeeps, Fields, TypeOK, Processes
<1>3. \A n \in Notes : TextIn(note[n]) \in proc[p].since[n]
  BY <1>1 DEF Tidy, Told, Running
<1> SUFFICES ASSUME NEW n \in Notes, NEW r \in Rows, NEW limit \in Int,
                    Good(r, n, limit, note, proc), r.sig[1] < limit
             PROVE  Good(r, n, limit, note, proc')
  BY <1>1 DEF Lasting, Good
<1>4. r # Absent /\ r.sig # Absent
  BY RowFacts, SentinelFacts
<1>5. ASSUME NEW q \in Procs, proc'[q].pc # "idle", proc'[q].walk[n] = r.sig
      PROVE  r.text \in proc'[q].since[n]
  <2>1. CASE q # p
    BY <1>1, <1>4, <1>5, <2>1 DEF Others, Good
  <2>2. CASE q = p /\ n # m
    <3>1. proc'[p].walk[n] = proc[p].walk[n]
      BY <1>1, <1>2, <2>2
    <3> QED
      BY <1>1, <1>2, <1>4, <1>5, <2>2, <3>1 DEF Good
  <2>3. CASE q = p /\ n = m
    <3>1. SigOf(n) = r.sig
      BY <1>1, <1>2, <1>5, <2>3
    <3>2. note[n] # Absent /\ note[n].sig = r.sig
      BY <1>4, <3>1 DEF SigOf, Exists
    <3>3. r.text = TextIn(note[n])
      BY <1>4, <3>2 DEF Good, TextIn
    <3> QED
      BY <1>2, <1>3, <2>3, <3>3
  <2> QED
    BY <2>1, <2>2, <2>3
<1> QED
  BY <1>4, <1>5 DEF Good

\* A note that is written has a signature that no old row has.
LEMMA BecomesLasts ==
  ASSUME TypeOK, NEW m \in Notes, NEW f \in Files \cup {Absent},
         f # Absent => f.sig[1] = now, Becomes(m, f)
  PROVE  Lasting
<1>1. /\ note' = [note EXCEPT ![m] = f] /\ DOMAIN note = Notes
      /\ \A p \in Procs : /\ ProcKeeps(p, {"since"})
                          /\ \A n \in Notes : proc[p].since[n] \subseteq proc'[p].since[n]
  BY BecomesEffect DEF Becomes, TypeOK
<1>2. \A p \in Procs : /\ proc'[p].pc = proc[p].pc /\ proc'[p].walk = proc[p].walk
                       /\ \A n \in Notes : proc[p].since[n] \subseteq proc'[p].since[n]
  BY <1>1 DEF ProcKeeps, Fields
<1> SUFFICES ASSUME NEW n \in Notes, NEW r \in Rows, NEW limit \in Int,
                    limit <= now,
                    Good(r, n, limit, note, proc), r.sig[1] < limit
             PROVE  Good(r, n, limit, note', proc')
  BY DEF Lasting, Good
<1>3. r # Absent /\ r.sig[1] \in Int /\ now \in Int
  BY RowFacts DEF TypeOK
<1>4. note'[n] # Absent /\ r.sig = note'[n].sig => r.text = note'[n].text
  <2>1. CASE n = m
    <3>1. note'[n] = f
      BY <1>1, <2>1
    <3>2. f # Absent => f.sig # r.sig
      BY <1>3
    <3> QED
      BY <3>1, <3>2
  <2>2. CASE n # m
    <3>1. note'[n] = note[n]
      BY <1>1, <2>2
    <3> QED
      BY <1>3, <3>1 DEF Good
  <2> QED
    BY <2>1, <2>2
<1>5. \A p \in Procs : proc'[p].pc # "idle" /\ proc'[p].walk[n] = r.sig
        => r.text \in proc'[p].since[n]
  BY <1>2, <1>3 DEF Good
<1> QED
  BY <1>4, <1>5 DEF Good

LEMMA StepLasts ==
  ASSUME TypeOK, Tidy, NEW p \in Procs, Step(p)
  PROVE  Lasting
<1> USE DEF world, sqlite, schema, files
<1>1. CASE \E scope \in {Notes} \cup Folders : Start(p, scope)
  <2>1. PICK scope \in {Notes} \cup Folders : Start(p, scope)
    BY <1>1
  <2>2. Others(p) /\ proc'[p].walk = NoRows /\ note' = note
    BY <2>1, StartEffect DEF Start
  <2>3. ASSUME NEW q \in Procs, NEW n \in Notes
        PROVE  \/ proc'[q].walk[n] = Absent
               \/ proc'[q] = proc[q]
    BY <2>2 DEF Others, NoRows
  <2> QED
    BY <2>2, <2>3, SteadyLasts
<1>2. CASE \E n \in Notes : Stat(p, n)
  BY <1>2, StatLasts
<1>3. ASSUME NEW text, Answer(p, text), note' = note
      PROVE  Lasting
  BY <1>3, AnswerEffect, TurnLasts
<1>4. ASSUME Running(p), note' = note, Others(p), NEW changed,
             changed \subseteq Fields \ {"walk", "since"}, ProcKeeps(p, changed)
      PROVE  Lasting
  <2>1. proc'[p].walk = proc[p].walk /\ proc'[p].since = proc[p].since
    BY <1>4 DEF ProcKeeps, Fields
  <2> QED
    BY <1>4, <2>1, TurnLasts DEF Running
<1>5. CASE \E n \in Notes : Hash(p, n)
  <2>1. PICK n \in Notes : Hash(p, n)
    BY <1>5
  <2>2. Running(p) /\ note' = note
    BY <2>1 DEF Hash, Ready, Running
  <2>3. CASE engine = "native" /\ ~Exists(n)
    BY <1>3, <2>1, <2>2, <2>3 DEF Hash, LiveScan
  <2>4. CASE ~(engine = "native" /\ ~Exists(n))
    BY <1>4, <2>1, <2>2, <2>4, HashEffect DEF Fields
  <2> QED
    BY <2>3, <2>4
<1>6. ASSUME Running(p), note' = note, NEW n \in Notes, NEW r,
             proc' = [proc EXCEPT ![p] =
               [proc[p] EXCEPT !.todo = proc[p].todo \ {n}, !.fresh[n] = r]]
      PROVE  Lasting
  <2>1. Others(p) /\ ProcKeeps(p, {"todo", "fresh"})
    BY <1>6 DEF TypeOK, Others, ProcKeeps, Fields, Processes
  <2> QED
    BY <1>4, <1>6, <2>1 DEF Fields
<1>7. CASE \E n \in Notes : LexNote(p, n)
  <2>1. PICK n \in Notes : LexNote(p, n)
    BY <1>7
  <2>2. Running(p) /\ note' = note
    BY <2>1 DEF LexNote, Ready, Running
  <2>3. CASE Exists(n)
    <3>1. proc' = [proc EXCEPT ![p] =
            [proc[p] EXCEPT !.todo = proc[p].todo \ {n}, !.fresh[n] =
               [text |-> note[n].text, sig |-> proc[p].walk[n]]]]
      BY <2>1, <2>3 DEF LexNote
    <3> QED
      BY <1>6, <2>2, <3>1
  <2>4. CASE ~Exists(n)
    BY <1>3, <2>1, <2>2, <2>4 DEF LexNote, LiveScan
  <2> QED
    BY <2>3, <2>4
<1>8. CASE \E n \in Notes : ParseNote(p, n)
  <2>1. PICK n \in Notes : ParseNote(p, n)
    BY <1>8
  <2>2. Running(p) /\ note' = note
    BY <2>1 DEF ParseNote, Ready, Running
  <2>3. CASE Quarantine(p)
    BY <1>3, <2>2, <2>3 DEF Quarantine, LiveScan
  <2>4. CASE ~Quarantine(p)
    <3>1. proc' = [proc EXCEPT ![p] =
            [proc[p] EXCEPT !.todo = proc[p].todo \ {n}, !.fresh[n] = note[n]]]
      BY <2>1, <2>4 DEF ParseNote
    <3> QED
      BY <1>6, <2>2, <3>1
  <2> QED
    BY <2>3, <2>4
<1>9. CASE LoadFile(p) \/ Selects(p)
  <2>1. PICK c \in Caches : Compare(p, c)
    <3>1. [dbs[proc[p].id] EXCEPT !.stamp = proc[p].base.stamp] \in Caches
      <4>1. /\ dbs[proc[p].id] \in Caches
            /\ proc[p].base.stamp \in 0 .. MaxTime
        BY DEF TypeOK, Processes, Caches
      <4> QED
        BY <4>1 DEF Caches
    <3> QED
      BY <1>9, <3>1, NewCacheType DEF LoadFile, Selects, TypeOK
  <2>2. /\ Running(p) /\ note' = note
    BY <1>9 DEF LoadFile, Selects, Ready, Running
  <2>3. Others(p)
        /\ ProcKeeps(p, {"pc", "base", "stamp", "changed", "todo", "fresh"})
    BY <2>1, CompareEffect
  <2> QED
    BY <1>4, <2>2, <2>3 DEF Fields
<1>10. CASE CreateTmp(p)
  BY <1>4, <1>10, CreateTmpEffect DEF CreateTmp, Ready, Running, Fields
<1>11. CASE WriteTmp(p)
  BY <1>4, <1>11, WriteTmpEffect DEF WriteTmp, Ready, Running, Fields
<1>12. CASE RenameTmp(p) \/ Asks(p)
  BY <1>3, <1>12 DEF RenameTmp, Asks, LiveScan
<1>13. CASE Locks(p)
  BY <1>13, SteadyLasts DEF Locks
<1>14. CASE Quits(p)
  BY <1>3, <1>14 DEF Quits, Quarantine, LiveScan
<1>17. CASE Opens(p)
  BY <1>4, <1>17, OpensEffect DEF Opens, Opening, Running, Fields
<1>18. CASE Stamps(p)
  BY <1>4, <1>18, StampsEffect DEF Stamps, Ready, Running, Fields
<1>19. CASE DropTables(p)
  <2>1. /\ note' = note /\ proc[p].pc # "idle" /\ ProcKeeps(p, {"pc"})
        /\ \A q \in Procs \ {p} : ProcKeeps(q, {"overtaken", "dropped"})
    BY <1>19, DropEffect DEF DropTables, Ready
  <2>2. \A q \in Procs : /\ proc'[q].pc # "idle" => proc[q].pc # "idle"
                         /\ proc'[q].walk = proc[q].walk
                         /\ proc'[q].since = proc[q].since
    BY <2>1 DEF ProcKeeps, Fields
  <2> QED
    BY <2>1, <2>2, SteadyLasts
<1>15. CASE Commit(p)
  <2>0. note' = note
    BY <1>15 DEF Commit
  <2>1. \A q \in Procs : ProcKeeps(q, {"pc", "overtaken"})
    BY <1>15, CommitEffect DEF ProcKeeps, Fields
  <2>2. proc[p].pc # "idle"
          /\ \A q \in Procs \ {p} : ProcKeeps(q, {"overtaken"})
    BY <1>15, CommitEffect DEF Commit, Ready
  <2>3. \A q \in Procs : /\ proc'[q].pc # "idle" => proc[q].pc # "idle"
                         /\ proc'[q].walk = proc[q].walk
                         /\ proc'[q].since = proc[q].since
    BY <2>1, <2>2 DEF ProcKeeps, Fields
  <2> QED
    BY <2>0, <2>3, SteadyLasts
<1>16. CASE Ends(p)
  <2>1. note' = note /\ Others(p) /\ proc'[p] = Idle
    BY <1>16 DEF Ends, TypeOK, Others
  <2> QED
    BY <2>1, TurnLasts DEF Idle
<1> QED
  BY <1>1, <1>2, <1>5, <1>7, <1>8, <1>9, <1>10, <1>11, <1>12, <1>13, <1>14,
     <1>15, <1>16, <1>17, <1>18, <1>19, StepMoves DEF Moves

LEMMA NextLasts == TypeOK /\ Tidy /\ [Next]_vars => Lasting
<1> SUFFICES ASSUME TypeOK, Tidy, [Next]_vars PROVE Lasting
  OBVIOUS
<1>1. CASE Tick \/ UNCHANGED vars
  BY <1>1, SteadyLasts DEF Tick, vars
<1>2. CASE PowerCut
  <2>1. note' = note /\ \A p \in Procs : proc'[p].pc = "idle"
    BY <1>2 DEF PowerCut, world, Idle
  <2> QED
    BY <2>1, SteadyLasts
<1>3. CASE \E n \in Notes : Edit(n) \/ Delete(n)
  <2>1. PICK n \in Notes, f \in Files \cup {Absent} :
          Becomes(n, f) /\ (f # Absent => f.sig[1] = now)
    BY <1>3, EditEffect DEF Delete
  <2> QED
    BY <2>1, BecomesLasts
<1> QED
  BY <1>1, <1>2, <1>3, StepLasts DEF Next, World

-----------------------------------------------------------------------------
(* What the processes know, step by step.                                  *)

LEMMA GoodLess ==
  ASSUME NEW r \in Rows \cup {Absent}, NEW n, NEW a \in Int, NEW b \in Int,
         b <= a, NEW notes, NEW procs, Good(r, n, a, notes, procs)
  PROVE  Good(r, n, b, notes, procs)
BY RowFacts DEF Good

LEMMA AbsentGood ==
  ASSUME NEW n, NEW limit, NEW notes, NEW procs
  PROVE  Good(Absent, n, limit, notes, procs)
BY DEF Good

\* Every limit is in the past.
LEMMA LimitFacts ==
  ASSUME TypeOK, Tidy
  PROVE  /\ now \in Int /\ now - Slop \in Int /\ now - Slop <= now
         /\ \A p \in Procs :
              /\ proc[p].base.stamp - Slop \in Int
              /\ proc[p].base.stamp - Slop <= now - Slop
              /\ proc[p].base.stamp - Slop <= now
              /\ proc[p].stamp - Slop \in Int
              /\ proc[p].stamp - Slop <= now - Slop
              /\ proc[p].stamp - Slop <= now
              /\ proc[p].began \in Int /\ proc[p].began <= now
         /\ \A i \in 0 .. MaxRuns :
              /\ dbs[i].stamp - Slop \in Int /\ dbs[i].stamp - Slop <= now
              /\ dbs[i].stamp - Slop <= now - Slop
              /\ inode[i].stamp - Slop \in Int /\ inode[i].stamp - Slop <= now
<1>1. now \in Int /\ Slop \in Nat
  BY BoundsAssumption DEF TypeOK
<1>2. \A x \in Int : x <= now => x - Slop \in Int /\ x - Slop <= now
                                   /\ x - Slop <= now - Slop
  BY <1>1
<1>3. \A p \in Procs : /\ proc[p].base.stamp \in Int /\ proc[p].stamp \in Int
                       /\ proc[p].began \in Int
  BY DEF TypeOK, Processes, Caches
<1>4. \A i \in 0 .. MaxRuns : dbs[i].stamp \in Int /\ inode[i].stamp \in Int
  BY DEF TypeOK, Caches
<1> QED
  BY <1>1, <1>2, <1>3, <1>4 DEF Tidy, Dated

LEMMA RowsOfAll ==
  ASSUME TypeOK, NEW n \in Notes
  PROVE  /\ \A p \in Procs : /\ proc[p].base.row[n] \in Rows \cup {Absent}
                             /\ proc[p].fresh[n] \in Rows \cup {Absent}
                             /\ proc[p].id \in 0 .. MaxRuns
         /\ \A i \in 0 .. MaxRuns : /\ dbs[i].row[n] \in Rows \cup {Absent}
                                    /\ inode[i].row[n] \in Rows \cup {Absent}
<1>1. \A c \in Caches : c.row[n] \in Rows \cup {Absent}
  BY DEF Caches
<1>2. \A p \in Procs : proc[p].base \in Caches
                       /\ proc[p].fresh \in [Notes -> Rows \cup {Absent}]
                       /\ proc[p].id \in 0 .. MaxRuns
  BY DEF TypeOK, Processes
<1>3. \A i \in 0 .. MaxRuns : dbs[i] \in Caches /\ inode[i] \in Caches
  BY DEF TypeOK
<1> QED
  BY <1>1, <1>2, <1>3

LEMMA HonestStays ==
  ASSUME TypeOK, Tidy, Lasting, NEW p \in Procs, Honest(p),
         dbs' = dbs, engine' = engine, ProcKeeps(p, {"since"}),
         \A n \in Notes : proc[p].since[n] \subseteq proc'[p].since[n]
  PROVE  Honest(p)'
<1>1. /\ proc'[p].pc = proc[p].pc /\ proc'[p].scope = proc[p].scope
      /\ proc'[p].todo = proc[p].todo /\ proc'[p].base = proc[p].base
      /\ proc'[p].changed = proc[p].changed /\ proc'[p].fresh = proc[p].fresh
      /\ proc'[p].stamp = proc[p].stamp /\ proc'[p].id = proc[p].id
      /\ proc'[p].began = proc[p].began /\ proc'[p].wrong = proc[p].wrong
      /\ proc'[p].overtaken = proc[p].overtaken
  BY DEF ProcKeeps, Fields
<1>2. \A n \in Notes : \A x \in proc[p].since[n] : x \in proc'[p].since[n]
  OBVIOUS
<1>3. proc[p].scope \subseteq Notes /\ proc[p].changed \subseteq Notes
  BY DEF TypeOK, Processes
<1>4. Ahead(p)'
  BY <1>1, RowsOfAll, LimitFacts DEF Honest, Ahead, GoodCache, Lasting
<1>5. Followed(p)'
  <2> SUFFICES ASSUME engine = "python", proc[p].pc \in {"hash", "read"},
                      NEW n \in Notes,
                      dbs[proc[p].id].row[n] # proc[p].base.row[n]
               PROVE  /\ Good(dbs[proc[p].id].row[n], n, proc[p].stamp - Slop,
                              note', proc')
                      /\ \/ TextIn(dbs[proc[p].id].row[n]) \in proc'[p].since[n]
                         \/ n \in proc[p].overtaken
    BY <1>1 DEF Followed, Seen
  <2>1. /\ Good(dbs[proc[p].id].row[n], n, proc[p].stamp - Slop, note, proc)
        /\ \/ TextIn(dbs[proc[p].id].row[n]) \in proc[p].since[n]
           \/ n \in proc[p].overtaken
    BY DEF Honest, Followed, Seen
  <2> QED
    BY <1>2, <2>1, RowsOfAll, LimitFacts DEF Lasting
<1>6. Kept(p)'
  <2> SUFFICES ASSUME proc[p].pc \in {"hash", "read"},
                      NEW n \in proc[p].scope \ (proc[p].todo \cup proc[p].changed)
               PROVE  /\ Good(proc[p].base.row[n], n, proc[p].began, note', proc')
                      /\ TextIn(proc[p].base.row[n]) \in proc'[p].since[n]
    BY <1>1 DEF Kept, Seen
  <2>1. /\ Good(proc[p].base.row[n], n, proc[p].began, note, proc)
        /\ TextIn(proc[p].base.row[n]) \in proc[p].since[n]
    BY DEF Honest, Kept, Seen
  <2> QED
    BY <1>2, <1>3, <2>1, RowsOfAll, LimitFacts DEF Lasting
<1>7. Fetched(p)'
  BY <1>1, <1>2, <1>3, RowsOfAll, LimitFacts DEF Honest, Fetched, Seen, Lasting
<1>8. Composed(p)'
  BY <1>1, <1>2, RowsOfAll, LimitFacts DEF Honest, Composed, Seen, Lasting
<1>9. Answering(p)'
  BY <1>1, <1>2, <1>3 DEF Honest, Answering, Seen
<1>10. Answered(p)'
  BY <1>1 DEF Honest, Answered
<1> QED
  BY <1>4, <1>5, <1>6, <1>7, <1>8, <1>9, <1>10 DEF Honest

LEMMA CachesStay ==
  ASSUME TypeOK, Tidy, Lasting, GoodCaches, dbs' = dbs,
         \A i \in 0 .. MaxRuns :
           \/ inode'[i] = inode[i] \/ ~inode'[i].whole
           \/ \A n \in Notes : Good(inode'[i].row[n], n, inode'[i].stamp - Slop,
                                    note', proc')
  PROVE  GoodCaches'
<1>1. ASSUME NEW i \in 0 .. MaxRuns, NEW n \in Notes
      PROVE  Good(dbs[i].row[n], n, dbs[i].stamp - Slop, note', proc')
  BY RowsOfAll, LimitFacts DEF GoodCaches, GoodCache, Lasting
<1>2. ASSUME NEW i \in 0 .. MaxRuns, inode[i].whole, NEW n \in Notes
      PROVE  Good(inode[i].row[n], n, inode[i].stamp - Slop, note', proc')
  BY <1>2, RowsOfAll, LimitFacts DEF GoodCaches, GoodCache, Lasting
<1> QED
  BY <1>1, <1>2 DEF GoodCaches, GoodCache

LEMMA TurnSound ==
  ASSUME TypeOK, Tidy, Lasting, Sound, NEW p \in Procs, Others(p),
         dbs' = dbs, engine' = engine,
         \A i \in 0 .. MaxRuns :
           \/ inode'[i] = inode[i] \/ ~inode'[i].whole
           \/ \A n \in Notes : Good(inode'[i].row[n], n, inode'[i].stamp - Slop,
                                    note', proc'),
         Honest(p)'
  PROVE  Sound'
<1>1. GoodCaches'
  BY CachesStay DEF Sound
<1>2. ASSUME NEW q \in Procs, q # p
      PROVE  Honest(q)'
  <2>1. ProcKeeps(q, {"since"}) /\ proc'[q] = proc[q] /\ Honest(q)
    BY <1>2 DEF Others, ProcKeeps, Sound
  <2> QED
    BY <2>1, HonestStays
<1> QED
  BY <1>1, <1>2 DEF Sound

\* One that has ended has answered.
LEMMA EndedHonest ==
  ASSUME NEW p \in Procs, proc'[p].pc = "idle",
         proc'[p].wrong \subseteq proc'[p].overtaken
  PROVE  Honest(p)'
BY DEF Honest, Ahead, Followed, Kept, Fetched, Composed, Answering, Answered

LEMMA ScanHonest ==
  ASSUME TypeOK, Tidy, NEW p \in Procs, Running(p), LiveScan(p)
  PROVE  Honest(p)'
<1>1. proc[p].scope \subseteq Notes /\ Told(p)
  BY DEF TypeOK, Processes, Tidy
<1>2. Answer(p, [n \in Notes |-> TextIn(note[n])])
  BY DEF LiveScan
<1>3. proc'[p].pc = "idle" /\ proc'[p].wrong =
        {n \in proc[p].scope :
           [m \in Notes |-> TextIn(note[m])][n] \notin proc[p].since[n]}
  BY <1>2, AnswerEffect
<1>4. proc'[p].wrong = {}
  BY <1>1, <1>3 DEF Told
<1> QED
  BY <1>3, <1>4, EndedHonest

\* What is settled when nothing is left to hash.
LEMMA DecidedHonest ==
  ASSUME NEW p \in Procs, NEW rest, Decided(p, rest),
         proc'[p].scope \subseteq Notes, proc'[p].changed \subseteq Notes,
         \A n \in proc'[p].scope \ (rest \cup proc'[p].changed) :
           /\ Good(proc'[p].base.row[n], n, proc'[p].began, note', proc')
           /\ TextIn(proc'[p].base.row[n]) \in proc'[p].since[n],
         \A n \in proc'[p].changed :
           proc'[p].walk[n] = Absent => Absent \in proc'[p].since[n],
         engine' = "python" => \A n \in Notes :
           LET r == dbs'[proc'[p].id].row[n] IN
           \/ r = proc'[p].base.row[n]
           \/ /\ Good(r, n, proc'[p].stamp - Slop, note', proc')
              /\ TextIn(r) \in proc'[p].since[n] \/ n \in proc'[p].overtaken,
         engine' \in {"native", "python"}, Answered(p)'
  PROVE  Honest(p)'
<1>1. proc'[p].pc \in {"hash", "read", "query"}
  BY DEF Decided
<1>2. Ahead(p)' /\ Composed(p)'
  BY <1>1 DEF Ahead, Composed
<1>3. Followed(p)'
  BY DEF Followed, Seen
<1>4. Kept(p)'
  <2>1. CASE rest # {}
    BY <2>1 DEF Decided, Kept, Seen
  <2>2. CASE rest = {}
    BY <2>2 DEF Decided, Kept, Seen
  <2> QED
    BY <2>1, <2>2
<1>5. Fetched(p)'
  <2> SUFFICES ASSUME proc'[p].pc = "read"
               PROVE  Fetched(p)'
    BY DEF Fetched
  <2>1. /\ proc'[p].todo = {n \in proc'[p].changed : proc'[p].walk[n] # Absent}
        /\ \A n \in Notes : proc'[p].fresh[n] =
             IF n \in proc'[p].changed /\ proc'[p].walk[n] = Absent THEN Absent
             ELSE proc'[p].base.row[n]
    BY DEF Decided
  <2>2. ASSUME NEW n \in proc'[p].changed \ proc'[p].todo
        PROVE  /\ Good(proc'[p].fresh[n], n, proc'[p].began, note', proc')
               /\ TextIn(proc'[p].fresh[n]) \in proc'[p].since[n]
    <3>1. proc'[p].walk[n] = Absent /\ proc'[p].fresh[n] = Absent
      BY <2>1
    <3> QED
      BY <3>1, AbsentGood DEF TextIn
  <2>3. \A n \in Notes \ proc'[p].changed :
          proc'[p].fresh[n] = proc'[p].base.row[n]
    BY <2>1
  <2> QED
    BY <2>2, <2>3 DEF Fetched, Seen
<1>6. Answering(p)'
  <2> SUFFICES ASSUME proc'[p].pc = "query", NEW n \in proc'[p].scope
               PROVE  IF engine' = "native"
                      THEN TextIn(proc'[p].base.row[n]) \in proc'[p].since[n]
                      ELSE \/ TextIn(dbs'[proc'[p].id].row[n]) \in proc'[p].since[n]
                           \/ n \in proc'[p].overtaken
    BY DEF Answering, Seen
  <2>1. rest = {} /\ proc'[p].changed = {}
    BY DEF Decided
  <2>2. TextIn(proc'[p].base.row[n]) \in proc'[p].since[n]
    BY <2>1
  <2> QED
    BY <2>2
<1> QED
  BY <1>2, <1>3, <1>4, <1>5, <1>6 DEF Honest

-----------------------------------------------------------------------------
(* The steps of a process keep what is known.                              *)

\* One that has not begun its walk has no more to answer for than before.
LEMMA OpeningHonest ==
  ASSUME NEW p \in Procs, proc'[p].pc \in Starting,
         engine' = "python" => proc'[p].pc # "walk",
         proc'[p].wrong \subseteq proc'[p].overtaken
  PROVE  Honest(p)'
BY DEF Starting, Opening, Honest, Ahead, Followed, Kept, Fetched, Composed,
       Answering, Answered

LEMMA StartSound ==
  ASSUME TypeOK, Tidy, Lasting, Sound, NEW p \in Procs,
         NEW scope \in {Notes} \cup Folders, Start(p, scope)
  PROVE  Sound'
<1>1. UNCHANGED <<engine, dbs, inode>>
  BY DEF Start, world, sqlite, files
<1>2. Others(p) /\ Honest(p)'
  BY <1>1, StartEffect, OpeningHonest
<1> QED
  BY <1>1, <1>2, TurnSound

LEMMA OpensSound ==
  ASSUME TypeOK, Tidy, Lasting, Sound, NEW p \in Procs, Opens(p)
  PROVE  Sound'
<1>1. UNCHANGED <<engine, dbs, inode>>
  BY DEF Opens, world, files
<1>2. Others(p) /\ ProcKeeps(p, {"pc"}) /\ proc'[p].pc \in Opening
  BY OpensEffect
<1>3. proc'[p].wrong = proc[p].wrong /\ proc'[p].overtaken = proc[p].overtaken
  BY <1>2 DEF ProcKeeps, Fields
<1>4. Honest(p)'
  BY <1>2, <1>3, OpeningHonest
  DEF Starting, Opening, Sound, Honest, Answered
<1> QED
  BY <1>1, <1>2, <1>4, TurnSound

\* The stamp that is read is the one the database is good by.
LEMMA StampsSound ==
  ASSUME TypeOK, Tidy, Lasting, Sound, NEW p \in Procs, Stamps(p)
  PROVE  Sound'
<1> DEFINE i == proc[p].id
<1>1. UNCHANGED <<engine, dbs, inode>> /\ i \in 0 .. MaxRuns
  BY DEF Stamps, world, sqlite, files, TypeOK, Processes
<1>2. /\ Others(p) /\ ProcKeeps(p, {"pc", "base"}) /\ proc'[p].pc = "walk"
      /\ proc'[p].base.stamp = dbs[i].stamp
  BY StampsEffect
<1>3. /\ proc'[p].id = i /\ proc'[p].wrong = proc[p].wrong
      /\ proc'[p].overtaken = proc[p].overtaken
  BY <1>2 DEF ProcKeeps, Fields
<1>4. Ahead(p)'
  <2> SUFFICES ASSUME NEW n \in Notes
               PROVE  Good(dbs[i].row[n], n, dbs[i].stamp - Slop, note', proc')
    BY <1>1, <1>2, <1>3 DEF Ahead, GoodCache
  <2>1. Good(dbs[i].row[n], n, dbs[i].stamp - Slop, note, proc)
    BY <1>1 DEF Sound, GoodCaches, GoodCache
  <2> QED
    BY <1>1, <2>1, RowsOfAll, LimitFacts DEF Lasting
<1>5. Answered(p)'
  BY <1>3 DEF Sound, Honest, Answered
<1>6. Honest(p)'
  BY <1>2, <1>4, <1>5
  DEF Honest, Followed, Kept, Fetched, Composed, Answering
<1> QED
  BY <1>1, <1>2, <1>6, TurnSound

LEMMA StatSound ==
  ASSUME TypeOK, Tidy, Lasting, Sound, NEW p \in Procs, NEW n \in Notes,
         Stat(p, n)
  PROVE  Sound'
<1>1. UNCHANGED <<engine, dbs, inode>> /\ proc[p].pc = "walk"
  BY DEF Stat, Ready, world, sqlite, files
<1>2. /\ Others(p) /\ ProcKeeps(p, {"pc", "todo", "walk", "began"})
      /\ proc'[p].pc \in {"walk", "load"}
  BY StatEffect
<1>3. /\ proc'[p].base = proc[p].base /\ proc'[p].id = proc[p].id
      /\ proc'[p].wrong = proc[p].wrong /\ proc'[p].overtaken = proc[p].overtaken
  BY <1>2 DEF ProcKeeps, Fields
<1>4. Ahead(p)'
  <2> SUFFICES ASSUME engine = "python", NEW m \in Notes
               PROVE  Good(dbs[proc[p].id].row[m], m, proc[p].base.stamp - Slop,
                           note', proc')
    BY <1>1, <1>3 DEF Ahead, GoodCache
  <2>1. Good(dbs[proc[p].id].row[m], m, proc[p].base.stamp - Slop, note, proc)
    BY <1>1 DEF Sound, Honest, Ahead, GoodCache
  <2> QED
    BY <2>1, RowsOfAll, LimitFacts DEF Lasting
<1>5. Answered(p)'
  BY <1>3 DEF Sound, Honest, Answered
<1>6. Honest(p)'
  BY <1>2, <1>4, <1>5
  DEF Honest, Followed, Kept, Fetched, Composed, Answering
<1> QED
  BY <1>1, <1>2, <1>6, TurnSound

LEMMA ScanSound ==
  ASSUME TypeOK, Tidy, Lasting, Sound, NEW p \in Procs, Running(p), LiveScan(p),
         UNCHANGED <<engine, dbs, inode>>
  PROVE  Sound'
<1>1. Others(p)
  BY AnswerEffect DEF LiveScan
<1> QED
  BY <1>1, ScanHonest, TurnSound

\* A row that is believed is right, for every limit, and it was right while
\* the process ran.
LEMMA Believed ==
  ASSUME TypeOK, Tidy, NEW p \in Procs, proc[p].pc = "load",
         NEW c \in Caches, NEW n \in proc[p].scope,
         Good(c.row[n], n, c.stamp - Slop, note, proc),
         ~Differs(p, c, n), c.row[n] # Absent => ~Young(c, c.row[n].sig),
         NEW limit \in Int
  PROVE  /\ Good(c.row[n], n, limit, note, proc)
         /\ TextIn(c.row[n]) \in proc[p].since[n]
<1>1. Told(p) /\ n \in Notes
  BY DEF Tidy, Running, TypeOK, Processes
<1>2. CASE c.row[n] = Absent
  <2>1. proc[p].walk[n] = Absent
    BY <1>2 DEF Differs
  <2>2. Absent \in proc[p].since[n]
    BY <1>1, <2>1 DEF Told, Starting, Opening
  <2> QED
    BY <1>2, <2>2, AbsentGood DEF TextIn
<1>3. CASE c.row[n] # Absent
  <2>1. c.row[n] \in Rows /\ c.stamp \in Int
    BY <1>1, <1>3 DEF Caches
  <2>2. c.row[n].sig[1] < c.stamp - Slop
    BY <1>3, <2>1, RowFacts, BoundsAssumption DEF Young
  <2>3. c.row[n].sig = proc[p].walk[n]
    BY <1>3 DEF Differs
  <2>4. c.row[n].text \in proc[p].since[n]
    BY <1>3, <2>2, <2>3 DEF Good
  <2>5. Good(c.row[n], n, limit, note, proc)
    BY <1>3, <2>2 DEF Good
  <2> QED
    BY <1>3, <2>4, <2>5 DEF TextIn
<1> QED
  BY <1>2, <1>3

LEMMA CompareHonest ==
  ASSUME TypeOK, Tidy, Lasting, Sound, NEW p \in Procs, proc[p].pc = "load",
         NEW c \in Caches, Compare(p, c),
         \A n \in Notes : Good(c.row[n], n, c.stamp - Slop, note, proc),
         engine = "python" => c.row = dbs[proc[p].id].row,
         UNCHANGED <<engine, dbs>>
  PROVE  Honest(p)'
<1> DEFINE known == {n \in proc[p].scope : ~Differs(p, c, n)}
           rest == {n \in known : c.row[n] # Absent /\ Young(c, c.row[n].sig)}
<1>1. /\ ProcKeeps(p, {"pc", "base", "stamp", "changed", "todo", "fresh"})
      /\ proc'[p].base = c /\ proc'[p].stamp = now
      /\ proc'[p].changed = proc[p].scope \ known
      /\ Decided(p, rest)
  BY CompareEffect
<1>2. /\ proc'[p].scope = proc[p].scope /\ proc'[p].walk = proc[p].walk
      /\ proc'[p].since = proc[p].since /\ proc'[p].began = proc[p].began
      /\ proc'[p].id = proc[p].id /\ proc'[p].wrong = proc[p].wrong
      /\ proc'[p].overtaken = proc[p].overtaken
  BY <1>1 DEF ProcKeeps, Fields
<1>3. proc[p].scope \subseteq Notes /\ Told(p) /\ engine \in {"native", "python"}
  BY EnginesAssumption DEF TypeOK, Processes, Tidy, Running
<1>4. ASSUME NEW n \in proc[p].scope \ (rest \cup (proc[p].scope \ known))
      PROVE  /\ Good(c.row[n], n, proc[p].began, note', proc')
             /\ TextIn(c.row[n]) \in proc[p].since[n]
  <2>1. n \in Notes /\ n \in known /\ n \notin rest
    BY <1>3
  <2>2. ~Differs(p, c, n) /\ (c.row[n] # Absent => ~Young(c, c.row[n].sig))
    BY <2>1
  <2>3. Good(c.row[n], n, c.stamp - Slop, note, proc)
    BY <2>1
  <2>4. proc[p].began \in Int /\ proc[p].began <= now
    BY LimitFacts
  <2>5. /\ Good(c.row[n], n, proc[p].began, note, proc)
        /\ TextIn(c.row[n]) \in proc[p].since[n]
    BY <2>1, <2>2, <2>3, <2>4, Believed
  <2>6. c.row[n] \in Rows \cup {Absent}
    BY <2>1 DEF Caches
  <2> QED
    BY <2>1, <2>4, <2>5, <2>6 DEF Lasting
<1>5. \A n \in proc[p].scope \ known :
        proc[p].walk[n] = Absent => Absent \in proc[p].since[n]
  BY <1>3 DEF Told, Starting, Opening
<1>6. Answered(p)'
  BY <1>2 DEF Sound, Honest, Answered
<1> HIDE DEF rest, known
<1>7. /\ proc'[p].scope \subseteq Notes /\ proc'[p].changed \subseteq Notes
      /\ \A n \in proc'[p].scope \ (rest \cup proc'[p].changed) :
           /\ Good(proc'[p].base.row[n], n, proc'[p].began, note', proc')
           /\ TextIn(proc'[p].base.row[n]) \in proc'[p].since[n]
      /\ \A n \in proc'[p].changed :
           proc'[p].walk[n] = Absent => Absent \in proc'[p].since[n]
  BY <1>1, <1>2, <1>3, <1>4, <1>5
<1>8. engine' = "python" =>
        \A n \in Notes : dbs'[proc'[p].id].row[n] = proc'[p].base.row[n]
  BY <1>1, <1>2
<1>9. engine' \in {"native", "python"}
  BY <1>3
<1> QED
  BY <1>1, <1>6, <1>7, <1>8, <1>9, DecidedHonest

LEMMA LoadSound ==
  ASSUME TypeOK, Tidy, Lasting, Sound, NEW p \in Procs,
         LoadFile(p) \/ Selects(p)
  PROVE  Sound'
<1>1. UNCHANGED <<engine, dbs, inode>> /\ proc[p].pc = "load"
  BY DEF LoadFile, Selects, Ready, world, sqlite, files
<1>2. PICK c \in Caches :
        /\ Compare(p, c)
        /\ \A n \in Notes : Good(c.row[n], n, c.stamp - Slop, note, proc)
        /\ engine = "python" => c.row = dbs[proc[p].id].row
  <2>1. CASE LoadFile(p)
    <3>1. engine = "native" /\ vvidx \in 0 .. MaxRuns
            /\ Compare(p, IF inode[vvidx].whole THEN inode[vvidx] ELSE NewCache)
      BY <2>1 DEF LoadFile, Verify, TypeOK
    <3>2. CASE inode[vvidx].whole
      <4>1. \A n \in Notes : Good(inode[vvidx].row[n], n,
                                  inode[vvidx].stamp - Slop, note, proc)
        BY <3>1, <3>2 DEF Sound, GoodCaches, GoodCache
      <4>2. inode[vvidx] \in Caches /\ engine # "python"
        BY <3>1 DEF TypeOK
      <4> QED
        BY <3>1, <3>2, <4>1, <4>2
    <3>3. CASE ~inode[vvidx].whole
      <4>1. \A n \in Notes : Good(NewCache.row[n], n,
                                  NewCache.stamp - Slop, note, proc)
        BY NewCacheType, AbsentGood DEF NoRows
      <4>2. NewCache \in Caches /\ engine # "python"
        BY <3>1, NewCacheType
      <4> QED
        BY <3>1, <3>3, <4>1, <4>2
    <3> QED
      BY <3>2, <3>3
  <2>2. CASE Selects(p)
    <3>1. dbs[proc[p].id] \in Caches /\ proc[p].base.stamp \in 0 .. MaxTime
      BY DEF TypeOK, Processes, Caches
    <3> DEFINE c == [dbs[proc[p].id] EXCEPT !.stamp = proc[p].base.stamp]
    <3>2. /\ c \in Caches /\ c.stamp = proc[p].base.stamp
          /\ c.row = dbs[proc[p].id].row
      BY <3>1 DEF Caches
    <3>3. Compare(p, c) /\ engine = "python"
      BY <2>2 DEF Selects
    <3> HIDE DEF c
    <3>4. \A n \in Notes : Good(c.row[n], n, c.stamp - Slop, note, proc)
      BY <1>1, <3>2, <3>3 DEF Sound, Honest, Ahead, GoodCache
    <3> QED
      BY <3>2, <3>3, <3>4
  <2> QED
    BY <2>1, <2>2
<1>3. Honest(p)'
  BY <1>1, <1>2, CompareHonest
<1>4. Others(p)
  BY <1>2, CompareEffect
<1> QED
  BY <1>1, <1>3, <1>4, TurnSound

\* A row with the text that the note has is right, for every limit, and it is
\* right while any process runs.
LEMMA OfNow ==
  ASSUME TypeOK, Tidy, NEW n \in Notes, NEW r, NEW limit,
         note[n] # Absent, r.text = note[n].text
  PROVE  Good(r, n, limit, note, proc)
<1>1. \A q \in Procs : proc[q].pc # "idle" => r.text \in proc[q].since[n]
  BY DEF Tidy, Told, Running, TextIn
<1> QED
  BY <1>1 DEF Good

LEMMA HashSound ==
  ASSUME TypeOK, Tidy, Lasting, Sound, NEW p \in Procs, NEW n \in Notes,
         Hash(p, n)
  PROVE  Sound'
<1>1. /\ UNCHANGED <<engine, note, dbs, inode>> /\ proc[p].pc = "hash"
      /\ n \in proc[p].todo /\ Running(p)
  BY DEF Hash, Ready, Running, world, sqlite, files
<1>2. CASE engine = "native" /\ ~Exists(n)
  BY <1>1, <1>2, ScanSound DEF Hash
<1>3. CASE ~(engine = "native" /\ ~Exists(n))
  <2>1. /\ Others(p) /\ ProcKeeps(p, {"pc", "changed", "todo", "fresh"})
        /\ proc'[p].changed =
             IF TextIn(note[n]) # proc[p].base.row[n].text
             THEN proc[p].changed \cup {n} ELSE proc[p].changed
        /\ Decided(p, proc[p].todo \ {n})
    BY <1>3, HashEffect
  <2>2. /\ proc'[p].scope = proc[p].scope /\ proc'[p].walk = proc[p].walk
        /\ proc'[p].since = proc[p].since /\ proc'[p].began = proc[p].began
        /\ proc'[p].id = proc[p].id /\ proc'[p].wrong = proc[p].wrong
        /\ proc'[p].overtaken = proc[p].overtaken
        /\ proc'[p].base = proc[p].base /\ proc'[p].stamp = proc[p].stamp
    BY <2>1 DEF ProcKeeps, Fields
  <2>3. /\ proc[p].scope \subseteq Notes /\ Told(p) /\ Looked(p)
        /\ engine \in {"native", "python"}
    BY <1>1, EnginesAssumption DEF TypeOK, Processes, Tidy, Running
  <2>4. proc[p].base.row[n] \in Rows
    BY <1>1, <2>3, RowsOfAll DEF Looked
  <2>5. n \notin proc'[p].changed =>
          Exists(n) /\ proc[p].base.row[n].text = note[n].text
    <3>1. proc[p].base.row[n].text # Absent
      BY <2>4, RowFacts, SentinelFacts
    <3> QED
      BY <2>1, <3>1 DEF TextIn, Exists
  <2>6. ASSUME NEW m \in proc[p].scope \ ((proc[p].todo \ {n}) \cup proc'[p].changed)
        PROVE  /\ Good(proc[p].base.row[m], m, proc[p].began, note', proc')
               /\ TextIn(proc[p].base.row[m]) \in proc[p].since[m]
    <3>1. m \in Notes /\ m \in proc[p].scope /\ m \notin proc'[p].changed
      BY <2>3
    <3>2. /\ Good(proc[p].base.row[m], m, proc[p].began, note, proc)
          /\ TextIn(proc[p].base.row[m]) \in proc[p].since[m]
      <4>1. CASE m = n
        <5>1. note[n] # Absent /\ proc[p].base.row[n].text = note[n].text
          BY <2>5, <3>1, <4>1 DEF Exists
        <5>2. Good(proc[p].base.row[n], n, proc[p].began, note, proc)
          BY <3>1, <4>1, <5>1, OfNow
        <5>3. TextIn(proc[p].base.row[n]) = TextIn(note[n])
          BY <2>4, <5>1, RowFacts DEF TextIn
        <5> QED
          BY <2>3, <3>1, <4>1, <5>2, <5>3 DEF Told
      <4>2. CASE m # n
        <5>1. m \in proc[p].scope \ (proc[p].todo \cup proc[p].changed)
          BY <2>1, <4>2
        <5> QED
          BY <1>1, <5>1 DEF Sound, Honest, Kept, Seen
      <4> QED
        BY <4>1, <4>2
    <3>3. proc[p].base.row[m] \in Rows \cup {Absent}
      BY <3>1, RowsOfAll
    <3> QED
      BY <3>1, <3>2, <3>3, LimitFacts DEF Lasting
  <2>7. proc'[p].changed \subseteq proc[p].scope
    BY <1>1, <2>1, <2>3 DEF Looked
  <2>8. \A m \in proc'[p].changed :
          proc[p].walk[m] = Absent => Absent \in proc[p].since[m]
    BY <1>1, <2>3, <2>7 DEF Told, Starting, Opening
  <2>9. ASSUME engine = "python", NEW m \in Notes,
               dbs[proc[p].id].row[m] # proc[p].base.row[m]
        PROVE  LET r == dbs[proc[p].id].row[m] IN
               /\ Good(r, m, proc[p].stamp - Slop, note', proc')
               /\ TextIn(r) \in proc[p].since[m] \/ m \in proc[p].overtaken
    <3>1. LET r == dbs[proc[p].id].row[m] IN
          /\ Good(r, m, proc[p].stamp - Slop, note, proc)
          /\ TextIn(r) \in proc[p].since[m] \/ m \in proc[p].overtaken
      BY <1>1, <2>9 DEF Sound, Honest, Followed, Seen
    <3> QED
      BY <3>1, RowsOfAll, LimitFacts DEF Lasting
  <2>10. Answered(p)'
    BY <2>2 DEF Sound, Honest, Answered
  <2> DEFINE rest == proc[p].todo \ {n}
  <2>11. Decided(p, rest) /\ rest \subseteq proc[p].scope
    BY <2>1, <2>3 DEF Looked
  <2>12. \A m \in proc'[p].scope \ (rest \cup proc'[p].changed) :
           /\ Good(proc'[p].base.row[m], m, proc'[p].began, note', proc')
           /\ TextIn(proc'[p].base.row[m]) \in proc'[p].since[m]
    BY <2>2, <2>6
  <2> HIDE DEF rest
  <2>13. engine' = "python" => \A m \in Notes :
           LET r == dbs'[proc'[p].id].row[m] IN
           \/ r = proc'[p].base.row[m]
           \/ /\ Good(r, m, proc'[p].stamp - Slop, note', proc')
              /\ TextIn(r) \in proc'[p].since[m] \/ m \in proc'[p].overtaken
    BY <1>1, <2>2, <2>9
  <2>14. /\ proc'[p].scope \subseteq Notes /\ proc'[p].changed \subseteq Notes
         /\ engine' \in {"native", "python"}
         /\ \A m \in proc'[p].changed :
              proc'[p].walk[m] = Absent => Absent \in proc'[p].since[m]
    BY <1>1, <2>2, <2>3, <2>7, <2>8
  <2>15. Honest(p)'
    BY <2>10, <2>11, <2>12, <2>13, <2>14, DecidedHonest
  <2> QED
    BY <1>1, <2>1, <2>15, TurnSound
<1> QED
  BY <1>2, <1>3

\* A process takes a row with the text that the note has, or takes note that
\* there is none.
LEMMA FetchSound ==
  ASSUME TypeOK, Tidy, Lasting, Sound, NEW p \in Procs, NEW n \in proc[p].todo,
         NEW r \in Rows \cup {Absent}, proc[p].pc = "read",
         TextIn(r) = TextIn(note[n]),
         proc' = [proc EXCEPT ![p] =
           [proc[p] EXCEPT !.todo = proc[p].todo \ {n}, !.fresh[n] = r]],
         UNCHANGED <<engine, note, dbs, inode>>
  PROVE  Sound'
<1>1. Told(p) /\ Looked(p) /\ proc[p].scope \subseteq Notes /\ n \in Notes
        /\ n \in proc[p].changed /\ proc[p].changed \subseteq Notes
  BY DEF Tidy, Running, TypeOK, Processes, Looked
<1>2. /\ Others(p) /\ ProcKeeps(p, {"todo", "fresh"})
      /\ proc'[p].todo = proc[p].todo \ {n}
      /\ proc'[p].fresh = [proc[p].fresh EXCEPT ![n] = r]
  BY <1>1, FetchEffect
<1>3. /\ proc'[p].scope = proc[p].scope /\ proc'[p].changed = proc[p].changed
      /\ proc'[p].since = proc[p].since /\ proc'[p].began = proc[p].began
      /\ proc'[p].id = proc[p].id /\ proc'[p].wrong = proc[p].wrong
      /\ proc'[p].overtaken = proc[p].overtaken /\ proc'[p].pc = "read"
      /\ proc'[p].base = proc[p].base /\ proc'[p].stamp = proc[p].stamp
  BY <1>2 DEF ProcKeeps, Fields
<1>4. /\ proc'[p].fresh[n] = r
      /\ \A m \in Notes \ {n} : proc'[p].fresh[m] = proc[p].fresh[m]
  BY <1>1, <1>2 DEF TypeOK, Processes
<1>5. Ahead(p)' /\ Composed(p)' /\ Answering(p)'
  BY <1>3 DEF Ahead, Composed, Answering
<1>6. Followed(p)'
  <2> SUFFICES ASSUME engine = "python", NEW m \in Notes,
                      dbs[proc[p].id].row[m] # proc[p].base.row[m]
               PROVE  /\ Good(dbs[proc[p].id].row[m], m, proc[p].stamp - Slop,
                              note', proc')
                      /\ \/ TextIn(dbs[proc[p].id].row[m]) \in proc[p].since[m]
                         \/ m \in proc[p].overtaken
    BY <1>3 DEF Followed, Seen
  <2>1. /\ Good(dbs[proc[p].id].row[m], m, proc[p].stamp - Slop, note, proc)
        /\ \/ TextIn(dbs[proc[p].id].row[m]) \in proc[p].since[m]
           \/ m \in proc[p].overtaken
    BY DEF Sound, Honest, Followed, Seen
  <2> QED
    BY <2>1, RowsOfAll, LimitFacts DEF Lasting
<1>7. Kept(p)'
  <2> SUFFICES ASSUME NEW m \in proc[p].scope \ (proc[p].todo \cup proc[p].changed)
               PROVE  /\ Good(proc[p].base.row[m], m, proc[p].began, note', proc')
                      /\ TextIn(proc[p].base.row[m]) \in proc[p].since[m]
    BY <1>1, <1>2, <1>3 DEF Kept, Seen
  <2>1. /\ Good(proc[p].base.row[m], m, proc[p].began, note, proc)
        /\ TextIn(proc[p].base.row[m]) \in proc[p].since[m]
    BY DEF Sound, Honest, Kept, Seen
  <2> QED
    BY <1>1, <2>1, RowsOfAll, LimitFacts DEF Lasting
<1>8. Fetched(p)'
  <2>1. ASSUME NEW m \in proc[p].changed \ (proc[p].todo \ {n})
        PROVE  /\ Good(proc'[p].fresh[m], m, proc[p].began, note', proc')
               /\ TextIn(proc'[p].fresh[m]) \in proc[p].since[m]
    <3>1. CASE m = n
      <4>1. TextIn(r) \in proc[p].since[n]
        BY <1>1 DEF Told
      <4>2. Good(r, n, proc[p].began, note, proc)
        <5>1. CASE r = Absent
          BY <5>1, AbsentGood
        <5>2. CASE r # Absent
          <6>1. r.text # Absent
            BY <5>2, RowFacts, SentinelFacts
          <6>2. note[n] # Absent /\ r.text = note[n].text
            BY <5>2, <6>1 DEF TextIn
          <6> QED
            BY <1>1, <6>2, OfNow
        <5> QED
          BY <5>1, <5>2
      <4>3. Good(r, n, proc[p].began, note', proc')
        BY <1>1, <4>2, LimitFacts DEF Lasting
      <4> QED
        BY <1>4, <3>1, <4>1, <4>3
    <3>2. CASE m # n
      <4>1. m \in proc[p].changed \ proc[p].todo /\ m \in Notes
        BY <1>1, <3>2
      <4>2. /\ Good(proc[p].fresh[m], m, proc[p].began, note, proc)
            /\ TextIn(proc[p].fresh[m]) \in proc[p].since[m]
        BY <4>1 DEF Sound, Honest, Fetched, Seen
      <4>3. proc'[p].fresh[m] = proc[p].fresh[m]
        BY <1>4, <3>2, <4>1
      <4> QED
        BY <4>1, <4>2, <4>3, RowsOfAll, LimitFacts DEF Lasting
    <3> QED
      BY <3>1, <3>2
  <2>2. \A m \in Notes \ proc[p].changed :
          proc'[p].fresh[m] = proc[p].base.row[m]
    BY <1>1, <1>4 DEF Sound, Honest, Fetched
  <2> QED
    BY <1>2, <1>3, <2>1, <2>2 DEF Fetched, Seen
<1>9. Answered(p)'
  BY <1>3 DEF Sound, Honest, Answered
<1>10. Honest(p)'
  BY <1>5, <1>6, <1>7, <1>8, <1>9 DEF Honest
<1> QED
  BY <1>2, <1>10, TurnSound

LEMMA ReadSound ==
  ASSUME TypeOK, Tidy, Lasting, Sound, NEW p \in Procs, NEW n \in Notes,
         LexNote(p, n) \/ ParseNote(p, n)
  PROVE  Sound'
<1>1. /\ UNCHANGED <<engine, note, dbs, inode>> /\ proc[p].pc = "read"
      /\ n \in proc[p].todo /\ Running(p) /\ Looked(p)
  BY DEF LexNote, ParseNote, Quarantine, Ready, Running, world, sqlite, files, Tidy
<1>2. CASE LexNote(p, n) /\ Exists(n)
  <2> DEFINE r == [text |-> note[n].text, sig |-> proc[p].walk[n]]
  <2>1. r \in Rows
    BY <1>1, <1>2, RowsRead
  <2>2. proc' = [proc EXCEPT ![p] =
          [proc[p] EXCEPT !.todo = proc[p].todo \ {n}, !.fresh[n] = r]]
    BY <1>2 DEF LexNote
  <2>3. r.text = note[n].text
    OBVIOUS
  <2> HIDE DEF r
  <2>4. TextIn(r) = TextIn(note[n])
    BY <1>2, <2>1, <2>3, RowFacts DEF TextIn, Exists
  <2> QED
    BY <1>1, <2>1, <2>2, <2>4, FetchSound
<1>3. CASE LiveScan(p)
  BY <1>1, <1>3, ScanSound
<1>4. CASE ParseNote(p, n) /\ ~Quarantine(p)
  <2>1. note[n] \in Rows \cup {Absent}
    BY <1>1, RowsRead
  <2>2. proc' = [proc EXCEPT ![p] =
          [proc[p] EXCEPT !.todo = proc[p].todo \ {n}, !.fresh[n] = note[n]]]
    BY <1>4 DEF ParseNote
  <2> QED
    BY <1>1, <2>1, <2>2, FetchSound
<1> QED
  BY <1>2, <1>3, <1>4 DEF LexNote, Quarantine

\* A process that has read everything and is not slow has rows that are right
\* up to the racy window.
LEMMA FreshRows ==
  ASSUME TypeOK, Tidy, Sound, NEW p \in Procs, proc[p].pc = "read",
         proc[p].todo = {}, ~Outlasts(p), NEW n \in proc[p].changed
  PROVE  /\ n \in Notes /\ proc[p].fresh[n] \in Rows \cup {Absent}
         /\ now - Slop <= proc[p].began
         /\ \A limit \in Int : limit <= now - Slop =>
              Good(proc[p].fresh[n], n, limit, note, proc)
         /\ TextIn(proc[p].fresh[n]) \in proc[p].since[n]
<1>1. n \in Notes
  BY DEF TypeOK, Processes
<1>2. proc[p].fresh[n] \in Rows \cup {Absent}
  BY <1>1, RowsOfAll
<1>3. /\ Good(proc[p].fresh[n], n, proc[p].began, note, proc)
      /\ TextIn(proc[p].fresh[n]) \in proc[p].since[n]
  BY DEF Sound, Honest, Fetched, Seen
<1>4. now - Slop <= proc[p].began /\ proc[p].began \in Int /\ now - Slop \in Int
  BY LimitFacts, BoundsAssumption DEF Outlasts
<1>5. \A limit \in Int : limit <= now - Slop => limit <= proc[p].began
  BY <1>4
<1> QED
  BY <1>1, <1>2, <1>3, <1>4, <1>5, GoodLess

LEMMA CreateTmpSound ==
  ASSUME TypeOK, Tidy, Lasting, Sound, NEW p \in Procs, CreateTmp(p), ~slow'
  PROVE  Sound'
<1>1. /\ UNCHANGED <<engine, note, now, dbs>> /\ engine = "native"
      /\ proc[p].pc = "read" /\ proc[p].todo = {} /\ ~Outlasts(p)
  BY DEF CreateTmp, Ready, world, sqlite
<1>2. PICK i \in 0 .. MaxRuns : inode' = [inode EXCEPT ![i] = Empty]
  BY CreateTmpEffect
<1>3. \A j \in 0 .. MaxRuns : inode'[j] = inode[j] \/ ~inode'[j].whole
  BY <1>2, NewCacheType DEF TypeOK
<1>4. /\ Others(p) /\ ProcKeeps(p, {"pc", "id", "stamp"})
      /\ proc'[p].pc = "write" /\ proc'[p].stamp = now
  BY CreateTmpEffect
<1>5. /\ proc'[p].fresh = proc[p].fresh /\ proc'[p].since = proc[p].since
      /\ proc'[p].wrong = proc[p].wrong /\ proc'[p].overtaken = proc[p].overtaken
  BY <1>4 DEF ProcKeeps, Fields
<1>6. proc[p].scope = Notes /\ proc[p].changed \subseteq Notes
  BY <1>1 DEF Tidy, Looked, Running, TypeOK, Processes
<1>7. ASSUME NEW n \in Notes
      PROVE  /\ Good(proc[p].fresh[n], n, now - Slop, note, proc)
             /\ TextIn(proc[p].fresh[n]) \in proc[p].since[n]
  <2>1. CASE n \in proc[p].changed
    BY <1>1, <2>1, FreshRows, LimitFacts
  <2>2. CASE n \notin proc[p].changed
    <3>1. proc[p].fresh[n] = proc[p].base.row[n]
      BY <1>1, <2>2 DEF Sound, Honest, Fetched
    <3>2. /\ Good(proc[p].base.row[n], n, proc[p].began, note, proc)
          /\ TextIn(proc[p].base.row[n]) \in proc[p].since[n]
      BY <1>1, <1>6, <2>2 DEF Sound, Honest, Kept, Seen
    <3>3. now - Slop <= proc[p].began /\ proc[p].began \in Int
      BY <1>1, LimitFacts, BoundsAssumption DEF Outlasts
    <3> QED
      BY <3>1, <3>2, <3>3, RowsOfAll, LimitFacts, GoodLess
  <2> QED
    BY <2>1, <2>2
<1>8. \A n \in Notes : Good(proc[p].fresh[n], n, now - Slop, note', proc')
  BY <1>7, RowsOfAll, LimitFacts DEF Lasting
<1>9. Composed(p)'
  BY <1>4, <1>5, <1>7, <1>8 DEF Composed, Seen
<1>10. Answered(p)'
  BY <1>5 DEF Sound, Honest, Answered
<1>11. Honest(p)'
  BY <1>4, <1>9, <1>10
  DEF Honest, Ahead, Followed, Kept, Fetched, Answering
<1> QED
  BY <1>1, <1>3, <1>4, <1>11, TurnSound

LEMMA WriteTmpSound ==
  ASSUME TypeOK, Tidy, Lasting, Sound, NEW p \in Procs, WriteTmp(p)
  PROVE  Sound'
<1>1. /\ UNCHANGED <<engine, note, dbs>> /\ proc[p].pc = "write"
      /\ proc[p].id \in 0 .. MaxRuns
  BY DEF WriteTmp, Ready, world, sqlite, TypeOK, Processes
<1>2. PICK mine \in Caches :
        /\ mine.stamp = proc[p].stamp /\ mine.row = proc[p].fresh
        /\ \E f \in {mine, TornOf(mine)} :
             inode' = [inode EXCEPT ![proc[p].id] = f]
  BY WriteTmpEffect
<1>3. \A n \in Notes : Good(mine.row[n], n, mine.stamp - Slop, note, proc)
  BY <1>1, <1>2 DEF Sound, Honest, Composed
<1>4. \A n \in Notes : Good(mine.row[n], n, mine.stamp - Slop, note', proc')
  BY <1>2, <1>3, RowsOfAll, LimitFacts DEF Lasting
<1>5. ~TornOf(mine).whole
  BY TornType
<1>6. \A j \in 0 .. MaxRuns :
        \/ inode'[j] = inode[j] \/ ~inode'[j].whole
        \/ \A n \in Notes : Good(inode'[j].row[n], n, inode'[j].stamp - Slop,
                                 note', proc')
  <2>1. PICK f \in {mine, TornOf(mine)} :
          inode' = [inode EXCEPT ![proc[p].id] = f]
    BY <1>2
  <2>2. \/ ~f.whole
        \/ \A n \in Notes : Good(f.row[n], n, f.stamp - Slop, note', proc')
    BY <1>4, <1>5
  <2>3. inode'[proc[p].id] = f
          /\ \A j \in 0 .. MaxRuns \ {proc[p].id} : inode'[j] = inode[j]
    BY <1>1, <2>1 DEF TypeOK
  <2> QED
    BY <2>2, <2>3
<1>7. Others(p) /\ ProcKeeps(p, {"pc"}) /\ proc'[p].pc = "rename"
  BY WriteTmpEffect
<1>8. /\ proc'[p].fresh = proc[p].fresh /\ proc'[p].since = proc[p].since
      /\ proc'[p].wrong = proc[p].wrong /\ proc'[p].overtaken = proc[p].overtaken
  BY <1>7 DEF ProcKeeps, Fields
<1>9. Composed(p)'
  BY <1>1, <1>7, <1>8 DEF Sound, Honest, Composed, Seen
<1>10. Answered(p)'
  BY <1>8 DEF Sound, Honest, Answered
<1>11. Honest(p)'
  BY <1>7, <1>9, <1>10
  DEF Honest, Ahead, Followed, Kept, Fetched, Answering
<1> QED
  BY <1>1, <1>6, <1>7, <1>11, TurnSound

LEMMA EndSound ==
  ASSUME TypeOK, Tidy, Lasting, Sound, NEW p \in Procs,
         RenameTmp(p) \/ Asks(p)
  PROVE  Sound'
<1>1. UNCHANGED <<engine, note, dbs, inode>> /\ Running(p)
  BY DEF RenameTmp, Asks, Ready, Running, world, sqlite, files
<1>2. proc[p].scope \subseteq Notes
  BY DEF TypeOK, Processes
<1>3. ASSUME NEW text, Answer(p, text),
             \A n \in proc[p].scope :
               text[n] \in proc[p].since[n] \/ n \in proc[p].overtaken
      PROVE  Sound'
  <2>1. /\ Others(p) /\ proc'[p].pc = "idle"
        /\ proc'[p].wrong = {n \in proc[p].scope : text[n] \notin proc[p].since[n]}
        /\ proc'[p].overtaken = proc[p].overtaken
    BY <1>3, AnswerEffect
  <2>2. Honest(p)'
    BY <1>3, <2>1, EndedHonest
  <2> QED
    BY <1>1, <2>1, <2>2, TurnSound
<1>4. CASE RenameTmp(p)
  <2>1. CASE LiveScan(p)
    BY <1>1, <2>1, ScanSound
  <2>2. CASE ~LiveScan(p)
    <3> DEFINE text == [n \in Notes |-> TextIn(proc[p].fresh[n])]
    <3>1. Answer(p, text) /\ proc[p].pc = "rename"
      BY <1>4, <2>2 DEF RenameTmp, Ready
    <3>2. \A n \in proc[p].scope : text[n] \in proc[p].since[n]
      BY <1>2, <3>1 DEF Sound, Honest, Composed, Seen
    <3> QED
      BY <1>3, <3>1, <3>2
  <2> QED
    BY <2>1, <2>2
<1>5. CASE Asks(p)
  <2> DEFINE c == IF engine = "native" THEN proc[p].base ELSE dbs[proc[p].id]
             text == [n \in Notes |-> TextIn(c.row[n])]
  <2>1. Answer(p, text) /\ proc[p].pc = "query"
    BY <1>5 DEF Asks, Ready
  <2>2. \A n \in proc[p].scope :
          TextIn(c.row[n]) \in proc[p].since[n] \/ n \in proc[p].overtaken
    BY <2>1 DEF Sound, Honest, Answering, Seen
  <2>3. \A n \in proc[p].scope : text[n] = TextIn(c.row[n])
    BY <1>2
  <2> HIDE DEF c
  <2>4. \A n \in proc[p].scope :
          text[n] \in proc[p].since[n] \/ n \in proc[p].overtaken
    BY <2>2, <2>3
  <2> QED
    BY <1>3, <2>1, <2>4
<1> QED
  BY <1>4, <1>5

LEMMA EndsSound ==
  ASSUME TypeOK, Tidy, Lasting, Sound, NEW p \in Procs, Ends(p)
  PROVE  Sound'
<1>1. UNCHANGED <<engine, dbs, inode>> /\ Others(p) /\ proc'[p] = Idle
  BY DEF Ends, world, files, TypeOK, Others
<1>2. Honest(p)'
  BY <1>1, EndedHonest DEF Idle
<1> QED
  BY <1>1, <1>2, TurnSound

(***************************************************************************)
(* A commit: the rows of the database that it changes are right up to the  *)
(* racy window, and those it leaves alone are those of before.             *)
(***************************************************************************)
LEMMA CommitRows ==
  ASSUME TypeOK, Tidy, Lasting, Sound, NEW p \in Procs, Commit(p), ~slow',
         NEW n \in Notes
  PROVE  LET i == proc[p].id IN
         /\ n \in proc[p].changed =>
              /\ dbs'[i].row[n] = proc[p].fresh[n]
              /\ \A limit \in Int : limit <= now - Slop =>
                   Good(dbs'[i].row[n], n, limit, note', proc')
         /\ n \notin proc[p].changed => dbs'[i].row[n] = dbs[i].row[n]
<1>1. /\ proc[p].pc = "read" /\ proc[p].todo = {} /\ ~Outlasts(p)
      /\ proc[p].changed \subseteq Notes
  BY DEF Commit, Ready, TypeOK, Processes
<1>2. dbs'[proc[p].id].row[n] =
        IF n \in proc[p].changed THEN proc[p].fresh[n]
        ELSE dbs[proc[p].id].row[n]
  BY CommitEffect
<1>3. ASSUME n \in proc[p].changed, NEW limit \in Int, limit <= now - Slop
      PROVE  Good(proc[p].fresh[n], n, limit, note', proc')
  <2>1. Good(proc[p].fresh[n], n, limit, note, proc)
    BY <1>1, <1>3, FreshRows
  <2>2. limit <= now
    BY <1>3, LimitFacts, BoundsAssumption
  <2> QED
    BY <1>3, <2>1, <2>2, RowsOfAll DEF Lasting
<1> QED
  BY <1>2, <1>3

LEMMA CommitCaches ==
  ASSUME TypeOK, Tidy, Lasting, Sound, NEW p \in Procs, Commit(p), ~slow'
  PROVE  GoodCaches'
<1> DEFINE i == proc[p].id
<1>1. /\ proc[p].pc = "read" /\ proc[p].todo = {} /\ ~Outlasts(p)
      /\ engine = "python" /\ inode' = inode /\ i \in 0 .. MaxRuns
  BY DEF Commit, Ready, files, TypeOK, Processes
<1>2. /\ dbs'[i].stamp = Stamped(p, dbs[i])
      /\ \A j \in 0 .. MaxRuns \ {i} : dbs'[j] = dbs[j]
  BY CommitEffect
<1>3. ASSUME NEW j \in 0 .. MaxRuns, inode[j].whole, NEW n \in Notes
      PROVE  Good(inode[j].row[n], n, inode[j].stamp - Slop, note', proc')
  BY <1>3, RowsOfAll, LimitFacts DEF Sound, GoodCaches, GoodCache, Lasting
<1>4. ASSUME NEW j \in 0 .. MaxRuns, NEW n \in Notes
      PROVE  Good(dbs[j].row[n], n, dbs[j].stamp - Slop, note', proc')
  BY RowsOfAll, LimitFacts DEF Sound, GoodCaches, GoodCache, Lasting
<1>5. ASSUME NEW n \in Notes
      PROVE  Good(dbs'[i].row[n], n, Stamped(p, dbs[i]) - Slop, note', proc')
  <2>1. Stamped(p, dbs[i]) - Slop \in Int /\ Stamped(p, dbs[i]) - Slop <= now - Slop
    BY <1>1, LimitFacts DEF Stamped
  <2>2. CASE n \in proc[p].changed
    BY <2>1, <2>2, CommitRows
  <2>3. CASE n \notin proc[p].changed /\ proc[p].scope # Notes
    <3>1. Stamped(p, dbs[i]) = dbs[i].stamp
      BY <2>3 DEF Stamped
    <3>2. dbs'[i].row[n] = dbs[i].row[n]
      BY <2>3, CommitRows
    <3> QED
      BY <1>1, <1>4, <3>1, <3>2
  <2>4. CASE n \notin proc[p].changed /\ proc[p].scope = Notes
    <3>1. dbs'[i].row[n] = dbs[i].row[n] /\ Stamped(p, dbs[i]) = proc[p].stamp
      BY <2>4, CommitRows DEF Stamped
    <3>2. CASE dbs[i].row[n] = proc[p].base.row[n]
      <4>1. Good(proc[p].base.row[n], n, proc[p].began, note, proc)
        BY <1>1, <2>4 DEF Sound, Honest, Kept
      <4>2. proc[p].stamp - Slop <= proc[p].began /\ proc[p].stamp - Slop \in Int
              /\ proc[p].began \in Int
        <5>1. /\ now - Slop <= proc[p].began /\ proc[p].began \in Int
              /\ now - Slop \in Int
          BY <1>1, LimitFacts, BoundsAssumption DEF Outlasts
        <5>2. proc[p].stamp - Slop \in Int /\ proc[p].stamp - Slop <= now - Slop
          BY LimitFacts
        <5> QED
          BY <5>1, <5>2
      <4>3. Good(proc[p].base.row[n], n, proc[p].stamp - Slop, note, proc)
        BY <4>1, <4>2, RowsOfAll, GoodLess
      <4> QED
        BY <3>1, <3>2, <4>3, RowsOfAll, LimitFacts DEF Lasting
    <3>3. CASE dbs[i].row[n] # proc[p].base.row[n]
      <4>1. Good(dbs[i].row[n], n, proc[p].stamp - Slop, note, proc)
        BY <1>1, <3>3 DEF Sound, Honest, Followed
      <4> QED
        BY <1>1, <3>1, <4>1, RowsOfAll, LimitFacts DEF Lasting
    <3> QED
      BY <3>2, <3>3
  <2> QED
    BY <2>2, <2>3, <2>4
<1>6. \A j \in 0 .. MaxRuns : \A n \in Notes :
        Good(dbs'[j].row[n], n, dbs'[j].stamp - Slop, note', proc')
  <2> HIDE DEF i
  <2>1. ASSUME NEW j \in 0 .. MaxRuns, NEW n \in Notes
        PROVE  Good(dbs'[j].row[n], n, dbs'[j].stamp - Slop, note', proc')
    <3>1. CASE j = i
      BY <1>2, <1>5, <3>1
    <3>2. CASE j # i
      BY <1>2, <1>4, <3>2
    <3> QED
      BY <3>1, <3>2
  <2> QED
    BY <2>1
<1> QED
  BY <1>1, <1>3, <1>6 DEF GoodCaches, GoodCache

(***************************************************************************)
(* What another process does to the database that process q has open: a    *)
(* row it changes is good for every limit up to the racy window, and where *)
(* q has read rows already it is one q may answer with, or overtakes q.    *)
(***************************************************************************)
Meddles(q) ==
  LET i == proc[q].id IN
  /\ \E changed \in SUBSET {"overtaken", "dropped"} : ProcKeeps(q, changed)
  /\ proc[q].overtaken \subseteq proc'[q].overtaken
  /\ \A n \in Notes :
       \/ dbs'[i].row[n] = dbs[i].row[n]
       \/ /\ \A limit \in Int : limit <= now - Slop =>
               Good(dbs'[i].row[n], n, limit, note', proc')
          /\ HasRead(q, i) => \/ TextIn(dbs'[i].row[n]) \in proc[q].since[n]
                              \/ n \in proc'[q].overtaken

LEMMA MeddledHonest ==
  ASSUME TypeOK, Tidy, Lasting, NEW q \in Procs, Honest(q), Meddles(q),
         engine' = engine
  PROVE  Honest(q)'
<1> DEFINE i == proc[q].id
<1>1. proc[q].overtaken \subseteq proc'[q].overtaken
  BY DEF Meddles
<1>2. /\ proc'[q].pc = proc[q].pc /\ proc'[q].scope = proc[q].scope
      /\ proc'[q].todo = proc[q].todo /\ proc'[q].base = proc[q].base
      /\ proc'[q].changed = proc[q].changed /\ proc'[q].fresh = proc[q].fresh
      /\ proc'[q].stamp = proc[q].stamp /\ proc'[q].id = proc[q].id
      /\ proc'[q].began = proc[q].began /\ proc'[q].wrong = proc[q].wrong
      /\ proc'[q].since = proc[q].since
  BY DEF Meddles, ProcKeeps, Fields
<1>3. /\ i \in 0 .. MaxRuns
      /\ proc[q].scope \subseteq Notes /\ proc[q].changed \subseteq Notes
  BY DEF TypeOK, Processes
<1>4. ASSUME NEW n \in Notes
      PROVE  \/ dbs'[i].row[n] = dbs[i].row[n]
             \/ /\ \A limit \in Int : limit <= now - Slop =>
                     Good(dbs'[i].row[n], n, limit, note', proc')
                /\ proc[q].pc \in {"hash", "read", "query"} =>
                     \/ TextIn(dbs'[i].row[n]) \in proc[q].since[n]
                     \/ n \in proc'[q].overtaken
  BY DEF Meddles, HasRead
<1>5. Ahead(q)'
  <2> SUFFICES ASSUME engine = "python", proc[q].pc \in {"walk", "load"}, NEW n \in Notes
               PROVE  Good(dbs'[i].row[n], n, proc[q].base.stamp - Slop,
                           note', proc')
    BY <1>2 DEF Ahead, GoodCache
  <2>1. Good(dbs[i].row[n], n, proc[q].base.stamp - Slop, note, proc)
    BY <1>3 DEF Honest, Ahead, GoodCache
  <2>2. Good(dbs[i].row[n], n, proc[q].base.stamp - Slop, note', proc')
    BY <1>3, <2>1, RowsOfAll, LimitFacts DEF Lasting
  <2>3. /\ proc[q].base.stamp - Slop \in Int
        /\ proc[q].base.stamp - Slop <= now - Slop
    BY LimitFacts
  <2> QED
    BY <1>4, <2>2, <2>3
<1>6. Followed(q)'
  <2> SUFFICES ASSUME engine = "python", proc[q].pc \in {"hash", "read"}, NEW n \in Notes,
                      dbs'[i].row[n] # proc[q].base.row[n]
               PROVE  /\ Good(dbs'[i].row[n], n, proc[q].stamp - Slop,
                              note', proc')
                      /\ \/ TextIn(dbs'[i].row[n]) \in proc[q].since[n]
                         \/ n \in proc'[q].overtaken
    BY <1>2 DEF Followed, Seen
  <2>1. CASE dbs'[i].row[n] = dbs[i].row[n]
    <3>1. /\ Good(dbs[i].row[n], n, proc[q].stamp - Slop, note, proc)
          /\ \/ TextIn(dbs[i].row[n]) \in proc[q].since[n]
             \/ n \in proc[q].overtaken
      BY <1>1, <1>3, <2>1 DEF Honest, Followed, Seen
    <3>2. Good(dbs[i].row[n], n, proc[q].stamp - Slop, note', proc')
      BY <1>3, <3>1, RowsOfAll, LimitFacts DEF Lasting
    <3> QED
      BY <1>1, <2>1, <3>1, <3>2
  <2>2. CASE dbs'[i].row[n] # dbs[i].row[n]
    <3>1. /\ \A limit \in Int : limit <= now - Slop =>
               Good(dbs'[i].row[n], n, limit, note', proc')
          /\ \/ TextIn(dbs'[i].row[n]) \in proc[q].since[n]
             \/ n \in proc'[q].overtaken
      BY <1>4, <2>2
    <3>3. proc[q].stamp - Slop \in Int /\ proc[q].stamp - Slop <= now - Slop
      BY LimitFacts
    <3> QED
      BY <3>1, <3>3
  <2> QED
    BY <2>1, <2>2
<1>7. Kept(q)'
  <2> SUFFICES ASSUME proc[q].pc \in {"hash", "read"},
                      NEW n \in proc[q].scope \ (proc[q].todo \cup proc[q].changed)
               PROVE  /\ Good(proc[q].base.row[n], n, proc[q].began, note', proc')
                      /\ TextIn(proc[q].base.row[n]) \in proc[q].since[n]
    BY <1>2 DEF Kept, Seen
  <2>1. /\ Good(proc[q].base.row[n], n, proc[q].began, note, proc)
        /\ TextIn(proc[q].base.row[n]) \in proc[q].since[n]
    BY DEF Honest, Kept, Seen
  <2> QED
    BY <1>3, <2>1, RowsOfAll, LimitFacts DEF Lasting
<1>8. Fetched(q)'
  <2> SUFFICES ASSUME proc[q].pc = "read"
               PROVE  Fetched(q)'
    BY <1>2 DEF Fetched
  <2>1. ASSUME NEW n \in proc[q].changed \ proc[q].todo
        PROVE  /\ Good(proc[q].fresh[n], n, proc[q].began, note', proc')
               /\ TextIn(proc[q].fresh[n]) \in proc[q].since[n]
    <3>1. /\ Good(proc[q].fresh[n], n, proc[q].began, note, proc)
          /\ TextIn(proc[q].fresh[n]) \in proc[q].since[n]
      BY DEF Honest, Fetched, Seen
    <3> QED
      BY <1>3, <3>1, RowsOfAll, LimitFacts DEF Lasting
  <2>2. \A n \in Notes \ proc[q].changed : proc[q].fresh[n] = proc[q].base.row[n]
    BY DEF Honest, Fetched
  <2> QED
    BY <1>2, <2>1, <2>2 DEF Fetched, Seen
<1>9. Composed(q)'
  BY <1>2, RowsOfAll, LimitFacts DEF Honest, Composed, Seen, Lasting
<1>10. Answering(q)'
  <2>0. CASE engine = "native"
    BY <1>2, <1>3, <2>0 DEF Honest, Answering, Seen
  <2> SUFFICES ASSUME engine # "native", proc[q].pc = "query",
                      NEW n \in proc[q].scope
               PROVE  \/ TextIn(dbs'[i].row[n]) \in proc[q].since[n]
                      \/ n \in proc'[q].overtaken
    BY <1>2, <1>3, <2>0 DEF Answering, Seen
  <2>1. CASE dbs'[i].row[n] = dbs[i].row[n]
    BY <1>1, <1>3, <2>1 DEF Honest, Answering, Seen
  <2>2. CASE dbs'[i].row[n] # dbs[i].row[n]
    BY <1>3, <1>4, <2>2
  <2> QED
    BY <2>1, <2>2
<1>11. Answered(q)'
  BY <1>1, <1>2 DEF Honest, Answered
<1> QED
  BY <1>5, <1>6, <1>7, <1>8, <1>9, <1>10, <1>11 DEF Honest

\* A row that is committed out of date overtakes the others.
LEMMA CommitMeddles ==
  ASSUME TypeOK, Tidy, Lasting, Sound, NEW p \in Procs, Commit(p), ~slow',
         NEW q \in Procs \ {p}
  PROVE  Meddles(q)
<1> DEFINE i == proc[q].id
<1>1. /\ ProcKeeps(q, {"overtaken"})
      /\ proc[q].overtaken \subseteq proc'[q].overtaken
      /\ HasRead(q, proc[p].id) => OutOfDate(p) \subseteq proc'[q].overtaken
  BY CommitEffect
<1>2. i \in 0 .. MaxRuns
  BY DEF TypeOK, Processes
<1>3. ASSUME NEW n \in Notes
      PROVE  \/ dbs'[i].row[n] = dbs[i].row[n]
             \/ /\ \A limit \in Int : limit <= now - Slop =>
                     Good(dbs'[i].row[n], n, limit, note', proc')
                /\ HasRead(q, i) => \/ TextIn(dbs'[i].row[n]) \in proc[q].since[n]
                                    \/ n \in proc'[q].overtaken
  <2>1. CASE i = proc[p].id /\ n \in proc[p].changed
    <3>1. /\ dbs'[i].row[n] = proc[p].fresh[n]
          /\ \A limit \in Int : limit <= now - Slop =>
               Good(dbs'[i].row[n], n, limit, note', proc')
      BY <2>1, CommitRows
    <3>2. ASSUME HasRead(q, i)
          PROVE  \/ TextIn(proc[p].fresh[n]) \in proc[q].since[n]
                 \/ n \in proc'[q].overtaken
      <4>1. Told(q)
        BY <3>2 DEF HasRead, Tidy, Running
      <4> QED
        BY <1>1, <2>1, <3>2, <4>1 DEF Told, OutOfDate
    <3> QED
      BY <3>1, <3>2
  <2>2. CASE i = proc[p].id /\ n \notin proc[p].changed
    BY <2>2, CommitRows
  <2>3. CASE i # proc[p].id
    BY <1>2, <2>3, CommitEffect
  <2> QED
    BY <2>1, <2>2, <2>3
<1>4. {"overtaken"} \in SUBSET {"overtaken", "dropped"}
  OBVIOUS
<1> QED
  BY <1>1, <1>3, <1>4 DEF Meddles

\* A row that is dropped overtakes the others.
LEMMA DropSound ==
  ASSUME TypeOK, Tidy, Lasting, Sound, NEW p \in Procs, DropTables(p)
  PROVE  Sound'
<1> DEFINE i == proc[p].id
<1>1. /\ UNCHANGED <<engine, inode>> /\ i \in 0 .. MaxRuns
      /\ dbs' = [dbs EXCEPT ![i] = NewCache] /\ DOMAIN dbs = 0 .. MaxRuns
  BY DropEffect DEF DropTables, world, files, TypeOK
<1>2. ASSUME NEW j \in 0 .. MaxRuns, NEW n \in Notes
      PROVE  \/ dbs'[j] = dbs[j]
             \/ j = i /\ dbs'[j].row[n] = Absent
  BY <1>1, NewCacheType DEF NoRows
<1>3. GoodCaches'
  <2>1. ASSUME NEW j \in 0 .. MaxRuns, NEW n \in Notes
        PROVE  Good(dbs'[j].row[n], n, dbs'[j].stamp - Slop, note', proc')
    <3>1. CASE dbs'[j] = dbs[j]
      BY <3>1, RowsOfAll, LimitFacts DEF Sound, GoodCaches, GoodCache, Lasting
    <3>2. CASE dbs'[j] # dbs[j]
      BY <1>2, <3>2, AbsentGood
    <3> QED
      BY <3>1, <3>2
  <2>2. ASSUME NEW j \in 0 .. MaxRuns, inode[j].whole, NEW n \in Notes
        PROVE  Good(inode[j].row[n], n, inode[j].stamp - Slop, note', proc')
    BY <2>2, RowsOfAll, LimitFacts DEF Sound, GoodCaches, GoodCache, Lasting
  <2> QED
    BY <1>1, <2>1, <2>2 DEF GoodCaches, GoodCache
<1>4. ASSUME NEW q \in Procs \ {p} PROVE Meddles(q)
  <2>1. /\ ProcKeeps(q, {"overtaken", "dropped"})
        /\ proc[q].overtaken \subseteq proc'[q].overtaken
        /\ HasRead(q, i) => Stored(i) \subseteq proc'[q].overtaken
    BY DropEffect
  <2>2. proc[q].id \in 0 .. MaxRuns
    BY DEF TypeOK, Processes
  <2>3. ASSUME NEW n \in Notes, dbs'[proc[q].id].row[n] # dbs[proc[q].id].row[n]
        PROVE  /\ \A limit \in Int : Good(dbs'[proc[q].id].row[n], n, limit,
                                          note', proc')
               /\ HasRead(q, proc[q].id) => n \in proc'[q].overtaken
    <3>1. proc[q].id = i /\ dbs'[i].row[n] = Absent /\ n \in Stored(i)
      BY <1>2, <2>2, <2>3 DEF Stored
    <3> QED
      BY <2>1, <3>1, AbsentGood
  <2> QED
    BY <2>1, <2>3 DEF Meddles
<1>5. ASSUME NEW q \in Procs \ {p} PROVE Honest(q)'
  BY <1>1, <1>4, MeddledHonest DEF Sound
<1>6. Honest(p)'
  <2>1. ProcKeeps(p, {"pc"}) /\ proc'[p].pc = "create"
    BY DropEffect
  <2>2. proc'[p].wrong = proc[p].wrong /\ proc'[p].overtaken = proc[p].overtaken
    BY <2>1 DEF ProcKeeps, Fields
  <2> QED
    BY <2>1, <2>2, OpeningHonest
    DEF Starting, Opening, Sound, Honest, Answered
<1> QED
  BY <1>3, <1>5, <1>6 DEF Sound

LEMMA CommitSound ==
  ASSUME TypeOK, Tidy, Lasting, Sound, NEW p \in Procs, Commit(p), ~slow'
  PROVE  Sound'
<1> DEFINE i == proc[p].id
<1>1. /\ proc[p].pc = "read" /\ proc[p].todo = {} /\ engine = "python"
      /\ engine' = engine /\ Honest(p) /\ proc[p].scope \subseteq Notes
      /\ ~Outlasts(p)
  BY DEF Commit, Ready, world, Sound, TypeOK, Processes
<1>2. ProcKeeps(p, {"pc"}) /\ proc'[p].pc = "query"
  BY CommitEffect
<1>3. /\ proc'[p].scope = proc[p].scope /\ proc'[p].id = i
      /\ proc'[p].since = proc[p].since /\ proc'[p].wrong = proc[p].wrong
      /\ proc'[p].overtaken = proc[p].overtaken
  BY <1>2 DEF ProcKeeps, Fields
<1>4. Answering(p)'
  <2> SUFFICES ASSUME NEW n \in proc[p].scope
               PROVE  \/ TextIn(dbs'[i].row[n]) \in proc[p].since[n]
                      \/ n \in proc[p].overtaken
    BY <1>1, <1>2, <1>3 DEF Answering, Seen
  <2>1. n \in Notes
    BY <1>1
  <2>2. CASE n \in proc[p].changed
    <3>1. dbs'[i].row[n] = proc[p].fresh[n]
      BY <2>1, <2>2, CommitRows
    <3> QED
      BY <1>1, <2>2, <3>1, FreshRows
  <2>3. CASE n \notin proc[p].changed
    <3>1. dbs'[i].row[n] = dbs[i].row[n]
      BY <2>1, <2>3, CommitRows
    <3>2. CASE dbs[i].row[n] = proc[p].base.row[n]
      BY <1>1, <2>3, <3>1, <3>2 DEF Honest, Kept, Seen
    <3>3. CASE dbs[i].row[n] # proc[p].base.row[n]
      BY <1>1, <2>1, <3>1, <3>3 DEF Honest, Followed, Seen
    <3> QED
      BY <3>2, <3>3
  <2> QED
    BY <2>2, <2>3
<1>5. Answered(p)'
  BY <1>1, <1>3 DEF Honest, Answered
<1>6. Honest(p)'
  BY <1>2, <1>4, <1>5 DEF Honest, Ahead, Followed, Kept, Fetched, Composed
<1>7. ASSUME NEW q \in Procs \ {p} PROVE Honest(q)'
  BY <1>1, CommitMeddles, MeddledHonest DEF Sound
<1>8. GoodCaches'
  BY CommitCaches
<1> QED
  BY <1>6, <1>7, <1>8 DEF Sound

-----------------------------------------------------------------------------
(* The invariant, and the theorems.                                        *)

LEMMA StepSound ==
  ASSUME TypeOK, Tidy, Lasting, Truthful, NEW p \in Procs, Step(p)
  PROVE  Truthful'
<1> SUFFICES ASSUME ~slow' PROVE Sound'
  BY DEF Truthful
<1> USE DEF world, sqlite, schema, files
<1>1. CASE \E scope \in {Notes} \cup Folders : Start(p, scope)
  <2>1. Sound
    BY <1>1 DEF Start, Truthful
  <2> QED
    BY <1>1, <2>1, StartSound
<1>2. CASE \E n \in Notes : Stat(p, n)
  <2>1. Sound
    BY <1>2 DEF Stat, Truthful
  <2> QED
    BY <1>2, <2>1, StatSound
<1>3. CASE \E n \in Notes : Hash(p, n)
  <2>1. Sound
    BY <1>3 DEF Hash, Truthful
  <2> QED
    BY <1>3, <2>1, HashSound
<1>4. CASE \E n \in Notes : LexNote(p, n) \/ ParseNote(p, n)
  <2>1. Sound
    BY <1>4 DEF LexNote, ParseNote, Truthful
  <2> QED
    BY <1>4, <2>1, ReadSound
<1>5. CASE LoadFile(p) \/ Selects(p)
  <2>1. Sound
    BY <1>5 DEF LoadFile, Selects, Truthful
  <2> QED
    BY <1>5, <2>1, LoadSound
<1>6. CASE CreateTmp(p)
  <2>1. Sound
    BY <1>6 DEF CreateTmp, Truthful
  <2> QED
    BY <1>6, <2>1, CreateTmpSound
<1>7. CASE WriteTmp(p)
  <2>1. Sound
    BY <1>7 DEF WriteTmp, Truthful
  <2> QED
    BY <1>7, <2>1, WriteTmpSound
<1>8. CASE RenameTmp(p) \/ Asks(p)
  <2>1. Sound
    BY <1>8 DEF RenameTmp, Asks, Truthful
  <2> QED
    BY <1>8, <2>1, EndSound
<1>9. CASE Locks(p)
  <2>1. Sound /\ UNCHANGED <<engine, note, dbs, inode, proc>>
    BY <1>9 DEF Locks, Truthful
  <2>2. Others(p) /\ ProcKeeps(p, {"since"}) /\ Honest(p)
    BY <2>1 DEF Others, ProcKeeps, TypeOK, Sound
  <2>3. Honest(p)'
    BY <2>1, <2>2, HonestStays
  <2> QED
    BY <2>1, <2>2, <2>3, TurnSound
<1>10. CASE Quits(p)
  <2>1. Sound /\ Running(p) /\ LiveScan(p) /\ UNCHANGED <<engine, dbs, inode>>
    BY <1>10 DEF Quits, Quarantine, Ready, Running, Truthful
  <2> QED
    BY <2>1, ScanSound
<1>13. CASE Opens(p)
  <2>1. Sound
    BY <1>13 DEF Opens, Truthful
  <2> QED
    BY <1>13, <2>1, OpensSound
<1>14. CASE Stamps(p)
  <2>1. Sound
    BY <1>14 DEF Stamps, Truthful
  <2> QED
    BY <1>14, <2>1, StampsSound
<1>15. CASE DropTables(p)
  <2>1. Sound
    BY <1>15 DEF DropTables, Truthful
  <2> QED
    BY <1>15, <2>1, DropSound
<1>11. CASE Commit(p)
  <2>1. Sound
    BY <1>11 DEF Commit, Truthful
  <2> QED
    BY <1>11, <2>1, CommitSound
<1>12. CASE Ends(p)
  <2>1. Sound
    BY <1>12 DEF Ends, Truthful
  <2> QED
    BY <1>12, <2>1, EndsSound
<1> QED
  BY <1>1, <1>2, <1>3, <1>4, <1>5, <1>6, <1>7, <1>8, <1>9, <1>10, <1>11,
     <1>12, <1>13, <1>14, <1>15, StepMoves DEF Moves

LEMMA NextTruthful ==
  TypeOK /\ Tidy /\ Truthful /\ [Next]_vars => Truthful'
<1> SUFFICES ASSUME TypeOK, Tidy, Truthful, [Next]_vars PROVE Truthful'
  OBVIOUS
<1> USE DEF world, sqlite, schema, files
<1>1. Lasting
  BY NextLasts
\* The world's steps leave the caches alone, and the processes too.
<1>2. ASSUME UNCHANGED <<engine, dbs, inode, slow>>,
             \A p \in Procs :
               /\ ProcKeeps(p, {"since"})
               /\ \A n \in Notes : proc[p].since[n] \subseteq proc'[p].since[n]
      PROVE  Truthful'
  <2> SUFFICES ASSUME Sound PROVE Sound'
    BY <1>2 DEF Truthful
  <2>1. GoodCaches'
    BY <1>1, <1>2, CachesStay DEF Sound
  <2>2. \A p \in Procs : Honest(p)'
    BY <1>1, <1>2, HonestStays DEF Sound
  <2> QED
    BY <2>1, <2>2 DEF Sound
<1>3. CASE Tick \/ UNCHANGED vars
  <2>1. UNCHANGED <<engine, dbs, inode, slow, proc>>
    BY <1>3 DEF Tick, vars
  <2> QED
    BY <1>2, <2>1 DEF ProcKeeps
<1>4. CASE PowerCut
  <2>1. /\ UNCHANGED <<engine, dbs, slow>>
        /\ inode' = [inode EXCEPT ![vvidx] = TornOf(inode[vvidx])]
        /\ \A p \in Procs : proc'[p] = Idle
    BY <1>4 DEF PowerCut
  <2> SUFFICES ASSUME Sound PROVE Sound'
    BY <2>1 DEF Truthful
  <2>2. \A j \in 0 .. MaxRuns : inode'[j] = inode[j] \/ ~inode'[j].whole
    BY <2>1, TornType DEF TypeOK
  <2>3. GoodCaches'
    BY <1>1, <2>1, <2>2, CachesStay DEF Sound
  <2>4. \A p \in Procs : Honest(p)'
    BY <2>1, EndedHonest DEF Idle
  <2> QED
    BY <2>3, <2>4 DEF Sound
<1>5. CASE \E n \in Notes : Edit(n) \/ Delete(n)
  <2>1. PICK n \in Notes, f \in Files \cup {Absent} : Becomes(n, f)
    BY <1>5, EditEffect DEF Delete
  <2>2. UNCHANGED <<engine, dbs, inode, slow>>
    BY <2>1 DEF Becomes
  <2> QED
    BY <1>2, <2>1, <2>2, BecomesEffect
<1> QED
  BY <1>1, <1>3, <1>4, <1>5, StepSound DEF Next, World

LEMMA InitTruthful == Init => Truthful
<1> SUFFICES ASSUME Init PROVE Sound
  BY DEF Truthful
<1>1. \A p \in Procs : proc[p] = Idle
  BY DEF Init
<1>2. \A p \in Procs : Honest(p)
  BY <1>1 DEF Honest, Ahead, Followed, Kept, Fetched, Composed, Answering,
              Answered, Idle
<1>3. GoodCaches
  BY NewCacheType, AbsentGood DEF Init, GoodCaches, GoodCache, NoRows
<1> QED
  BY <1>2, <1>3 DEF Sound

\* The inductive invariant holds throughout: the dates and the bookkeeping of
\* the processes are in order and, while no process has been slow, every
\* cache that may be opened is right up to its racy window and every process
\* works from rows its notes have had since it began.
THEOREM Inductive == Spec => [](TypeOK /\ IInv)
<1>1. Init => TypeOK /\ IInv
  BY InitType, InitTidy, InitTruthful DEF IInv
<1>2. TypeOK /\ IInv /\ [Next]_vars => (TypeOK /\ IInv)'
  BY NextType, NextTidy, NextTruthful, NextCounted DEF IInv
<1> QED
  BY <1>1, <1>2, PTL DEF Spec

\* Every variable has its type, whatever the processes do: in particular
\* there is a name for every database that is quarantined, and every row a
\* cache is given is that of a note which was found.
THEOREM TypeCorrect == Spec => []TypeOK
BY Inductive, PTL

\* In the cache that the next command opens, a row with the signature the
\* note has on disk, old enough not to be hashed, has the note's text:
\* Verdict::Fresh in cache.rs and the signature test of _index_sync are safe,
\* for any number of processes, deaths, torn files and quarantines, unless
\* one has taken longer than the racy window from its walk to its stamp.
THEOREM BelievedRows == Spec => []BelievedRowsAreRight
<1>1. TypeOK /\ IInv => BelievedRowsAreRight
  <2> SUFFICES ASSUME TypeOK, Truthful, ~slow
               PROVE  (inode[vvidx].whole => Right(inode[vvidx])) /\ Right(dbs[cur])
    BY DEF IInv, BelievedRowsAreRight
  <2>1. ASSUME NEW c \in Caches, GoodCache(c, c.stamp) PROVE Right(c)
    <3> SUFFICES ASSUME NEW n \in Notes, c.row[n] # Absent, Exists(n),
                        c.row[n].sig = note[n].sig, ~Young(c, c.row[n].sig)
                 PROVE  c.row[n].text = note[n].text
      BY DEF Right
    <3>1. c.row[n] \in Rows /\ c.stamp \in Int
      BY DEF Caches
    <3>2. c.row[n].sig[1] < c.stamp - Slop
      BY <3>1, RowFacts, BoundsAssumption DEF Young
    <3>3. Good(c.row[n], n, c.stamp - Slop, note, proc)
      BY <2>1 DEF GoodCache
    <3> QED
      BY <3>2, <3>3 DEF Good, Exists
  <2>2. /\ inode[vvidx].whole => GoodCache(inode[vvidx], inode[vvidx].stamp)
        /\ GoodCache(dbs[cur], dbs[cur].stamp)
    BY DEF Truthful, Sound, GoodCaches, TypeOK
  <2>3. inode[vvidx] \in Caches /\ dbs[cur] \in Caches
    BY DEF TypeOK
  <2> QED
    BY <2>1, <2>2, <2>3
<1> QED
  BY <1>1, Inductive, PTL

\* A command answers, for every note it was asked about, with a text the note
\* has had since the command began (links_map, index_handle), unless it was
\* slow or another process has committed that row, out of date, or dropped it
\* with its table, after this one had read the database.
THEOREM Answers == Spec => []AnswersAreCurrent
<1>1. TypeOK /\ IInv => AnswersAreCurrent
  BY DEF IInv, Truthful, Sound, Honest, Answered, AnswersAreCurrent
<1> QED
  BY <1>1, Inductive, PTL

=============================================================================
