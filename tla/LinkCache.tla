----------------------------- MODULE LinkCache -----------------------------
(***************************************************************************)
(* The caches of what the vault's notes link to: the SQLite index of the   *)
(* python engine (index_handle, _index_sync) and the .vvidx file of the    *)
(* native one (cache.rs).  Both are freshened by every command that asks:  *)
(* stat every note, believe a row whose signature is the one on disk,      *)
(* unless it is so young that a later write could share it (then the note  *)
(* is hashed), read the others again, and write the cache back.  On any    *)
(* doubt the command scans the vault.  Commands run at once; the editor    *)
(* writes on, processes die, and the machine may crash.                    *)
(*                                                                         *)
(* A note's text is the number of the edit that made it and stands for its *)
(* links, its properties and its hash.  A signature is <<mtime, shape>>,   *)
(* shape for (size, inode).  An edit sets mtime to the time of the edit.   *)
(***************************************************************************)
EXTENDS Integers, FiniteSets

CONSTANTS
  Procs,     \* places for vv processes
  Notes,
  Folders,   \* what a scoped command may ask for
  Engines,   \* "native", "python": the two never share a cache
  Shapes,    \* a note's (size, inode)
  Absent,    \* no such file, row or process
  Slop,      \* the racily-clean window, in ticks of the clock
  MaxTime,   \* bound: ticks
  MaxEdits,  \* bound: saves and deletions
  MaxRuns    \* bound: processes started

ASSUME FoldersAssumption ==
  \A s \in Folders : s \subseteq Notes /\ s # {} /\ s # Notes
ASSUME EnginesAssumption == Engines \subseteq {"native", "python"}
ASSUME BoundsAssumption ==
  Slop \in Nat /\ MaxTime \in Nat /\ MaxEdits \in Nat /\ MaxRuns \in Nat

VARIABLES
  engine,   \* which of the two caches is looked at
  now,      \* the clock
  note,     \* the vault
  edits,    \* edits so far
  dbs,      \* python: the databases; a quarantined one stays open to some
  cur,      \* python: which of them is at the index's path
  lock,     \* python: who writes to each database
  tables,   \* python: the databases that have their tables
  versioned,   \* python: those whose user_version is the parser's
  inode,    \* native: the contents of the cache files
  vvidx,    \* native: which of them is the cache
  tmp,      \* native: which of them has the one temporary name
  runs,     \* processes started so far
  proc,     \* the processes
  slow      \* observed: one has taken longer than Slop to write the cache

vars == <<engine, now, note, edits, dbs, cur, lock, tables, versioned, inode,
          vvidx, tmp, runs, proc, slow>>

-----------------------------------------------------------------------------
Lost  == -1   \* a row whose links are cut off
Sigs  == (0 .. MaxTime) \X Shapes
Files == [text : 0 .. MaxEdits, sig : Sigs]
Rows  == [text : Lost .. MaxEdits, sig : Sigs]

\* A cache: its commit stamp and its rows.  whole: its footer, or SQLite,
\* vouches for it.
Caches == [stamp : 0 .. MaxTime, row : [Notes -> Rows \cup {Absent}],
           whole : BOOLEAN]

ASSUME SentinelAssumption ==
  Absent \notin Procs \cup Files \cup Rows \cup Sigs \cup (Lost .. MaxEdits)

NoRows   == [n \in Notes |-> Absent]
NewCache == [stamp |-> 0, row |-> NoRows, whole |-> TRUE]
Empty    == [NewCache EXCEPT !.whole = FALSE]

\* A prefix of a cache file, cut off between two lines: every row of it is
\* well-formed.
TornOf(c) ==
  [c EXCEPT !.whole = FALSE,
     !.row = [n \in Notes |-> IF @[n] = Absent THEN Absent
                              ELSE [@[n] EXCEPT !.text = Lost]]]

\* A process.  base: the cache as it has read it; walk: the signatures on
\* disk; fresh: the rows as it would have them; id: its database, or the file
\* it writes.  Observed: since, the texts each note has had since its start;
\* began, the tick of its first stat; wrong, the notes it has answered with a
\* text they have not had since its start; overtaken, those whose row another
\* process has written, out of date, or dropped with its table after this one
\* had read it; dropped, whether the latter has happened.
Idle ==
  [pc |-> "idle", scope |-> {}, todo |-> {}, base |-> NewCache,
   walk |-> NoRows, changed |-> {}, fresh |-> NoRows, stamp |-> 0, id |-> 0,
   since |-> [n \in Notes |-> {}], began |-> 0, wrong |-> {},
   overtaken |-> {}, dropped |-> FALSE]

PCs == {"idle", "drop", "create", "version", "stamp", "walk",
        "load", "hash", "read", "write", "rename", "query"}
Texts == 0 .. MaxEdits
Processes ==
  [pc : PCs, scope : SUBSET Notes, todo : SUBSET Notes, base : Caches,
   walk : [Notes -> Sigs \cup {Absent}], changed : SUBSET Notes,
   fresh : [Notes -> Rows \cup {Absent}], stamp : 0 .. MaxTime,
   id : 0 .. MaxRuns, since : [Notes -> SUBSET (Texts \cup {Absent})],
   began : 0 .. MaxTime, wrong : SUBSET Notes, overtaken : SUBSET Notes,
   dropped : BOOLEAN]

TypeOK ==
  /\ engine \in Engines
  /\ now \in 0 .. MaxTime
  /\ note \in [Notes -> Files \cup {Absent}]
  /\ edits \in 0 .. MaxEdits
  /\ dbs \in [0 .. MaxRuns -> Caches]
  /\ cur \in 0 .. MaxRuns
  /\ lock \in [0 .. MaxRuns -> Procs \cup {Absent}]
  /\ tables \subseteq 0 .. MaxRuns
  /\ versioned \subseteq 0 .. MaxRuns
  /\ inode \in [0 .. MaxRuns -> Caches]
  /\ vvidx \in 0 .. MaxRuns
  /\ tmp \in 0 .. MaxRuns
  /\ runs \in 0 .. MaxRuns
  /\ proc \in [Procs -> Processes]
  /\ slow \in BOOLEAN

-----------------------------------------------------------------------------
Exists(n) == note[n] # Absent
TextIn(r) == IF r = Absent THEN Absent ELSE r.text
SigOf(n)  == IF Exists(n) THEN note[n].sig ELSE Absent

Running(p) == proc[p].pc # "idle"
Ready(p, pc) == proc[p].pc = pc

\* The row does not have the signature the note has on disk, or one of the
\* two is missing.
Differs(p, c, n) ==
  IF c.row[n] = Absent \/ proc[p].walk[n] = Absent
  THEN c.row[n] # proc[p].walk[n] ELSE c.row[n].sig # proc[p].walk[n]

\* Racily clean: a later write could still have this signature.
Young(c, sig) == sig[1] >= c.stamp - Slop

\* Process p has its answer, a text for each note of its scope, and ends.
Answer(p, text) ==
  proc' = [proc EXCEPT ![p] =
    [Idle EXCEPT
       !.wrong = {n \in proc[p].scope : text[n] \notin proc[p].since[n]},
       !.overtaken = proc[p].overtaken, !.dropped = proc[p].dropped]]

\* Any doubt: the live scan of the notes asked for.
LiveScan(p) == Answer(p, [n \in Notes |-> TextIn(note[n])])

-----------------------------------------------------------------------------
Init ==
  /\ engine \in Engines
  /\ now = 0
  /\ \E shape \in Shapes :
       note = [n \in Notes |-> [text |-> 0, sig |-> <<0, shape>>]]
  /\ edits = 0
  /\ dbs = [i \in 0 .. MaxRuns |-> NewCache]
  /\ cur = 0
  /\ lock = [i \in 0 .. MaxRuns |-> Absent]
  /\ tables = {}
  /\ versioned = {}
  /\ inode = [i \in 0 .. MaxRuns |-> Empty]
  /\ vvidx = 0
  /\ tmp = 0
  /\ runs = 0
  /\ proc = [p \in Procs |-> Idle]
  /\ slow = FALSE

(***************************************************************************)
(* What both engines do.                                                   *)
(***************************************************************************)

world == <<engine, now, note, edits>>
schema == <<tables, versioned>>
sqlite == <<dbs, cur, lock, schema>>
files == <<inode, vvidx, tmp>>

\* A command asks for the whole vault; board and props of a folder, in
\* python, for that folder.  The python engine connects, and goes on to the
\* stamp if the database's version is the parser's.
Start(p, scope) ==
  /\ ~Running(p)
  /\ runs < MaxRuns
  /\ scope = Notes \/ engine = "python"
  /\ runs' = runs + 1
  /\ proc' = [proc EXCEPT ![p] =
       [Idle EXCEPT !.scope = scope, !.todo = scope,
          !.pc = IF engine = "native" THEN "walk"
                 ELSE IF cur \in versioned THEN "stamp" ELSE "drop",
          !.id = IF engine = "python" THEN cur ELSE runs + 1,
          !.since = [n \in Notes |-> {TextIn(note[n])}]]]
  /\ UNCHANGED <<world, sqlite, files, slow>>

\* The stat walk.
Stat(p, n) ==
  /\ Ready(p, "walk")
  /\ n \in proc[p].todo
  /\ LET rest == proc[p].todo \ {n} IN
       proc' = [proc EXCEPT ![p] =
         [@ EXCEPT !.walk[n] = SigOf(n), !.todo = rest,
            !.pc = IF rest = {} THEN "load" ELSE "walk",
            !.began = IF proc[p].todo = proc[p].scope THEN now
                     ELSE proc[p].began]]
  /\ UNCHANGED <<world, sqlite, files, runs, slow>>

\* Once nothing is left to hash: the rows are the answer, or what is gone
\* loses its row and what has changed is to be read again.
Decide(r) ==
  LET gone == {n \in r.changed : r.walk[n] = Absent} IN
  IF r.todo # {} THEN r
  ELSE IF r.changed = {} THEN [r EXCEPT !.pc = "query"]
  ELSE [r EXCEPT !.pc = "read", !.todo = r.changed \ gone,
          !.fresh = [n \in Notes |-> IF n \in gone THEN Absent
                                     ELSE r.base.row[n]]]

\* The rows are compared with the walk.
Compare(p, c) ==
  LET known == {n \in proc[p].scope : ~Differs(p, c, n)} IN
    proc' = [proc EXCEPT ![p] = Decide(
      [@ EXCEPT !.pc = "hash", !.base = c, !.stamp = now,
         !.changed = proc[p].scope \ known,
         !.todo = {n \in known : c.row[n] # Absent /\ Young(c, c.row[n].sig)}])]

\* A racily clean note is hashed.  One that cannot be read is a doubt to the
\* native engine and a change to the python one.
Hash(p, n) ==
  /\ Ready(p, "hash")
  /\ n \in proc[p].todo
  /\ IF engine = "native" /\ ~Exists(n) THEN LiveScan(p)
     ELSE proc' = [proc EXCEPT ![p] = Decide(
            [@ EXCEPT !.todo = proc[p].todo \ {n},
               !.changed = IF TextIn(note[n]) # proc[p].base.row[n].text
                           THEN proc[p].changed \cup {n}
                           ELSE proc[p].changed])]
  /\ UNCHANGED <<world, sqlite, files, runs, slow>>

\* The native engine has the rows in memory; the python one runs its SELECT
\* on the connection it has open.  Without the tables that is a traceback.
Query(p) ==
  /\ Ready(p, "query")
  /\ LET c == IF engine = "native" THEN proc[p].base ELSE dbs[proc[p].id] IN
     IF engine = "native" \/ proc[p].id \in tables
     THEN Answer(p, [n \in Notes |-> TextIn(c.row[n])])
     ELSE proc' = [proc EXCEPT ![p] = Idle]
  /\ UNCHANGED <<world, sqlite, files, runs, slow>>

\* Between the first stat and the stamp, or the commit, of this process
\* more time goes by than the window allows for.
Outlasts(p) == now > proc[p].began + Slop

(***************************************************************************)
(* The native engine: links_map, rebuild, write_cache.                     *)
(***************************************************************************)

\* Mutant: the footer is not looked at.
Verify_Always(c) == c # Empty

Verify(c) == c.whole

\* A cache that does not verify is a cache without rows: rebuild.
LoadFile(p) ==
  /\ engine = "native"
  /\ Ready(p, "load")
  /\ Compare(p, IF Verify(inode[vvidx]) THEN inode[vvidx] ELSE NewCache)
  /\ UNCHANGED <<world, sqlite, files, runs, slow>>

\* The note is read after it has been statted, and not statted again.
LexNote(p, n) ==
  /\ engine = "native"
  /\ Ready(p, "read")
  /\ n \in proc[p].todo
  /\ IF Exists(n)
     THEN proc' = [proc EXCEPT ![p] =
            [@ EXCEPT !.todo = proc[p].todo \ {n},
               !.fresh[n] = [text |-> note[n].text, sig |-> proc[p].walk[n]]]]
     ELSE LiveScan(p)
  /\ UNCHANGED <<world, sqlite, files, runs, slow>>

\* The stamp is the time after the reading.  One temporary name for all
\* processes: a file that has it is truncated.
CreateTmp(p) ==
  /\ engine = "native"
  /\ Ready(p, "read")
  /\ proc[p].todo = {}
  /\ LET i == IF tmp = 0 THEN proc[p].id ELSE tmp IN
       /\ tmp' = i
       /\ inode' = [inode EXCEPT ![i] = Empty]
       /\ proc' = [proc EXCEPT ![p].id = i, ![p].pc = "write",
                                ![p].stamp = now]
  /\ slow' = (slow \/ Outlasts(p))
  /\ UNCHANGED <<world, sqlite, vvidx, runs>>

\* What two processes write into one file may be a mixture.
WriteTmp(p) ==
  /\ Ready(p, "write")
  /\ LET i == proc[p].id
         mine == [stamp |-> proc[p].stamp, row |-> proc[p].fresh, whole |-> TRUE]
         alone == inode[i] = Empty /\ \A q \in Procs \ {p} : proc[q].id # i IN
       \/ inode' = [inode EXCEPT ![i] = mine]
       \/ ~alone /\ inode' = [inode EXCEPT ![i] = TornOf(mine)]
  /\ proc' = [proc EXCEPT ![p].pc = "rename"]
  /\ UNCHANGED <<world, sqlite, vvidx, tmp, runs, slow>>

\* Whatever file has the temporary name takes the cache's.
RenameTmp(p) ==
  /\ Ready(p, "rename")
  /\ IF tmp = 0 THEN LiveScan(p) /\ UNCHANGED files
     ELSE /\ vvidx' = tmp
          /\ tmp' = 0
          /\ Answer(p, [n \in Notes |-> TextIn(proc[p].fresh[n])])
          /\ UNCHANGED inode
  /\ UNCHANGED <<world, sqlite, runs, slow>>

(***************************************************************************)
(* The python engine: index_handle, _index_sync.                           *)
(***************************************************************************)

MyLock(p) == lock[proc[p].id] = p
Release(p) == IF MyLock(p) THEN [lock EXCEPT ![proc[p].id] = Absent] ELSE lock

\* Any exception: the file at the index's path is renamed away, whichever
\* database that is now; other processes keep the one they have open.
Quarantine(p) ==
  /\ cur' = cur + 1
  /\ lock' = Release(p)
  /\ LiveScan(p)
  /\ UNCHANGED <<dbs, schema>>

\* q has read rows of database i.
HasRead(q, i) == proc[q].id = i /\ proc[q].pc \in {"hash", "read", "query"}

Stored(i) == {n \in Notes : dbs[i].row[n] # Absent}

\* A database of another version, or a new one, loses what it has.  No
\* transaction holds the script, nor the next one, together.
DropTables(p) ==
  /\ Ready(p, "drop")
  /\ lock[proc[p].id] = Absent
  /\ LET i == proc[p].id IN
       /\ dbs' = [dbs EXCEPT ![i] = NewCache]
       /\ tables' = tables \ {i}
       /\ proc' = [q \in Procs |->
            IF q = p THEN [proc[p] EXCEPT !.pc = "create"]
            ELSE IF HasRead(q, i)
            THEN [proc[q] EXCEPT !.overtaken = @ \cup Stored(i),
                                 !.dropped = TRUE]
            ELSE proc[q]]
  /\ UNCHANGED <<world, cur, lock, versioned, files, runs, slow>>

\* CREATE TABLE raises where another process has created it meanwhile.
CreateTables(p) ==
  /\ Ready(p, "create")
  /\ IF proc[p].id \in tables THEN Quarantine(p)
     ELSE /\ tables' = tables \cup {proc[p].id}
          /\ proc' = [proc EXCEPT ![p].pc = "version"]
          /\ UNCHANGED <<dbs, cur, lock, versioned>>
  /\ UNCHANGED <<world, files, runs, slow>>

SetVersion(p) ==
  /\ Ready(p, "version")
  /\ lock[proc[p].id] = Absent
  /\ versioned' = versioned \cup {proc[p].id}
  /\ proc' = [proc EXCEPT ![p].pc = "stamp"]
  /\ UNCHANGED <<world, dbs, cur, lock, tables, files, runs, slow>>

\* The stamp is read before the walk, and the rows after it.
ReadStamp(p) ==
  /\ Ready(p, "stamp")
  /\ IF proc[p].id \in tables
     THEN /\ proc' = [proc EXCEPT ![p].pc = "walk",
                 ![p].base.stamp = dbs[proc[p].id].stamp]
          /\ UNCHANGED sqlite
     ELSE Quarantine(p)
  /\ UNCHANGED <<world, files, runs, slow>>

\* The time is taken here for the stamp to come, before any reading.
SelectRows(p) ==
  /\ engine = "python"
  /\ Ready(p, "load")
  /\ IF proc[p].id \in tables
     THEN /\ Compare(p, [dbs[proc[p].id] EXCEPT !.stamp = proc[p].base.stamp])
          /\ UNCHANGED sqlite
     ELSE Quarantine(p)
  /\ UNCHANGED <<world, files, runs, slow>>

\* The first changed note is read before the transaction takes the write
\* lock, unless a row is dropped before it.
MayParse(p) == MyLock(p) \/ proc[p].todo = proc[p].changed

\* A note that is not as it was in the walk is a torn read.
ParseNote(p, n) ==
  /\ engine = "python"
  /\ Ready(p, "read")
  /\ n \in proc[p].todo
  /\ MayParse(p)
  /\ IF Exists(n) /\ SigOf(n) # proc[p].walk[n]
     THEN Quarantine(p)
     ELSE /\ proc' = [proc EXCEPT ![p] =
               [@ EXCEPT !.todo = proc[p].todo \ {n}, !.fresh[n] = note[n]]]
          /\ UNCHANGED sqlite
  /\ UNCHANGED <<world, files, runs, slow>>

\* The first statement that writes takes the lock, and raises where the
\* tables are gone ...
TakeLock(p) ==
  /\ engine = "python"
  /\ Ready(p, "read")
  /\ proc[p].todo # proc[p].changed
  /\ lock[proc[p].id] = Absent
  /\ IF proc[p].id \in tables
     THEN /\ lock' = [lock EXCEPT ![proc[p].id] = p]
          /\ UNCHANGED <<dbs, cur, schema, proc>>
     ELSE Quarantine(p)
  /\ UNCHANGED <<world, files, runs, slow>>

\* ... or waits for it until the timeout.
LockTimeout(p) ==
  /\ engine = "python"
  /\ \/ proc[p].pc \in {"drop", "version"}
     \/ Ready(p, "read") /\ proc[p].todo # proc[p].changed
  /\ lock[proc[p].id] \notin {Absent, p}
  /\ Quarantine(p)
  /\ UNCHANGED <<world, files, runs, slow>>

\* Mutant: a scoped sync advances the stamp too.
Stamped_Always(p, c) == proc[p].stamp

\* Mutant: the stamp is set into the time to come.
Stamped_Ahead(p, c) == proc[p].stamp + Slop

\* Only a full sync has looked at every note.
Stamped(p, c) == IF proc[p].scope = Notes THEN proc[p].stamp ELSE c.stamp

\* The rows p has written are no longer what is on disk.
OutOfDate(p) ==
  {n \in proc[p].changed : TextIn(proc[p].fresh[n]) # TextIn(note[n])}

Commit(p) ==
  /\ engine = "python"
  /\ Ready(p, "read")
  /\ proc[p].todo = {}
  /\ MyLock(p)
  /\ LET i == proc[p].id
         c == dbs[i] IN
       /\ dbs' = [dbs EXCEPT ![i] =
            [c EXCEPT !.stamp = Stamped(p, c),
               !.row = [n \in Notes |-> IF n \in proc[p].changed
                                        THEN proc[p].fresh[n] ELSE c.row[n]]]]
       /\ proc' = [q \in Procs |->
            IF q = p THEN [proc[p] EXCEPT !.pc = "query"]
            ELSE IF HasRead(q, i)
            THEN [proc[q] EXCEPT !.overtaken = @ \cup OutOfDate(p)]
            ELSE proc[q]]
  /\ lock' = Release(p)
  /\ slow' = (slow \/ Outlasts(p))
  /\ UNCHANGED <<world, cur, schema, files, runs>>

(***************************************************************************)
(* The world.                                                              *)
(***************************************************************************)

\* A process dies; SQLite rolls its transaction back.  One that is half-way
\* through nothing dies as if it had not been started.
Die(p) ==
  /\ MyLock(p) \/ proc[p].pc \in {"create", "version", "write", "rename"}
  /\ proc' = [proc EXCEPT ![p] = Idle]
  /\ lock' = Release(p)
  /\ UNCHANGED <<world, dbs, cur, schema, files, runs, slow>>

\* The machine goes down: the cache file was never synced.
PowerCut ==
  /\ inode' = [inode EXCEPT ![vvidx] = TornOf(@)]
  /\ proc' = [p \in Procs |-> Idle]
  /\ lock' = [i \in DOMAIN lock |-> Absent]
  /\ UNCHANGED <<world, dbs, cur, schema, vvidx, tmp, runs, slow>>

Becomes(n, f) ==
  /\ edits < MaxEdits
  /\ edits' = edits + 1
  /\ note' = [note EXCEPT ![n] = f]
  /\ proc' = [p \in Procs |->
       IF Running(p) THEN [proc[p] EXCEPT !.since[n] = @ \cup {TextIn(f)}]
       ELSE proc[p]]
  /\ UNCHANGED <<engine, now, sqlite, files, runs, slow>>

Edit(n) ==
  \E shape \in Shapes : Becomes(n, [text |-> edits + 1, sig |-> <<now, shape>>])

Delete(n) == Exists(n) /\ Becomes(n, Absent)

Tick ==
  /\ now < MaxTime
  /\ now' = now + 1
  /\ UNCHANGED <<engine, note, edits, sqlite, files, runs, proc, slow>>

-----------------------------------------------------------------------------
Step(p) ==
  \/ \E scope \in {Notes} \cup Folders : Start(p, scope)
  \/ \E n \in Notes : \/ Stat(p, n) \/ Hash(p, n)
                      \/ LexNote(p, n) \/ ParseNote(p, n)
  \/ LoadFile(p) \/ CreateTmp(p) \/ WriteTmp(p) \/ RenameTmp(p)
  \/ DropTables(p) \/ CreateTables(p) \/ SetVersion(p) \/ ReadStamp(p)
  \/ SelectRows(p) \/ TakeLock(p) \/ LockTimeout(p) \/ Commit(p)
  \/ Query(p)
  \/ Die(p)

World == Tick \/ PowerCut \/ \E n \in Notes : Edit(n) \/ Delete(n)

Next == (\E p \in Procs : Step(p)) \/ World

Spec == Init /\ [][Next]_vars

-----------------------------------------------------------------------------
(***************************************************************************)
(* Properties.                                                             *)
(***************************************************************************)

\* A row that is believed unseen is right: in whichever cache a command may
\* next open, a row with the signature the note has on disk, old enough not
\* to be hashed, has the text the note has.  It presupposes that no process
\* takes longer than the racy window from its walk to its stamp.
Right(c) ==
  \A n \in Notes :
    (c.row[n] # Absent /\ Exists(n) /\ c.row[n].sig = note[n].sig
       /\ ~Young(c, c.row[n].sig))
      => c.row[n].text = note[n].text

BelievedRowsAreRight ==
  (~slow) => /\ inode[vvidx].whole => Right(inode[vvidx])
             /\ Right(dbs[cur])

\* A command answers, for every note, with what the note was at some moment
\* while the command ran: an edit made before it is never missed, whatever
\* other commands, deaths and crashes do to the cache.  Outside: a slow
\* process, and a row another process has written out of date, or dropped as
\* it set the schema up, between this one's look at the database and its query.
AnswersAreCurrent ==
  (~slow) => \A p \in Procs : proc[p].wrong \subseteq proc[p].overtaken

\* The same without the exception for rows written out of date, of the notes
\* that still are there: "A just-edited note is fresh on the next command", as
\* the comment on the index has it.
EditedNoteIsFresh ==
  (~slow) => \A p \in Procs : ~proc[p].dropped =>
               \A n \in proc[p].wrong : ~Exists(n)

=============================================================================
