----------------------------- MODULE VaultLinks -----------------------------
(***************************************************************************)
(* The notes of a vault as a graph: how a name given to vv finds a note,   *)
(* which note a link resolves to, what backlinks, orphans, impact,         *)
(* unresolved and lint say of the graph, and rename, move and trash, which *)
(* change it.  Here a relocation is one step, or nothing when it is rolled *)
(* back: module Relocate has the steps, the crashes and the recovery.  The *)
(* links of a note are those LinkScan finds.                               *)
(*                                                                         *)
(* A path is the sequence of its folders and its name, without ".md" and   *)
(* in lower case.  A link is a wikilink, whose target is a name or a path, *)
(* or a markdown link: "./" or not, a number of "../", and a path.  Every  *)
(* note can be decoded.                                                    *)
(***************************************************************************)
EXTENDS Integers, SequencesExt

CONSTANTS
  PathOrder,   \* the paths a note may have: by length, then by text
  Digits,      \* [reference to a work item, "7" or "#7" -> its digits]
  WorkItems,   \* [digits -> the names "<digits> - ..." ]
  MemorySlugs, \* the names with a memory prefix ("reference-", ...)
  Vaults,      \* the vaults to start from
  Texts,       \* what an editor may save: sequences of links
  Tails,       \* the arguments that may follow those of a relocation
  Trashed,     \* what .trash/ holds at the start
  MaxSaves     \* bound: an editor's saves

Paths == Range(PathOrder)
Names == {Last(p) : p \in Paths}
NoPath == <<>>

ASSUME PathsAssumption == \A i, j \in DOMAIN PathOrder :
  PathOrder[i] # NoPath /\ (PathOrder[i] = PathOrder[j] => i = j)
ASSUME BoundAssumption == MaxSaves \in Nat

\* A link: "./" or not, how many "../", and the target.
Links == [kind : {"wiki", "md"}, dot : BOOLEAN, up : Nat,
          path : Seq(STRING) \ {NoPath}]
ASSUME VaultsAssumption ==
  /\ PathOrder \in Seq(Seq(STRING))
  /\ \A v \in Vaults : DOMAIN v \subseteq Paths /\ v \in [DOMAIN v -> Seq(Links)]
  /\ Texts \subseteq Seq(Links)
  /\ IsFiniteSet(Trashed)

VARIABLES
  vault,  \* [path of a note -> its links]
  hidden, \* folders that cannot be read
  trash,  \* .trash/: <<".trash", name, n>> for name.md, name-2.md, ...
  plan,   \* the last preview: its id, and the notes as it promised them
  last,   \* how the last step ended
  saves   \* so far
vars == <<vault, hidden, trash, plan, last, saves>>

----------------------------------------------------------------------------
(* Names.                                                                  *)

Folder(p) == Front(p)
Folders == {Folder(p) : p \in Paths}
Rank(p) == CHOOSE i \in DOMAIN PathOrder : PathOrder[i] = p

\* The notes a walk meets.  An unreadable folder is left out, and noted.
Notes(v) ==
  {p \in DOMAIN v : \A d \in hidden : ~IsPrefix(d, Folder(p))}
Incomplete == hidden # {}

Named(v, name) == {p \in Notes(v) : Last(p) = name}

NameHits(v, ref) == IF Len(ref) = 1 THEN Named(v, ref[1]) ELSE {}

WorkItemHits(v, ref) ==
  IF Len(ref) = 1 /\ ref[1] \in DOMAIN Digits
  THEN {p \in Notes(v) : Last(p) \in WorkItems[Digits[ref[1]]]}
  ELSE {}

\* Mutant: a name that is found is taken for the only one.
Unproven_NamesTrusted(v, ref, writes) ==
  Incomplete /\ writes /\ NameHits(v, ref) = {}

\* A bare name or a number met by an incomplete walk: the folder that was not
\* read may hold another note like it.  A write is refused.
Unproven(v, ref, writes) == Incomplete /\ writes

\* The paths a reference spells: "#7" spells "7" too, once no note is
\* called "#7".
Spelled(v, ref) ==
  IF ref \in Notes(v) \/ NameHits(v, ref) # {} \/ Len(ref) # 1
     \/ ref[1] \notin DOMAIN Digits
  THEN {ref} \cap Notes(v)
  ELSE {<<Digits[ref[1]]>>} \cap Notes(v)

\* The notes that a reference may stand for, by the first rule that has any:
\* its path, its name, the name after "#", the number of a work item.
Candidates(v, ref) ==
  LET named == NameHits(v, ref)
      bare  == IF Len(ref) = 1 /\ ref[1] \in DOMAIN Digits
               THEN Named(v, Digits[ref[1]]) ELSE {}
  IN IF named # {} THEN named
     ELSE IF bare # {} THEN bare
     ELSE WorkItemHits(v, ref)

\* The note a command with this reference is about: none when it is refused
\* (no note, several, or a write that cannot be sure).
Resolved(v, ref, writes) ==
  IF Spelled(v, ref) # {} THEN Spelled(v, ref)
  ELSE IF Unproven(v, ref, writes) \/ Cardinality(Candidates(v, ref)) # 1
  THEN {} ELSE Candidates(v, ref)

----------------------------------------------------------------------------
(* Links.                                                                  *)

Bare(l) == l.kind = "wiki" /\ Len(l.path) = 1

\* A markdown target from a folder; what leaves the vault is no note.
Joined(folder, l) ==
  IF l.up > Len(folder) THEN NoPath
  ELSE SubSeq(folder, 1, Len(folder) - l.up) \o l.path

\* The duplicate that a bare name in a note means: one beside it, else the
\* one with the shortest path.
Winner(v, from, name) ==
  LET near == {p \in Named(v, name) : Folder(p) = Folder(from)}
      pool == IF near # {} THEN near ELSE Named(v, name)
  IN CHOOSE p \in pool : \A q \in pool : Rank(p) <= Rank(q)

BareResolves(v, from, to) ==
  Cardinality(Named(v, Last(to))) <= 1 \/ Winner(v, from, Last(to)) = to

\* This link of the note from resolves to the note to.
LinkMatches(v, from, l, to) ==
  \/ Bare(l) /\ Last(l.path) = Last(to) /\ BareResolves(v, from, to)
  \/ l.kind = "wiki" /\ ~Bare(l) /\ l.path = to
  \/ l.kind = "md" /\ to \in {Joined(Folder(from), l), Joined(<<>>, l)}

LinksTo(v, from, to) ==
  {i \in DOMAIN v[from] : LinkMatches(v, from, v[from][i], to)}

Backlinks(v, p) == {q \in Notes(v) \ {p} : LinksTo(v, q, p) # {}}

\* The paths that some link of the vault spells.
PathTargets(v) ==
  UNION {UNION {IF l.kind = "md" THEN {Joined(Folder(p), l), Joined(<<>>, l)}
                ELSE IF Bare(l) THEN {} ELSE {l.path}
                : l \in Range(v[p])} : p \in Notes(v)}

LinksByName(v, name) ==
  {p \in Notes(v) : \E l \in Range(v[p]) : Bare(l) /\ Last(l.path) = name}

\* Mutant: a bare link counts for every note of its name.
Orphans_AnyDuplicate(v, scope) ==
  {p \in Notes(v) :
     /\ IsPrefix(scope, Folder(p))
     /\ p \notin PathTargets(v)
     /\ LinksByName(v, Last(p)) \ {p} = {}}

Orphans(v, scope) ==
  {p \in Notes(v) :
     /\ IsPrefix(scope, Folder(p))
     /\ p \notin PathTargets(v)
     /\ \A q \in LinksByName(v, Last(p)) \ {p} : ~BareResolves(v, q, p)}

Deadends(v) == {p \in Notes(v) : v[p] = <<>>}

Stems(v) == {Last(p) : p \in Notes(v)}

\* The places of the links: a note, and the number of the link in it.
Places(v) == UNION {{p} \X DOMAIN v[p] : p \in Notes(v)}
At(v, u) == v[u[1]][u[2]]

\* Mutant: a bare link is looked up as a path.
Unresolved_ByPath(v) ==
  {u \in Places(v) : At(v, u).kind = "wiki" /\ At(v, u).path \notin Notes(v)}

\* The wikilinks that `unresolved` lists.
Unresolved(v) ==
  {u \in Places(v) : /\ At(v, u).kind = "wiki"
                     /\ Last(At(v, u).path) \notin Stems(v)
                     /\ At(v, u).path \notin Notes(v)}

\* The wikilinks that `lint --quick` calls broken.
BrokenLinks(v) ==
  {u \in Places(v) : /\ At(v, u).kind = "wiki"
                     /\ At(v, u).path[1] \notin MemorySlugs
                     /\ Last(At(v, u).path) \notin Stems(v)}

----------------------------------------------------------------------------
(* Relocation.                                                             *)

\* The links of a note that count as links to p; a move leaves bare ones.
Occurring(v, from, p, bare) ==
  {i \in LinksTo(v, from, p) : bare \/ ~Bare(v[from][i])}

Hits(v, p, bare) == {q \in Notes(v) : Occurring(v, q, p, bare) # {}}

\* The notes that `impact` counts, and whose links `trash` says will break.
Impact(v, p) == Hits(v, p, TRUE)

\* Mutant: duplicates are not looked for.
Ambiguous_Never(v, p) == FALSE

Ambiguous(v, p) == Cardinality(Named(v, Last(p))) > 1

\* A markdown target that leads from a folder to a path.
LeadingTo(p, folder) ==
  LET common == Len(LongestCommonPrefix({Folder(p), folder}))
  IN [kind |-> "md", dot |-> FALSE, up |-> Len(folder) - common,
      path |-> SubSeq(p, common + 1, Len(p))]

FromRoot(p) == [kind |-> "md", dot |-> FALSE, up |-> 0, path |-> p]

Relative(from, l, src) ==
  \/ l.dot \/ l.up > 0
  \/ Joined(Folder(from), l) = src /\ Joined(<<>>, l) # src

\* Mutant: every markdown link is rewritten from the root.
RewrittenLink_RootOnly(from, l, src, dest) ==
  CASE Bare(l) /\ Last(l.path) = Last(src) ->
         [l EXCEPT !.path = <<Last(dest)>>]
    [] l.kind = "wiki" /\ ~Bare(l) /\ l.path = src -> [l EXCEPT !.path = dest]
    [] l.kind = "md" /\ Joined(<<>>, l) = src -> FromRoot(dest)
    [] OTHER -> l

\* A link of the note from when src becomes dest.  A move leaves bare links:
\* they still resolve by name.
RewrittenLink(from, l, src, dest) ==
  IF Bare(l) /\ Last(l.path) = Last(src) THEN [l EXCEPT !.path = <<Last(dest)>>]
  ELSE IF l.kind = "wiki" /\ ~Bare(l) /\ l.path = src THEN [l EXCEPT !.path = dest]
  ELSE IF l.kind = "md" /\ Relative(from, l, src) /\ Joined(Folder(from), l) = src
       THEN LeadingTo(dest, Folder(from))
  ELSE IF l.kind = "md" /\ Joined(<<>>, l) = src THEN FromRoot(dest)
  ELSE l

Rewritten(v, q, src, dest) ==
  [i \in DOMAIN v[q] |-> RewrittenLink(q, v[q][i], src, dest)]

Renames(src, dest) == Last(src) # Last(dest)
Hit(v, src, dest) == Hits(v, src, Renames(src, dest))

\* The vault once the notes that are hit are rewritten and src is dest.
Relocated(v, src, dest) ==
  LET after == [q \in DOMAIN v |-> IF q \in Hit(v, src, dest)
                                   THEN Rewritten(v, q, src, dest) ELSE v[q]]
      place(q) == IF q = dest THEN src ELSE q
  IN [q \in (DOMAIN v \ {src}) \cup {dest} |-> after[place(q)]]

\* What the verification, reading the notes it has rewritten, takes for a
\* link that still names the old place.
StaleLink(l, src, dest) ==
  /\ l.kind = "wiki"
  /\ l.path = src \/ (Renames(src, dest) /\ l.path = <<Last(src)>>)

Verified(v, src, dest) ==
  \A q \in Hit(v, src, dest) : \A l \in Range(Rewritten(v, q, src, dest)) :
     ~StaleLink(l, src, dest)

\* What makes a rename or a move print a plan at all.
Relocatable(v, src, dest) ==
  /\ dest \in Paths \* bound: only these
  /\ dest \notin DOMAIN v
  /\ ~Incomplete
  /\ Renames(src, dest) => Named(v, Last(dest)) = {}
  /\ ~Ambiguous(v, src)

Trashable(v, src) == ~Incomplete /\ ~Ambiguous(v, src)

\* name.md, or the first of name-2.md, name-3.md, ... that is free.
TrashName(name) ==
  LET free == {n \in 1 .. Cardinality(trash) + 1 :
                 <<".trash", name, n>> \notin trash}
  IN <<".trash", name, Min(free)>>

\* Mutant: the plan id binds the counts and not the bytes.
Digest_Counts(op, v, src, dest, hits) ==
  [op |-> op, from |-> src, to |-> dest,
   bytes |-> [q \in hits |-> Cardinality(LinksTo(v, q, src))]]

\* The plan id: the operation and the bytes of every note it is about to
\* rewrite (for trash, to break).
Digest(op, v, src, dest, hits) ==
  [op |-> op, from |-> src, to |-> dest, bytes |-> [q \in hits |-> v[q]]]

NoPlan == [id |-> [op |-> "none"], after |-> <<>>]

----------------------------------------------------------------------------
(* The commands.                                                           *)

Init ==
  /\ vault \in Vaults
  /\ hidden \in {{}} \cup {{d} : d \in Folders \ {<<>>}}
  /\ trash = Trashed
  /\ plan = NoPlan
  /\ last = [end |-> "none"]
  /\ saves = 0

DryRun(tail) == tail = <<>>

\* After the operands: --apply and, if a plan was reviewed, its id.
Applies(tail) == tail \in {<<"--apply">>, <<"--apply", "id">>}

\* An id binds the command to the plan it names.
Bound(tail) == tail = <<"--apply", "id">>
Agrees(tail, id) == Bound(tail) => plan.id = id

\* Bound: one relocation, after a preview if it names a plan; every vault is
\* a start.
Open(tail) ==
  /\ last.end # "applied" /\ last.end # "rolled back"
  /\ Bound(tail) \/ plan = NoPlan
  /\ UNCHANGED <<hidden, saves>>

Previewed(id, after) ==
  /\ plan' = [id |-> id, after |-> after]
  /\ last' = [end |-> "previewed"]
  /\ UNCHANGED <<vault, trash>>

Ended(end, op, src, dest, tail) ==
  last' = [end |-> end, op |-> op, src |-> src, dest |-> dest,
           bound |-> Bound(tail)]

\* _do_relocate: a preview, or the whole relocation, undone when the
\* verification fails.
Relocate(op, src, dest, tail) ==
  LET id == Digest(op, vault, src, dest, Hit(vault, src, dest))
  IN /\ Relocatable(vault, src, dest)
     /\ \/ DryRun(tail) /\ Previewed(id, Relocated(vault, src, dest))
        \/ /\ Applies(tail) /\ Agrees(tail, id)
           /\ Verified(vault, src, dest)
           /\ vault' = Relocated(vault, src, dest)
           /\ Ended("applied", op, src, dest, tail)
           /\ UNCHANGED <<trash, plan>>
        \/ /\ Applies(tail) /\ Agrees(tail, id)
           /\ ~Verified(vault, src, dest)
           /\ Ended("rolled back", op, src, dest, tail)
           /\ UNCHANGED <<vault, trash, plan>>

Rename(ref, name, tail) ==
  /\ Open(tail)
  /\ \E src \in Resolved(vault, ref, TRUE) :
       Relocate("rename", src, Append(Folder(src), name), tail)

Move(ref, folder, tail) ==
  /\ Open(tail)
  /\ \E src \in Resolved(vault, ref, TRUE) :
       Relocate("move", src, Append(folder, Last(src)), tail)

\* cmd_trash: the note leaves the graph and no link is rewritten.
Trash(ref, tail) ==
  /\ Open(tail)
  /\ \E src \in Resolved(vault, ref, TRUE) :
       LET to == TrashName(Last(src))
           id == Digest("trash", vault, src, to, Impact(vault, src))
           after == [q \in DOMAIN vault \ {src} |-> vault[q]]
       IN /\ Trashable(vault, src)
          /\ \/ DryRun(tail) /\ Previewed(id, after)
             \/ /\ Applies(tail) /\ Agrees(tail, id)
                /\ vault' = after
                /\ trash' = trash \cup {to}
                /\ Ended("applied", "trash", src, to, tail)
                /\ UNCHANGED plan

\* An editor saves other links in a note, between a preview and its --apply.
EditorSaves(p, text) ==
  /\ saves < MaxSaves
  /\ last.end \in {"previewed", "saved"}
  /\ saves' = saves + 1
  /\ vault' = [vault EXCEPT ![p] = text]
  /\ last' = [end |-> "saved"]
  /\ UNCHANGED <<hidden, trash, plan>>

Refs == Paths \cup {<<name>> : name \in Names \cup DOMAIN Digits}

Next ==
  \/ \E ref \in Refs, tail \in Tails :
       \/ \E name \in Names : Rename(ref, name, tail)
       \/ \E folder \in Folders : Move(ref, folder, tail)
       \/ Trash(ref, tail)
  \/ \E p \in DOMAIN vault, text \in Texts : EditorSaves(p, text)

Spec == Init /\ [][Next]_vars

----------------------------------------------------------------------------
(* Properties.                                                             *)

\* A link of a note to itself by its path: it counts for orphans, and never
\* for backlinks.
NamesItself(p) == \E i \in LinksTo(vault, p, p) : ~Bare(vault[p][i])

\* backlinks and orphans read the graph by different routes, and agree: a
\* note is an orphan of the vault exactly when no other note has a link to it
\* (nor itself, by path); and a dead end links to nobody.
OrphansMatchBacklinks ==
  \A p \in Notes(vault) :
    /\ p \in Orphans(vault, <<>>)
         <=> Backlinks(vault, p) = {} /\ ~NamesItself(p)
    /\ Backlinks(vault, p) \cap Deadends(vault) = {}

\* A link that unresolved lists leads to no note, a bare name that leads to
\* no note is listed, and lint says the same but for memory slugs.
UnresolvedIsDangling ==
  /\ \A u \in Unresolved(vault) : \A p \in Notes(vault) :
       ~LinkMatches(vault, u[1], At(vault, u), p)
  /\ \A q \in Notes(vault) : \A i \in DOMAIN vault[q] :
       LET l == vault[q][i]
       IN Bare(l) /\ (\A p \in Notes(vault) : ~LinkMatches(vault, q, l, p))
          => <<q, i>> \in Unresolved(vault)
  /\ BrokenLinks(vault) =
       {u \in Unresolved(vault) :
          At(vault, u).path[1] \notin MemorySlugs}

\* A write by a name or a number goes to the only note it can mean in the
\* whole vault, with the folders that cannot be read, unless the reference
\* is the path of the note.
WriteNamesUnique ==
  \A ref \in Refs : \A p \in Resolved(vault, ref, TRUE) \ {ref} :
    LET number == IF ref[1] \in DOMAIN Digits THEN Digits[ref[1]] ELSE ref[1]
    IN p # <<number>> =>
         \A q \in DOMAIN vault \ {p} :
           /\ Last(q) # Last(p)
           /\ Last(p) \notin {ref[1], number}
                => Last(q) \notin WorkItems[number]

\* The note a link leads to, if any.
Target(v, from, l) == {p \in Notes(v) : LinkMatches(v, from, l, p)}

Relocates == last'.end = "applied" /\ last'.op \in {"rename", "move"}

\* A rename or a move takes along the links to the note, in every other note:
\* what led to it leads to it at its new place, and every other link is as it
\* was and leads where it led.  (A link of another kind that led nowhere may
\* lead to the note now.)
LinksFollow ==
  [][last # last' /\ Relocates =>
       LET src == last'.src
           dest == last'.dest
       IN \A q \in DOMAIN vault \ {src} : \A i \in DOMAIN vault[q] :
            LET l == vault[q][i]
                k == vault'[q][i]
            IN IF src \in Target(vault, q, l)
               THEN Target(vault', q, k) = {dest}
               ELSE /\ k = l
                    /\ Target(vault, q, l) # {}
                         => Target(vault', q, k) = Target(vault, q, l)]_vars

\* A command with the id of a plan does what the preview of that plan said,
\* whatever an editor saved since: the notes it listed get the text it would
\* have given them, and the other notes stay as they are.
PlanIsWhatHappens ==
  [][last # last' /\ last'.end = "applied" /\ last'.bound
     => /\ <<last'.op, last'.src, last'.dest>>
             = <<plan.id.op, plan.id.from, plan.id.to>>
        /\ \A q \in DOMAIN vault \ {last'.src} :
             vault'[q] = IF q \in DOMAIN plan.id.bytes
                         THEN plan.after[q] ELSE vault[q]]_vars

\* Trashing a note breaks links and repoints none: a link that led to another
\* note still does, those that led to this one are in the notes the preview
\* counted, and nothing in the trash is written over.
TrashRepointsNothing ==
  [][last'.end = "applied" /\ last'.op = "trash"
     => /\ \A q \in DOMAIN vault' : \A l \in Range(vault[q]) :
             /\ Target(vault', q, l) = Target(vault, q, l) \ {last'.src}
             /\ last'.src \in Target(vault, q, l)
                  => q \in Impact(vault, last'.src)
        /\ Cardinality(trash') = Cardinality(trash) + 1]_vars

\* Nobody interferes here: a relocation that is carried out is verified.  A
\* move leaves bare links alone, "they still resolve by name".
AnnouncedIsApplied == last.end # "rolled back"
=============================================================================
