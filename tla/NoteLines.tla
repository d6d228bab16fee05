------------------------------ MODULE NoteLines ------------------------------
(***************************************************************************)
(* The text of a note as vv_impl.py sees it, and everything that cuts it   *)
(* up or puts it together: frontmatter, fences, sections, the addressing   *)
(* of a section, splice, and the frontmatter parts.  Pure operators; the   *)
(* commands are in NoteCommands.                                           *)
(*                                                                         *)
(* A text is the sequence text.split("\n") gives, never empty: each line   *)
(* but the last is terminated by a newline, and cr says that the line ends *)
(* in \r.  A text that ends in a newline has an empty last line.  bom: the *)
(* line begins with the byte-order mark.                                   *)
(***************************************************************************)
EXTENDS Integers, Sequences, FiniteSets, SequencesExt, FiniteSetsExt, YamlScalar

\* The content of a line without its terminator, by what the code tells apart.
Blank           == [kind |-> "blank"]
Word(w)         == [kind |-> "word", word |-> w]
Heading(l, t)   == [kind |-> "heading", level |-> l, title |-> t]
\* info: nothing follows the run, text does, or text with a backtick in it
Fence(m, n, i)  == [kind |-> "fence", mark |-> m, run |-> n, info |-> i]
\* a line that starts with ---, and what follows
Dashes(rest)    == [kind |-> "dashes", rest |-> rest]
\* KEY: VALUE as it is written, character by character; a value may be whole,
\* or go on in the indented lines below
Prop(k, v)      == [kind |-> "prop", key |-> k, val |-> v]
Indented        == [kind |-> "indented"]

Rule == Dashes("")

\* What a line can hold, and the lines of a text.
Bodies ==
  {Blank, Indented} \cup [kind : {"word"}, word : STRING]
  \cup [kind : {"heading"}, level : 1 .. 6, title : STRING]
  \cup [kind : {"fence"}, mark : {"tick", "tilde"}, run : Nat,
         info : {"none", "text", "ticked"}]
  \cup [kind : {"dashes"}, rest : {""} \cup STRING]
  \cup [kind : {"prop"}, key : STRING, val : Seq(Signs)]
LineSet == [body : Bodies, bom : BOOLEAN, cr : BOOLEAN]

Line(c, cr) == [body |-> c, bom |-> FALSE, cr |-> cr]
Lines(cs, cr) == [i \in DOMAIN cs |-> Line(cs[i], cr)]
NoLine == Line(Blank, FALSE)      \* what is after the last newline

\* "\n".join: no lines at all are the empty text.
Join(ls) == IF ls = <<>> THEN <<NoLine>> ELSE ls

IsKind(l, k)  == l.body.kind = k /\ ~l.bom
IsBlank(l)    == IsKind(l, "blank")
IsRule(l)     == l.body = Rule                    \* a leading BOM is tolerated
EndsInNewline(T) == Last(T) = NoLine

(***************************************************************************)
(* Frontmatter and fences.                                                 *)
(***************************************************************************)

\* fm_bounds: the number of lines of the frontmatter; 0 if it has no end.
FmBounds(T) ==
  LET ends == {i \in 2 .. Len(T) : IsRule(T[i]) /\ ~T[i].bom} IN
  IF IsRule(T[1]) /\ ends # {} THEN Min(ends) ELSE 0

NoMarker == Blank
Opens(l)     == IsKind(l, "fence") /\ (l.body.mark = "tilde" \/ l.body.info # "ticked")
Closes(l, m) == /\ IsKind(l, "fence") /\ l.body.mark = m.mark
                /\ l.body.run >= m.run /\ l.body.info = "none"

\* The fence open after a line, when m was before it.
Fenced(l, m) ==
  IF m = NoMarker THEN IF Opens(l) THEN l.body ELSE NoMarker
  ELSE IF Closes(l, m) THEN NoMarker ELSE m
OpenFence(T, start) ==
  LET open[i \in start .. Len(T)] ==
        IF i = start THEN NoMarker ELSE Fenced(T[i], open[i - 1])
  IN open

\* fence_mask: the lines inside fenced blocks, opener and closer included.
FenceMask(T, start) ==
  LET open == OpenFence(T, start) IN
  {i \in start + 1 .. Len(T) : open[i - 1] # NoMarker \/ open[i] # NoMarker}

(***************************************************************************)
(* Sections.  Section Hj is Parse(T)[j + 1]; its lines are                 *)
(* lines[start:end], with the offsets of the code: start + 1 .. end here.  *)
(***************************************************************************)

\* The lines that are headings: one in the frontmatter or in a fence is none.
Headings(T, fm, mask) ==
  LET upto[i \in 0 .. Len(T)] ==
        IF i = 0 THEN <<>>
        ELSE IF i > fm /\ i \notin mask /\ IsKind(T[i], "heading")
        THEN Append(upto[i - 1], i) ELSE upto[i - 1]
  IN upto[Len(T)]

\* Mutant: a section runs past the heading of the next.
SectionsAt_Overlap(T, heads) ==
  LET upto(j) == IF j < Len(heads) THEN heads[j + 1] ELSE Len(T)
  IN <<[id |-> 0, level |-> 0, title |-> "(preamble)", start |-> 0,
        end |-> upto(0)]>>
     \o [j \in DOMAIN heads |->
           [id |-> j, level |-> T[heads[j]].body.level,
            title |-> T[heads[j]].body.title,
            start |-> heads[j] - 1, end |-> upto(j)]]

SectionsAt(T, heads) ==
  LET upto(j) == IF j < Len(heads) THEN heads[j + 1] - 1 ELSE Len(T)
  IN <<[id |-> 0, level |-> 0, title |-> "(preamble)", start |-> 0,
        end |-> upto(0)]>>
     \o [j \in DOMAIN heads |->
           [id |-> j, level |-> T[heads[j]].body.level,
            title |-> T[heads[j]].body.title,
            start |-> heads[j] - 1, end |-> upto(j)]]

\* parse: the sections in order.
Parse(T) ==
  LET fm == FmBounds(T) IN SectionsAt(T, Headings(T, fm, FenceMask(T, fm)))

\* lines[a:b]
Slice(T, a, b) == SubSeq(T, a + 1, b)

\* sec_text: the terminator of the section's last line is not part of it.
SecText(T, s) ==
  LET ls == Slice(T, s.start, s.end) IN
  IF s.end > s.start /\ s.end < Len(T) THEN ls ELSE Join(ls)

\* What a SEC operand can be read as: an id, the preamble's alias, a title, a
\* prefix of titles (whole: of which it ends at a word break), a content sha8.
\* One string may be several of them.  A hash is modelled as what it is of.
Operand == [id |-> -1, alias |-> FALSE, title |-> "", prefix |-> {},
            whole |-> {}, hash |-> <<>>]

\* Of the prefix hits, the one that ends at a word break, if there is one.
AtBreak(hits, whole) == IF Cardinality(whole) = 1 THEN whole ELSE hits

\* _match_sec: the sections each tier names, in the order of the tiers.
Tiers(T, w, hash_only, secs) ==
  LET name(S) == IF hash_only THEN {} ELSE S
  IN <<name({s \in secs : s.id = w.id}),
       name({s \in secs : w.alias /\ s.id = 0}),
       name({s \in secs : s.title = w.title}),
       {s \in secs : SecText(T, s) = w.hash},
       name(AtBreak({s \in secs : s.title \in w.prefix},
                    {s \in secs : s.title \in w.prefix \cap w.whole}))>>

\* find_sec: the section of the first tier that names any, if it is one.
Named(T, w, hash_only) ==
  LET tiers == Tiers(T, w, hash_only, ToSet(Parse(T)))
      hits  == {i \in DOMAIN tiers : tiers[i] # {}}
  IN IF hits = {} THEN {} ELSE tiers[Min(hits)]
Found(T, w, hash_only) == Cardinality(Named(T, w, hash_only)) = 1
TheOnly(S) == CHOOSE x \in S : TRUE
FindSec(T, w, hash_only) == TheOnly(Named(T, w, hash_only))

(***************************************************************************)
(* splice: lines[start:end] are replaced by the contents new.              *)
(***************************************************************************)

ElemCr(T, i) == i < Len(T) - 1 /\ T[i + 1].cr
InsertCr(T, at) ==
  LET above == Min({at, Len(T) - 1}) IN
  IF above > 0 THEN T[above].cr ELSE at < Len(T) - 1 /\ T[at + 1].cr
LastEol(T) == Len(T) > 1 /\ T[Len(T) - 1].cr

\* Mutant: what the file ended in is not looked at.
EndAs_Never(T, new) == new

\* A span that reaches the end of the file ends as the file ended.
EndAs(T, new) ==
  IF EndsInNewline(T)
  THEN IF new = <<>> \/ Last(new) # Blank THEN Append(new, Blank) ELSE new
  ELSE IF new # <<>> /\ Last(new) = Blank THEN Front(new) ELSE new

SameContent(l, c) == l.body = c /\ ~l.bom
SetCr(ls, i, cr) == [ls EXCEPT ![i].cr = cr]

\* The terminator of the changed lines, from offset first on.
Terminator(T, first, changed) ==
  IF changed /\ first < Len(T) - 1 THEN ElemCr(T, first)
  ELSE InsertCr(T, first)

\* Mutant: the whole file is written with one terminator.
Splice_OneStyle(T, start, end, new) ==
  LET body == IF end >= Len(T) THEN EndAs(T, new) ELSE new
      cr   == LastEol(T)
      all(ls) == [i \in DOMAIN ls |-> [ls[i] EXCEPT !.cr = cr]]
  IN Join(all(SubSeq(T, 1, start)) \o Lines(body, cr) \o all(SubSeq(T, end + 1, Len(T))))

\* How many lines old and new have in common at the start; and, behind
\* those, at the end.
SharedHead(old, new) ==
  Max({k \in 0 .. Min({Len(old), Len(new)}) :
         \A i \in 1 .. k : SameContent(old[i], new[i])})
SharedTail(old, new, p) ==
  Max({k \in 0 .. Min({Len(old), Len(new)}) - p :
         \A i \in 0 .. k - 1 :
           SameContent(old[Len(old) - i], new[Len(new) - i])})

\* The old unterminated final line is no longer last.
ClosedOff(T, first, middle, merged) ==
  IF /\ middle # <<>> /\ first = Len(T) /\ ~EndsInNewline(T)
     /\ ~merged[first].cr /\ InsertCr(T, Len(T) - 1)
  THEN SetCr(merged, first, TRUE) ELSE merged

\* A line that was terminated is now the unterminated final one.
LeftOpen(T, end, s, changed, ls) ==
  IF end >= Len(T) /\ ~EndsInNewline(T) /\ s = 0 /\ changed /\ ls # <<>>
  THEN SetCr(ls, Len(ls), FALSE) ELSE ls

\* The lines of new that match the first p or the last s of the old ones keep
\* their bytes.
Merged(T, start, end, old, new, p, s) ==
  LET cr     == Terminator(T, start + p, p < Len(old) - s)
      middle == Lines(SubSeq(new, p + 1, Len(new) - s), cr)
      merged == SubSeq(T, 1, start) \o SubSeq(old, 1, p) \o middle
                \o SubSeq(old, Len(old) - s + 1, Len(old))
                \o SubSeq(T, end + 1, Len(T))
  IN LeftOpen(T, end, s, middle # <<>> \/ p < Len(old),
              ClosedOff(T, start + p, middle, merged))

Exchanged(T, start, end, old, new) ==
  LET p == SharedHead(old, new)
  IN Join(Merged(T, start, end, old, new, p, SharedTail(old, new, p)))

\* splice, in which new carries no terminators.
Splice(T, start, end, new) ==
  Exchanged(T, start, end, Slice(T, start, end),
            IF end >= Len(T) THEN EndAs(T, new) ELSE new)

(***************************************************************************)
(* The frontmatter in parts (split_fm_full, _fm_parts), and joined again.  *)
(* fm are its lines, of which the last has lost its terminator to eol2;    *)
(* tail: the closing --- ends its line; body: what is after that, or after *)
(* the three dashes.  Here the closing line need only start with ---, and  *)
(* there must be a line before it: FmBounds has it otherwise.              *)
(***************************************************************************)

FmEnd(T) ==
  LET ends == {i \in 3 .. Len(T) : IsKind(T[i], "dashes")} IN
  IF IsRule(T[1]) /\ ends # {} THEN Min(ends) ELSE 0
HasFm(T) == FmEnd(T) > 0

\* The line T[i] without its leading ---.
Undashed(l) ==
  [l EXCEPT !.body = IF l.body.rest = "" THEN Blank ELSE Word(l.body.rest)]
Dashed(l) ==
  [l EXCEPT !.body = Dashes(IF l.body = Blank THEN "" ELSE l.body.word)]

FmParts(T) ==
  LET j    == FmEnd(T)
      tail == IsRule(T[j]) /\ j < Len(T)
  IN [open |-> T[1],                       \* bom and eol1 with it
      fm   |-> SetCr(SubSeq(T, 2, j - 1), j - 2, FALSE),
      eol2 |-> T[j - 1].cr,
      tail |-> tail,
      eol  |-> T[j].cr,                    \* of the tail
      body |-> IF tail THEN SubSeq(T, j + 1, Len(T))
               ELSE <<Undashed(T[j])>> \o SubSeq(T, j + 1, Len(T))]

FmJoin(P) ==
  LET fm == Join(P.fm) IN
  <<P.open>> \o SetCr(fm, Len(fm), P.eol2)
  \o IF P.tail THEN <<Line(Rule, P.eol)>> \o P.body
     ELSE <<Dashed(P.body[1])>> \o Tail(P.body)

HasKey(l, k) == IsKind(l, "prop") /\ l.body.key = k

\* The headers that block_scalar_key knows: |2- is not among them.
BlockHeaders == {<<c>> \o d : c \in {"|", ">"}, d \in {<<>>, <<"-">>, <<"+">>}}

\* Mutant: an empty value is never continued.
BlockScalarKey_NoEmpty(fm, k) ==
  \E i \in DOMAIN fm :
    /\ HasKey(fm[i], k) /\ \A j \in 1 .. i - 1 : ~HasKey(fm[j], k)
    /\ fm[i].body.val \in BlockHeaders

\* block_scalar_key: the first line of the key has a value that is not whole.
BlockScalarKey(fm, k) ==
  \E i \in DOMAIN fm :
    /\ HasKey(fm[i], k) /\ \A j \in 1 .. i - 1 : ~HasKey(fm[j], k)
    /\ \/ fm[i].body.val \in BlockHeaders
       \/ fm[i].body.val = <<>> /\ i < Len(fm) /\ IsKind(fm[i + 1], "indented")

\* The value written in the last line of the key, if there is one.
Entry(T, k) ==
  LET fm   == FmParts(T).fm
      hits == IF HasFm(T) THEN {i \in DOMAIN fm : HasKey(fm[i], k)} ELSE {}
  IN IF hits = {} THEN {} ELSE {fm[Max(hits)].body.val}

=============================================================================
