---------------------------- MODULE NoteCommands ----------------------------
(***************************************************************************)
(* The commands that edit one note, by what they do to its text: patch,    *)
(* appendsec (and append NOTE SEC TEXT), append, prepend, daily-append,    *)
(* set, unset and new; and what show prints of it.  Each command reads the *)
(* note, computes the new text and replaces the file: one step here.  What *)
(* may happen between the read and the replacement is GuardedWrite's.      *)
(***************************************************************************)
EXTENDS NoteLines

CONSTANTS
  Texts,      \* the texts the note may have when vv first sees it
  Templates,  \* the templates of new
  Payloads,   \* what callers write: the lines of TEXT or of stdin
  Operands,   \* the SEC operands that do not depend on the note
  Keys,       \* what set and unset take: _fm_key_ok
  Legible,    \* the keys that the queries read: [\w-]+
  Values,     \* what callers write for VALUE, character by character
  Typed,      \* the same, more of them, only asked for what yaml_scalar makes
  Budgets,    \* of show, in bytes
  MaxLines    \* bound: a note that has been edited and is longer is left alone

ASSUME NotesAssumption ==
  /\ Texts \cup Templates \subseteq Seq(LineSet) \ {<<>>}
  /\ Payloads \subseteq Seq(Bodies) \ {<<>>}
  /\ Keys \subseteq STRING /\ Legible \subseteq Keys
  /\ Values \cup Typed \subseteq Seq(STRING) /\ Budgets \subseteq Nat
  \* A value in the caller's own quotes or brackets may be several lines
  \* (TakenForYaml), and so may any that new is given.  Not these.
  /\ \A v \in Values : OneLine(v)

VARIABLES
  note,    \* the text of the note, or Absent
  edited   \* only for the bound: a command has edited it

vars == <<note, edited>>

Absent == <<>>

Contents(ls) == [i \in DOMAIN ls |-> ls[i].body]

Init == note \in Texts \cup {Absent} /\ edited = FALSE

Exists == note # Absent /\ (edited => Len(note) <= MaxLines)

\* What a caller can write for SEC: also the hashes outline prints.
Hash(T, s) == SecText(T, s)
Addresses == Operands \cup
  {[Operand EXCEPT !.hash = Hash(note, s)] : s \in ToSet(Parse(note))}

\* Mutant: frontmatter in H0 is not looked for.
HoldsFrontmatter_Never(T, s) == FALSE

\* H0 is refused when its first line opens a frontmatter.
HoldsFrontmatter(T, s) == s.id = 0 /\ s.end > 0 /\ T[1] = Line(Rule, T[1].cr)

\* The body patch is given: without the one newline the caller's shell adds.
PatchBody(s, p) ==
  LET body == IF Len(p) > 1 /\ Last(p) = Blank THEN Front(p) ELSE p
  IN IF body = <<Blank>> /\ s.end = s.start THEN <<>> ELSE body
Patched(T, s, p) == Splice(T, s.start, s.end, PatchBody(s, p))

\* cmd_patch.
Patch(w, expect, p) ==
  LET s == FindSec(note, w, FALSE) IN
  /\ Found(note, w, FALSE)
  /\ ~HoldsFrontmatter(note, s)
  /\ Hash(note, s) = expect
  /\ note' = Patched(note, s, p)

\* Text goes before the blank lines that end the block.
InsertionPoint(T, start, end) ==
  Min({i \in start .. end : \A j \in i + 1 .. end : IsBlank(T[j])})

Appended(T, s, p, end) ==
  LET at == InsertionPoint(T, s.start, end) IN Splice(T, at, at, p)

\* cmd_appendsec, and cmd_append when SEC resolves.
AppendSec(w, p) ==
  LET s == FindSec(note, w, FALSE) IN
  /\ Found(note, w, FALSE)
  /\ note' = Appended(note, s, p, s.end)

\* Mutant: a final line without a newline is not closed first.
AtEof_Glued(T, p) == Front(T) \o Lines(p, LastEol(T)) \o <<NoLine>>

\* TEXT becomes the last line, terminated as the file's last terminated line.
AtEof(T, p) ==
  LET eol == LastEol(T) IN
  (IF EndsInNewline(T) THEN Front(T) ELSE SetCr(T, Len(T), eol))
  \o Lines(p, eol) \o <<NoLine>>

\* cmd_append.
AppendText(p) == note' = AtEof(note, p)

\* What stands before the first line stays there: the byte-order mark.
Marked(T, b) == <<[Head(T) EXCEPT !.bom = b]>> \o Tail(T)

OnTop(T, block) == Marked(block, T[1].bom) \o Marked(T, FALSE)
FirstEol(T) == T[1].cr /\ Len(T) > 1

\* cmd_prepend: below the frontmatter, or on top of a note without one.
Below(T, p) ==
  LET P   == FmParts(T)
      eol == IF P.tail THEN P.eol ELSE LastEol(T)
  IN IF HasFm(T)
     THEN SubSeq(T, 1, FmEnd(T) - 1) \o <<Line(Rule, eol)>>
          \o Lines(p, eol) \o P.body
     ELSE OnTop(T, Lines(p, FirstEol(T)))

Prepend(p) == note' = Below(note, p)

\* The Today block runs to the next heading of level 1 or 2.
Todays(T) == {s \in ToSet(Parse(T)) : s.level = 2 /\ s.title = "Today"}
TodayEnd(T, s) ==
  Min({t.start : t \in {x \in ToSet(Parse(T)) :
                          x.start > s.start /\ x.level \in 1 .. 2}}
      \cup {Len(T)})

AppendedToday(T, p) ==
  LET s == TheOnly(Todays(T)) IN
  IF Todays(T) = {} THEN AtEof(T, p) ELSE Appended(T, s, p, TodayEnd(T, s))

\* cmd_daily_append, of the one standup note of today.
DailyAppend(p) ==
  Cardinality(Todays(note)) <= 1 /\ note' = AppendedToday(note, p)

PropBlock(k, v, eol) ==
  <<Line(Rule, eol), Line(Prop(k, v), eol), Line(Rule, eol)>>

\* The key becomes the last line of the frontmatter, in its style.
WithKey(T, k, v) ==
  LET P == FmParts(T) IN
  FmJoin([P EXCEPT !.fm =
            Append(SetCr(P.fm, Len(P.fm), P.eol2), Line(Prop(k, v), FALSE))])

FirstWith(ls, k) ==
  Min({i \in DOMAIN ls : HasKey(ls[i], k)} \cup {Len(ls) + 1})

\* Mutant: the line of the key is replaced without its terminator.
Assigned_BareLine(T, k, v) ==
  LET P == FmParts(T)
      i == FirstWith(P.fm, k)
  IN IF ~HasFm(T) THEN OnTop(T, PropBlock(k, v, FirstEol(T)))
     ELSE IF i <= Len(P.fm)
          THEN FmJoin([P EXCEPT !.fm[i] = Line(Prop(k, v), FALSE)])
          ELSE WithKey(T, k, v)

\* cmd_set, once it is not refused; v is what yaml_scalar made of the value.
\* Any line with this very key is the key's, also one that no query reads.
Assigned(T, k, v) ==
  LET P == FmParts(T)
      i == FirstWith(P.fm, k)
  IN IF ~HasFm(T) THEN OnTop(T, PropBlock(k, v, FirstEol(T)))
     ELSE IF i <= Len(P.fm)
          THEN FmJoin([P EXCEPT !.fm[i].body = Prop(k, v)])
          ELSE WithKey(T, k, v)

Multiline(T, k) == HasFm(T) /\ BlockScalarKey(FmParts(T).fm, k)

Set(k, v) ==
  ~Multiline(note, k) /\ note' = Assigned(note, k, Scalar(v))

\* Mutant: only the first line of the key goes.
Unassigned_First(T, k) ==
  LET P == FmParts(T) IN
  FmJoin([P EXCEPT !.fm = RemoveAt(P.fm, FirstWith(P.fm, k))])

Without(ls, k) ==
  LET kept[i \in 0 .. Len(ls)] ==
        IF i = 0 THEN <<>>
        ELSE IF HasKey(ls[i], k) THEN kept[i - 1] ELSE Append(kept[i - 1], ls[i])
  IN kept[Len(ls)]

\* cmd_unset: every line of the key goes.  When the last line of the block
\* goes, the line before it ends the block.
Unassigned(T, k) ==
  LET P    == FmParts(T)
      kept == Without(P.fm, k)
  IN FmJoin(IF kept # <<>> /\ HasKey(Last(P.fm), k)
            THEN [P EXCEPT !.fm   = SetCr(kept, Len(kept), FALSE),
                           !.eol2 = Last(kept).cr]
            ELSE [P EXCEPT !.fm = kept])

Unset(k) ==
  /\ HasFm(note) /\ ~Multiline(note, k)
  /\ \E i \in DOMAIN FmParts(note).fm : HasKey(FmParts(note).fm[i], k)
  /\ note' = Unassigned(note, k)

\* cmd_new with one property, written as it is given: it replaces the first
\* line of that key, wherever in the template it is, or joins the frontmatter.
\* A template without one gets one, also when a line of its body was replaced;
\* one that only begins like a frontmatter loses the property.
Filled(T, k, v) ==
  LET i == FirstWith(T, k) IN
  IF i <= Len(T) THEN [T EXCEPT ![i].body = Prop(k, v)]
  ELSE IF HasFm(T) THEN WithKey(T, k, v) ELSE T
New(T, k, v) ==
  LET U == Filled(T, k, v) IN
  /\ note = Absent
  /\ note' = IF T[1].body.kind = "dashes" THEN U
             ELSE PropBlock(k, v, FALSE) \o U

Next ==
  /\ edited' = TRUE
  /\ \/ /\ Exists
        /\ \/ \E w \in Addresses, p \in Payloads :
                \/ \E s \in ToSet(Parse(note)) : Patch(w, Hash(note, s), p)
                \/ AppendSec(w, p)
           \/ \E p \in Payloads :
                AppendText(p) \/ Prepend(p) \/ DailyAppend(p)
           \/ \E k \in Keys : Unset(k) \/ \E v \in Values : Set(k, v)
     \/ \E T \in Templates, k \in Keys, v \in Values : New(T, k, v)

Spec == Init /\ [][Next]_vars

(***************************************************************************)
(* show: the sections from an id on, whole, as long as they fit the budget *)
(* with the newline printed after each.                                    *)
(***************************************************************************)

\* The UTF-8 bytes of lines joined by newlines, and of show's markers.
Width == 3
MoreId == 4
MoreBare == 2
SumOf(s) ==
  LET upto[i \in 0 .. Len(s)] == IF i = 0 THEN 0 ELSE upto[i - 1] + s[i]
  IN upto[Len(s)]
Bytes(ls) ==
  Len(ls) - 1 + SumOf([i \in DOMAIN ls |-> IF ls[i].body = Blank THEN 0 ELSE Width])
SizeOf(T, s) == IF s.start = s.end THEN 0 ELSE Bytes(SecText(T, s))

\* Mutant: the newline after each section is not counted.
Fits_NoNewlines(acc, size, budget) == acc.used + size <= budget

Fits(acc, size, budget) == acc.used + size + 1 <= budget

\* The loop of cmd_show: the ids printed whole, the bytes used, how it ends,
\* and the section the closing marker is about.
WithSection(acc, s, size, budget) ==
  IF Fits(acc, size, budget)
  THEN [acc EXCEPT !.ids = Append(@, s.id), !.used = @ + size + 1]
  ELSE [acc EXCEPT !.end = IF acc.used = 0 THEN "truncated"
                           ELSE IF acc.used + MoreId + 1 > budget THEN "bare"
                           ELSE "more", !.next = s.id]
Printed(T, from, budget) ==
  LET secs == Parse(T)
      after[i \in 0 .. Len(secs)] ==
        IF i = 0 THEN [ids |-> <<>>, used |-> 0, end |-> "none", next |-> -1]
        ELSE LET acc == after[i - 1]
                 s   == secs[i]
             IN IF s.id < from \/ SizeOf(T, s) = 0 \/ acc.end # "none" THEN acc
                ELSE WithSection(acc, s, SizeOf(T, s), budget)
  IN after[Len(secs)]

-----------------------------------------------------------------------------

\* The last line is not terminated, so it ends in no \r; FinalNewlineStays
\* says when a command leaves one behind.
Regular(T) == ~Last(T).cr

\* U is T with the lines a + 1 .. b replaced by others: what is before and
\* after them is in U byte for byte.
Framed(T, U, a, b) ==
  LET after == Len(T) - b IN
  /\ Len(U) >= a + after
  /\ SubSeq(U, 1, a) = SubSeq(T, 1, a)
  /\ SubSeq(U, Len(U) - after + 1, Len(U)) = SubSeq(T, b + 1, Len(T))

\* U is T with the lines p inserted somewhere below the byte-order mark; a
\* final line that was not terminated may have got a terminator.
Inserted(T, U, p) ==
  LET ended(i) == IF i = Len(T) THEN {T, SetCr(T, i, TRUE)} ELSE {T}
      lines    == {p, Append(p, Blank)} \cup
                  (IF Last(p) = Blank THEN {Front(p)} ELSE {})
  IN /\ U[1].bom = T[1].bom
     /\ \E i \in 0 .. Len(T) : \E V \in ended(i) :
          /\ Framed(Marked(V, FALSE), Marked(U, FALSE), i, i)
          /\ Contents(SubSeq(U, i + 1, Len(U) - (Len(T) - i))) \in lines

\* patch changes the lines of the section it names and no other byte.  Only
\* when it removes the end of a note without a final newline, the line that
\* is now last loses its terminator (splice).
PatchKeepsTheRest ==
  Exists /\ Regular(note) => \A s \in ToSet(Parse(note)), p \in Payloads :
    LET U == Patched(note, s, p) IN
    ~HoldsFrontmatter(note, s) =>
      \/ Framed(note, U, s.start, s.end)
      \/ /\ s.end = Len(note) /\ ~EndsInNewline(note)
         /\ U = SetCr(SubSeq(note, 1, s.start), s.start, FALSE)

\* The line that ends the frontmatter goes on after the three dashes: prepend
\* cuts it there.
SplitsALine(T) == HasFm(T) /\ ~IsRule(T[FmEnd(T)])

\* The commands that insert leave every byte of the note where it was, on
\* either side of what they insert (splice, cmd_append, cmd_prepend).
InsertionsOnlyInsert ==
  Exists /\ Regular(note) => \A p \in Payloads :
    /\ \A s \in ToSet(Parse(note)) :
         Inserted(note, Appended(note, s, p, s.end), p)
    /\ Inserted(note, AppendedToday(note, p), p)
    /\ Inserted(note, AtEof(note, p), p)
    /\ ~SplitsALine(note) =>
         Inserted(note, Below(note, p), p)

OfStyle(T, cr) == \A i \in 1 .. Len(T) - 1 : T[i].cr = cr


\* It does when no line of the note ends in \r.
FinalLfStays ==
  [][note # Absent /\ EndsInNewline(note) /\ OfStyle(note, FALSE) =>
      EndsInNewline(note')]_note

\* patch with the whole end of the note, the empty last line too, and more
\* below it: the line that is no longer last is not given the terminator.
Overruns(T, U) ==
  EndsInNewline(T) /\ Len(U) > Len(T) /\ SubSeq(U, 1, Len(T)) = T

\* A note with one style of line ends keeps it, whatever is done to it.
OneStyleStays ==
  [][note # Absent /\ Len(note) > 1 /\ Regular(note) =>
      \A cr \in BOOLEAN :
        OfStyle(note, cr) => OfStyle(note', cr) \/ Overruns(note, note')]_note

\* Lines that are plain text wherever they stand.
Plain(ls) == \A i \in DOMAIN ls : ls[i].kind \in {"word", "blank"}
View(T) == LET secs == Parse(T) IN
  [j \in DOMAIN secs |-> [level |-> secs[j].level, title |-> secs[j].title,
                          text |-> Contents(SecText(T, secs[j]))]]

\* What is written to a section is read back from it, and every other section
\* keeps its id, its title and its text, so long as the payload is plain text
\* below the same heading (parse, splice, cmd_patch, cmd_appendsec).  At the
\* end of the note an empty last line comes or goes with the final newline.
WriteThenRead ==
  Exists /\ Regular(note) => \A s \in ToSet(Parse(note)), p \in Payloads :
    LET body == (IF s.id = 0 THEN <<>> ELSE <<note[s.start + 1].body>>) \o p
        put  == PatchBody(s, body)
        text == View(Patched(note, s, body))
        more == View(Appended(note, s, p, s.end))
    IN Plain(p) =>
         /\ ~HoldsFrontmatter(note, s) =>
              /\ [text EXCEPT ![s.id + 1] = 0] = [View(note) EXCEPT ![s.id + 1] = 0]
              /\ \/ text[s.id + 1].text \in {put, Append(put, Blank)}
                 \/ put = Append(text[s.id + 1].text, Blank)
         /\ [more EXCEPT ![s.id + 1] = 0] = [View(note) EXCEPT ![s.id + 1] = 0]

\* The two ways of finding the frontmatter, parse's and set's, agree.
FmAgrees(T) == FmEnd(T) = FmBounds(T)

\* fm_props: the value the queries see, if they see one.
PropOf(T, k) ==
  IF k \in Legible THEN {Stripped(e) : e \in Entry(T, k)} ELSE {}

\* patch does not touch the frontmatter (the refusal of H0), in a note
\* without a byte-order mark: the refusal does not look behind one.  What is
\* written must not itself begin or end a frontmatter.
Ruled(p) == \E i \in DOMAIN p : p[i].kind = "dashes"
PatchSparesFrontmatter ==
  Exists /\ Regular(note) /\ FmAgrees(note) /\ ~note[1].bom =>
    \A s \in ToSet(Parse(note)), p \in Payloads, k \in Keys :
      ~HoldsFrontmatter(note, s) /\ ~Ruled(p) =>
        /\ PropOf(Patched(note, s, p), k) = PropOf(note, k)
        /\ Entry(Patched(note, s, p), k) = Entry(note, k)

\* What the caller of set means by a value: his own double quotes are none of
\* it.
Meant(v) ==
  IF WellformedQuoted(v) /\ v[1] = "dq" THEN SubSeq(v, 2, Len(v) - 1) ELSE v

\* fm_props undoes no escape, and takes every double quote off either end: it
\* reads what was meant when nothing in it is escaped; or when it is written
\* as it is and no double quote of its own begins or ends it.
ReadsBack(v) ==
  \/ \A i \in DOMAIN Meant(v) : Meant(v)[i] \notin {"bs", "dq", "nl"}
  \/ (AuthorsForm(v) \/ ~NeedsQuotes(v)) /\ "dq" \notin {v[1], Last(v)}

\* After set the value stands in the frontmatter, after unset the key is gone;
\* the body and the other properties are as before (cmd_set, cmd_unset,
\* fm_props), so long as the two ways of finding the frontmatter agree and the
\* key is not there twice.  The queries see the value but for two cases: a key
\* they cannot read, such as my_key.v2, and a value that does not read back,
\* such as a: "b", of which they see a: \"b\ .
Body(T) == LET n == FmBounds(T) IN
  [i \in 1 .. Len(T) - n |-> <<T[n + i].body, T[n + i].cr>>]
Once(T, k) ==
  Cardinality({i \in 1 .. FmBounds(T) : HasKey(T[i], k)}) <= 1
AssignedIsRead ==
  Exists /\ Regular(note) /\ FmAgrees(note) => \A k \in Keys :
    LET others(U) == [j \in Keys \ {k} |-> <<Entry(U, j), PropOf(U, j)>>] IN
    /\ \A v \in Values :
         LET U == Assigned(note, k, Scalar(v)) IN
         Once(note, k) /\ ~Multiline(note, k) =>
           /\ Entry(U, k) = {Scalar(v)}
           /\ k \in Legible /\ ReadsBack(v) => PropOf(U, k) = {Meant(v)}
           /\ others(U) = others(note) /\ Body(U) = Body(note)
    /\ HasFm(note) =>
         LET U == Unassigned(note, k) IN
         /\ Entry(U, k) = {} /\ PropOf(U, k) = {}
         /\ others(U) = others(note) /\ Body(U) = Body(note)

\* set never makes the frontmatter unreadable: what it writes for a value is
\* one YAML value on one line, and reads back as the value unless the caller
\* wrote YAML (yaml_scalar).  Four forms pass for the caller's YAML and may be
\* none: brackets around anything but words and commas between them, [a] b,
\* [ #], ["], [,]; a double quote at the end that is escaped, "a\"; an even
\* number of single quotes that are not pairs, ''a''; and quotes around a line
\* break, which is written as it is.  (Asked once, while there is no note.)
TakenForYaml(v) ==
  \/ BalancedFlow(v) /\ ~ListsWords(v)
  \/ WellformedQuoted(v) /\ ~(EndOfQuoted(v) = Len(v) /\ OneLine(v))
ScalarIsRead ==
  note = Absent => \A v \in Typed :
    ~TakenForYaml(v) => /\ Valid(Scalar(v))
                        /\ ~AuthorsForm(v) => Read(Scalar(v)) = v

\* No line that continues the value of one property becomes part of another,
\* or of none: set and unset refuse a key whose value spans lines
\* (block_scalar_key).  It knows block scalars, and empty values whose next
\* line is indented; not the flow and plain values that YAML lets span lines
\* too, and of a key that is there twice it looks at the first line only.
Owner(T, i) ==
  LET own == {j \in 1 .. i : IsKind(T[j], "prop")} IN
  IF own = {} THEN NoLine ELSE T[Max(own)]
Continued(T) == {i \in 1 .. FmBounds(T) : IsKind(T[i], "indented")}
Recognised(T) == \A i \in Continued(T) :
  LET own == {j \in 1 .. i : IsKind(T[j], "prop")} IN
  own # {} => \/ T[Max(own)].body.val \in BlockHeaders
              \/ /\ T[Max(own)].body.val = <<>>
                 /\ IsKind(T[Max(own) + 1], "indented")
Owners(T) == {Owner(T, i).body : i \in Continued(T)}
ContinuationsStay ==
  Exists /\ FmAgrees(note) /\ Recognised(note) => \A k \in Keys :
    ~Multiline(note, k) =>
      /\ \A v \in Values : Owners(Assigned(note, k, Scalar(v))) = Owners(note)
      /\ HasFm(note) /\ Once(note, k) =>
           Owners(Unassigned(note, k)) = Owners(note)

\* show prints whole sections and skips none: what it has not printed begins
\* with the section its marker is about, so that a reader who goes on from
\* there has read the note; and it keeps to its budget, but for the marker.
ShowPages ==
  Exists => \A b \in Budgets, from \in 0 .. Len(Parse(note)) - 1 :
    LET r      == Printed(note, from, b)
        full   == {s \in ToSet(Parse(note)) : /\ s.id >= from /\ s.start < s.end
                                              /\ SizeOf(note, s) > 0}
        before == {s.id : s \in {x \in full : r.end = "none" \/ x.id < r.next}}
        total  == SumOf([i \in DOMAIN r.ids |->
                           SizeOf(note, Parse(note)[r.ids[i] + 1]) + 1])
    IN /\ ToSet(r.ids) = before
       /\ \A i, j \in DOMAIN r.ids : i < j => r.ids[i] < r.ids[j]
       /\ r.end # "none" => /\ \E s \in full : s.id = r.next
                            /\ r.end = "truncated" => r.ids = <<>>
       /\ total + (IF r.end = "more" THEN MoreId + 1 ELSE 0) <= b

=============================================================================
