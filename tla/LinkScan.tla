------------------------------ MODULE LinkScan ------------------------------
(***************************************************************************)
(* Which links of a text are links: the scan that masks fences, inline     *)
(* code and comments (link_targets_in), and the rewriter of rename, which  *)
(* finds them again by other means (_rewrite_links).  A text grows line by *)
(* line; a line is a sequence of tokens, set apart by blanks:              *)
(*   "open" [[   "close" ]]   "pipe" |   "tick1" `   "tick2" ``            *)
(*   "comment" <!--   "end" -->   "md" [..](t.md)   "md2" [..](u.md)       *)
(* and names: "t" is the note to be renamed, "u" its new name, "w" others. *)
(***************************************************************************)
EXTENDS Integers, Sequences, FiniteSets, SequencesExt, FiniteSetsExt

CONSTANTS
  FirstLines,  \* what the first line can be
  MoreLines,   \* and the others
  MaxLines,
  Slips        \* by how many tokens a link can grow with the new name

ASSUME LinesAssumption == FirstLines \cup MoreLines \subseteq Seq(STRING)
\* What a slip repeats or loses is one token.
ASSUME SlipsAssumption == Slips \subseteq -1 .. 1

VARIABLE text

\* A fence line, as a line of its own: it may open one, or close one.
FenceLine == <<"tick3">>
IsFence(l) == l = FenceLine
TickRuns == {"tick1", "tick2", "tick3"}

Least(S) == IF S = {} THEN 0 ELSE Min(S)

\* The run of as many ticks that closes the one at i, 0 if there is none.
Closer(l, i) == Least({j \in i + 1 .. Len(l) : l[j] = l[i]})

\* code_spans, as far as i: the indices in inline code, and where the search
\* goes on.
Spanned(l, i, was) ==
  IF i < was.next \/ l[i] \notin TickRuns \/ Closer(l, i) = 0 THEN was
  ELSE [in |-> was.in \cup i .. Closer(l, i), next |-> Closer(l, i) + 1]
Spans(l) ==
  LET upto[i \in 0 .. Len(l)] ==
        IF i = 0 THEN [in |-> {}, next |-> 1] ELSE Spanned(l, i, upto[i - 1])
  IN upto
Code(l) == Spans(l)[Len(l)].in

\* strip_inline_code.
Stripped(l) == LET code == Code(l) IN
  [i \in DOMAIN l |-> IF i \in code THEN "nul" ELSE l[i]]

\* Whether a comment is open after each token of a line, inline code left out,
\* that begins inside one or not.
Commented(scan, inside) ==
  LET within[i \in 0 .. Len(scan)] ==
        IF i = 0 THEN inside
        ELSE IF within[i - 1] THEN scan[i] # "end" ELSE scan[i] = "comment"
  IN within

\* The indices that comments cover, both ends included.
Covered(within) == {i \in DOMAIN within \ {0} : within[i - 1] \/ within[i]}

\* The masks of line l after a line with masks b.  An open comment owns its
\* lines.
LineMask(l, b, within) ==
  IF ~b.comment /\ (b.fence \/ IsFence(l))
  THEN [fence |-> b.fence # IsFence(l), comment |-> FALSE, fenced |-> TRUE,
        in |-> {}]
  ELSE [fence |-> FALSE, comment |-> within[Len(l)], fenced |-> FALSE,
        in |-> Covered(within)]

\* masked_lines: after each line, whether a fence or a comment is open; and
\* what of the line is fenced or comment.
Masks(T) ==
  LET after[n \in 0 .. Len(T)] ==
        IF n = 0
        THEN [fence |-> FALSE, comment |-> FALSE, fenced |-> FALSE, in |-> {}]
        ELSE LineMask(T[n], after[n - 1],
                      Commented(Stripped(T[n]), after[n - 1].comment))
  IN after

\* The match of LINK_RE that begins at i, if one does: where it begins and
\* ends, and the indices of the target, which may hold anything but ] | #.
MdLinks == {"md", "md2"}
Stops == {"close", "pipe"} \cup MdLinks
WikiAt(l, i) ==
  LET stops == {j \in i + 1 .. Len(l) : l[j] \in Stops}
      stop  == Min(stops)
      ends  == {j \in stop .. Len(l) : l[j] = "close"}
  IN IF /\ l[i] = "open" /\ stops # {}
        /\ stop # i + 1 /\ l[stop] \notin MdLinks /\ ends # {}
     THEN {[kind |-> "wiki", from |-> i, to |-> Min(ends), target |-> i + 1 .. stop - 1]}
     ELSE {}

\* MDLINK_RE.
MdAt(l) == {[kind |-> "md", from |-> i, to |-> i, target |-> {i}] :
              i \in {j \in DOMAIN l : l[j] \in MdLinks}}

\* finditer: from left to right, the wiki links without overlap.
Sought(l, i, was) ==
  IF i < was.next \/ WikiAt(l, i) = {} THEN was
  ELSE [found |-> was.found \cup WikiAt(l, i),
        next  |-> (CHOOSE m \in WikiAt(l, i) : TRUE).to + 1]
Search(l) ==
  LET upto[i \in 0 .. Len(l)] ==
        IF i = 0 THEN [found |-> {}, next |-> 1] ELSE Sought(l, i, upto[i - 1])
  IN upto
Wikis(l) == Search(l)[Len(l)].found
Matches(l) == Wikis(l) \cup MdAt(l)

TargetOf(l, m) ==
  IF m.kind = "md" THEN (IF l[m.from] = "md" THEN <<"t">> ELSE <<"u">>)
  ELSE SubSeq(l, Min(m.target), Max(m.target))

\* link_targets_in: <<line, match>> of the active links.  Only the target
\* decides: one that overlaps code or a comment is no link.
Links(T) ==
  LET masks   == Masks(T)
      open(n) == {m \in Matches(Stripped(T[n])) :
                    m.target \cap (masks[n].in \cup Code(T[n])) = {}}
  IN UNION {{n} \X open(n) : n \in {k \in DOMAIN T : ~masks[k].fenced}}

LinksTo(T, t) == {x \in Links(T) : TargetOf(T[x[1]], x[2]) = <<t>>}

\* Mutant: the rewriter looks at comments and not at inline code.
Rewritable_InCode(T) ==
  LET masks   == Masks(T)
      open(n) == {m \in Matches(T[n]) : /\ TargetOf(T[n], m) = <<"t">>
                    /\ ({m.from} \cup m.target) \cap masks[n].in = {}}
  IN UNION {{n} \X open(n) : n \in {k \in DOMAIN T : ~masks[k].fenced}}

\* _rewrite_links: the matches in the raw line, none of whose start and target
\* is in code or in a comment.
Rewritable(T) ==
  LET masks   == Masks(T)
      open(n) == {m \in Matches(T[n]) : /\ TargetOf(T[n], m) = <<"t">>
                    /\ ({m.from} \cup m.target) \cap (masks[n].in \cup Code(T[n])) = {}}
  IN UNION {{n} \X open(n) : n \in {k \in DOMAIN T : ~masks[k].fenced}}

\* What replaces match m of line l: the new name for the old, the rest of the
\* match as it is in l, its alias too.
Replacement(l, m) ==
  [k \in 1 .. m.to - m.from + 1 |->
     LET i == m.from + k - 1 IN
     IF i \notin m.target THEN l[i] ELSE IF l[i] = "md" THEN "md2" ELSE "u"]

\* Another match that is rewritten begins within match m.
Holds(found, m) == \E x \in found : x # m /\ x.from \in m.from .. m.to

\* The replacement of the match of line l at p, in the line where all those to
\* the right of p have been done. The offsets are those of l: what a link
\* within the match has grown by, d, is in the wrong place.
Replaced(l, found, d, p, done) ==
  IF \A m \in found : m.from # p THEN done
  ELSE LET m == CHOOSE x \in found : x.from = p IN
       SubSeq(done, 1, p - 1) \o Replacement(l, m)
         \o SubSeq(done, m.to + 1 - (IF Holds(found, m) THEN d ELSE 0), Len(done))

\* From right to left.
RewrittenLine(l, found, d) ==
  LET done[k \in 0 .. Len(l)] ==
        IF k = 0 THEN l ELSE Replaced(l, found, d, Len(l) + 1 - k, done[k - 1])
  IN done

\* The text with the links of all given the new name.
Rewritten(T, all, d) ==
  LET found(n) == {x[2] : x \in {y \in all : y[1] = n}}
  IN [n \in DOMAIN T |-> RewrittenLine(T[n], found(n), d)[Len(T[n])]]

\* Mutant: the notes are not read again after the rename.
Stale_Never(T) == {}

\* What the verification after the rename looks for: wiki links to the old name.
Stale(T) == {x \in LinksTo(T, "t") : x[2].kind = "wiki"}

Type(l) == text' = Append(text, l)

\* rename, on this note: as many links must have been counted in the scan as
\* the rewriter finds, and none to the old name be left, else the note is as
\* it was.
Rename ==
  LET planned == LinksTo(text, "t")
      found   == Rewritable(text)
  IN /\ planned # {}
     /\ Cardinality(planned) = Cardinality(found)
     /\ \E d \in Slips : text' = Rewritten(text, found, d)
     /\ Stale(text') = {}

Init == text = <<>>

Next ==
  \/ text = <<>> /\ \E l \in FirstLines : Type(l)
  \/ text # <<>> /\ Len(text) < MaxLines /\ \E l \in MoreLines : Type(l)
  \/ Rename

Spec == Init /\ [][Next]_text

-----------------------------------------------------------------------------

\* A link, as the raw line or the masked one has it, goes on into inline code
\* that holds a part of a link: one of the two lines is cut into links
\* elsewhere than the other.
Parts == {"open"} \cup Stops
Swallows(T) ==
  \E n \in DOMAIN T : \E m \in Matches(T[n]) \cup Matches(Stripped(T[n])) :
    LET span == m.from .. m.to IN
    /\ m.kind = "wiki" /\ ~(span \subseteq Code(T[n]))
    /\ \E i \in span \cap Code(T[n]) : T[n][i] \in Parts

\* The scan and the rewriter find the same links of the renamed note, though
\* one reads the masked line and the other the raw line and the spans.
CountsAgree ==
  ~Swallows(text) => Rewritable(text) = LinksTo(text, "t")

\* A link that is rewritten holds another in its alias, as in
\* [[t|see [x](t.md)]]: the second is rewritten first, and then undone.
Overlaps(T) ==
  \E x, y \in Rewritable(T) :
    x # y /\ x[1] = y[1] /\ y[2].from \in x[2].from .. x[2].to

\* After a rename of links of which none holds another, every link that named
\* the note names it still, no other link has changed, and nothing else in the
\* text has: not in fences, code or comments (_do_relocate, _rewrite_links).
RenameFollows ==
  [][Rename /\ ~Overlaps(text) =>
      /\ LinksTo(text', "t") = {}
      /\ {<<x[1], x[2].from>> : x \in Links(text')}
           = {<<x[1], x[2].from>> : x \in Links(text)}
      /\ DOMAIN text' = DOMAIN text
      /\ \A n \in DOMAIN text :
           /\ DOMAIN text'[n] = DOMAIN text[n]
           /\ \A i \in DOMAIN text[n] : text'[n][i] # text[n][i] =>
                \E x \in LinksTo(text, "t") : x[1] = n /\ i \in x[2].target]_text

=============================================================================
