--------------------------- MODULE MCNoteCommands ---------------------------
(***************************************************************************)
(* The texts the commands are tried on: every short text over a few lines  *)
(* with every mix of terminators, and longer ones with frontmatter,        *)
(* fences and two levels of headings.                                      *)
(***************************************************************************)
EXTENDS NoteCommands

\* Every text of n lines over the contents C, with or without a final newline.
Mixed(C, n) ==
  {T \in [1 .. n -> {Line(c, cr) : c \in C, cr \in BOOLEAN}] : ~T[n].cr}

\* The texts with these contents and one terminator, perhaps with a BOM.
Styled(cs) ==
  {Marked([i \in DOMAIN cs |-> Line(cs[i], cr /\ i < Len(cs))], b) :
     cr \in BOOLEAN, b \in BOOLEAN}

W == Word("w")
A == Heading(1, "A")
Today == Heading(2, "Today")
Fence3 == Fence("tick", 3, "none")

\* Values as they stand in a frontmatter: whole, continued below in one of the
\* ways the code knows, or in one that it does not.
One == <<"a">>
Empty == <<>>
Block == <<"|">>
Open == <<"[", "a">>

Front1 == {<<Rule, Rule>>, <<Rule, Blank, Rule>>, <<Rule, W, Dashes("x")>>}
         \cup {<<Rule, Prop("k", v), x, Rule>> :
                 v \in {One, Empty, Block, Open}, x \in {Indented, Prop("j", One), Prop("k", One)}}
Body1 == {<<>>, <<Blank>>, <<W, Blank>>, <<Today, W>>, <<Blank, A, Blank, Today>>,
          <<Fence3, A, Fence("tick", 4, "none"), Today>>, <<A, Rule, W, Rule>>}

\* A payload can open a frontmatter; a key that is there twice goes on below.
Odd == {<<W, A, Prop("k", One), Rule>>,
        <<Rule, Prop("k", One), Prop("k", Block), Indented, Rule, W>>}

MCTexts ==
  UNION {Mixed({Blank, W, A, Rule}, n) : n \in 1 .. 3}
  \cup UNION {Styled(f \o b) : f \in Front1, b \in Body1}
  \cup UNION {Styled(<<x>> \o b) : x \in {W, Today, Fence3}, b \in Body1}
  \cup UNION {Styled(cs) : cs \in Odd}

MCTemplates == {<<NoLine>>} \cup
  UNION {Styled(cs) : cs \in {<<Rule, Prop("j", One), Rule, W>>, <<W, Prop("k", One)>>, <<Rule, W>>, <<W, Blank>>}}

MCPayloads == {<<W>>, <<Blank>>, <<A, W, Blank>>, <<Word("x"), Blank>>,
               <<W, Blank, W>>, <<W, Blank, Blank, Blank>>, <<Rule, W>>}

\* Written as it is, quoted, quoted with an escape, in the caller's quotes.
MCValues == {One, <<"a", ":">>, <<"bs", ":">>, <<"dq", "a", "dq">>}

MCTyped == SeqOf({"a", " ", ":", "#", "-", ",", "dq", "sq", "bs", "[", "]", "nl"}, 4)
           \cup SeqOf({"a", "sq", "dq", "bs"}, 6)

MCOperands == {[Operand EXCEPT !.id = 0, !.alias = TRUE],
               [Operand EXCEPT !.id = 1],
               [Operand EXCEPT !.title = "Today"],
               [Operand EXCEPT !.prefix = {"A", "Today"}, !.whole = {"A"}]}
=============================================================================
