----------------------------- MODULE YamlScalar -----------------------------
(***************************************************************************)
(* yaml_scalar: the form in which set writes a value into the frontmatter; *)
(* how fm_props reads that form for the queries; and, to compare it with,  *)
(* how YAML reads it.  A value is a sequence of characters: "a" stands for *)
(* any letter, dq, sq and bt for the quotes, bs for the backslash, nl for  *)
(* a line break.                                                           *)
(***************************************************************************)
EXTENDS Integers, Sequences, FiniteSets, SequencesExt, FiniteSetsExt

\* The characters.  That those that yaml_scalar writes are strings too is said
\* for the prover, to which a literal is not one.
Signs == STRING \cup {"bs", "n", "dq", "nl"}

Char(v, i) == IF i \in DOMAIN v THEN v[i] ELSE "none"
Opening == {"[", "{"}
Closing == {"]", "}"}
\* A character that is not escaped, by an even number of backslashes.
Bare(v, i) ==
  (i - 1 - Max({j \in 0 .. i - 1 : j = 0 \/ v[j] # "bs"})) % 2 = 0

\* _is_wellformed_quoted: the quotes inside are doubled or escaped.
WellformedQuoted(v) ==
  LET n == Len(v) IN
  /\ n >= 2 /\ v[1] = v[n] /\ v[1] \in {"dq", "sq"}
  /\ v[1] = "sq" => Cardinality({i \in 2 .. n - 1 : v[i] = "sq"}) % 2 = 0
  /\ v[1] = "dq" => \A i \in 2 .. n - 1 : v[i] = "dq" => ~Bare(v, i)

\* The brackets open after each character; ! when one does not match.
Bad == <<"!">>
Depth(v) ==
  LET pair == [c \in Closing |-> IF c = "]" THEN "[" ELSE "{"]
      d[i \in 0 .. Len(v)] ==
        IF i = 0 THEN <<>>
        ELSE LET s == d[i - 1] IN
             IF s = Bad THEN Bad
             ELSE IF v[i] \in Opening THEN Append(s, v[i])
             ELSE IF v[i] \notin Closing THEN s
             ELSE IF s # <<>> /\ Last(s) = pair[v[i]] THEN Front(s) ELSE Bad
  IN d

\* _is_balanced_flow.  That the first bracket closes last is not looked at.
BalancedFlow(v) == v # <<>> /\ v[1] \in Opening /\ Depth(v)[Len(v)] = <<>>

\* _YAML_LEAD: the start of something other than a plain value.
Leads == Opening \cup Closing \cup
  {"#", "&", "*", "!", "|", ">", "sq", "dq", "%", "@", "bt", ","}
Dashing == {"-", "?", ":"}

\* Mutant: a colon that ends the value is not noticed.
NeedsQuotes_Inside(v) ==
  \/ \E i \in 1 .. Len(v) - 1 :
       \/ v[i] = ":" /\ v[i + 1] = " "
       \/ v[i] = " " /\ v[i + 1] = "#"
  \/ v[1] \in Leads \/ v[1] = " " \/ Last(v) = " "
  \/ v[1] \in Dashing /\ Len(v) > 1 /\ v[2] \in {" ", "nl"}
  \/ \E i \in DOMAIN v : v[i] = "nl"

\* needs, in yaml_scalar.
NeedsQuotes(v) ==
  \/ \E i \in 1 .. Len(v) - 1 :
       \/ v[i] = ":" /\ v[i + 1] = " "
       \/ v[i] = " " /\ v[i + 1] = "#"
  \/ Last(v) = ":"
  \/ v[1] \in Leads \/ v[1] = " " \/ Last(v) = " "
  \/ v[1] \in Dashing /\ (Len(v) = 1 \/ v[2] \in {" ", "nl"})
  \/ \E i \in DOMAIN v : v[i] = "nl"

Escape(c) == CASE c = "nl" -> <<"bs", "n">>
               [] c \in {"bs", "dq"} -> <<"bs", c>>
               [] OTHER -> <<c>>

AuthorsForm(v) == WellformedQuoted(v) \/ BalancedFlow(v)

Escaped(v) == FlattenSeq([i \in DOMAIN v |-> Escape(v[i])])

\* yaml_scalar.
Scalar(v) ==
  IF v = <<>> THEN <<"dq", "dq">>
  ELSE IF AuthorsForm(v) \/ ~NeedsQuotes(v) THEN v
  ELSE <<"dq">> \o Escaped(v) \o <<"dq">>

\* fm_props: what the queries read of the form e, strip('"').  No escape is
\* undone.
Stripped(e) ==
  LET kept == {i \in DOMAIN e : e[i] # "dq"} IN
  IF kept = {} THEN <<>> ELSE SubSeq(e, Min(kept), Max(kept))

(***************************************************************************)
(* YAML's reading of KEY: e, for these characters.  A quoted value ends at *)
(* its first free quote (not escaped, not one of a pair of single ones) and *)
(* a flow value at the bracket that closes its first; nothing may follow.  *)
(* Of the flow values only lists of words are known here to be YAML: a     *)
(* quote, a comment, a colon or a bracket inside may break one.            *)
(***************************************************************************)
OneLine(e) == \A i \in DOMAIN e : e[i] # "nl"
EndOfQuoted(e) ==
  LET q       == e[1]
      last(i) == Char(e, i + 1) # q
      run(i)  == i - Max({j \in 1 .. i - 1 : j = 1 \/ e[j] # q})
      free(i) == IF q = "dq" THEN Bare(e, i) ELSE last(i) /\ run(i) % 2 = 1
      ends    == {i \in 2 .. Len(e) : e[i] = q /\ free(i)}
  IN IF ends = {} THEN 0 ELSE Min(ends)
EndOfFlow(e) ==
  LET shut == {i \in 2 .. Len(e) : Depth(e)[i] = <<>>} IN
  IF shut = {} THEN 0 ELSE Min(shut)
\* Between the first bracket and the last character stand words and commas, a
\* comma only after a word.
ListsWords(e) ==
  \A i \in 2 .. Len(e) - 1 :
    LET before == {j \in 1 .. i - 1 : e[j] # " "} IN
    /\ e[i] \notin (Leads \ {","}) \cup {":", "nl"}
    /\ e[i] \in Dashing => e[i - 1] \notin Opening \cup {" ", ","}
    /\ e[i] = "," => e[Max(before)] \notin Opening \cup {","}
PlainText(e) ==
  /\ e # <<>> /\ e[1] \notin Leads \cup {" "}
  /\ e[1] \in Dashing => Len(e) > 1 /\ e[2] # " "
  /\ \A i \in DOMAIN e : /\ e[i] # "nl"
                         /\ e[i] = ":" => i < Len(e) /\ e[i + 1] # " "
                         /\ e[i] = "#" => e[i - 1] # " "
  /\ Last(e) # " "

\* The value is one, and it is the whole line.
Valid(e) ==
  \/ PlainText(e)
  \/ Char(e, 1) \in {"dq", "sq"} /\ EndOfQuoted(e) = Len(e) /\ OneLine(e)
  \/ Char(e, 1) \in Opening /\ EndOfFlow(e) = Len(e) /\ ListsWords(e)

\* The text between the double quotes, escapes resolved.
Unescaped(c, was) ==
  IF was.escaped
  THEN [text |-> Append(was.text, IF c = "n" THEN "nl" ELSE c), escaped |-> FALSE]
  ELSE IF c = "bs" THEN [text |-> was.text, escaped |-> TRUE]
  ELSE [text |-> Append(was.text, c), escaped |-> FALSE]
Reading(e) ==
  LET upto[i \in 1 .. Len(e) - 1] ==
        IF i = 1 THEN [text |-> <<>>, escaped |-> FALSE]
        ELSE Unescaped(e[i], upto[i - 1])
  IN upto
Unquoted(e) == Reading(e)[Len(e) - 1].text

Read(e) == IF Char(e, 1) = "dq" THEN Unquoted(e) ELSE e
=============================================================================
