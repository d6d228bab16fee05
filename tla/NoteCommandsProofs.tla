------------------------- MODULE NoteCommandsProofs -------------------------
(***************************************************************************)
(* Proofs about the commands that edit a note, for every note, payload,    *)
(* key and value.                                                          *)
(***************************************************************************)
EXTENDS NoteCommands, NoteLinesProofs

----------------------------------------------------------------------------
(* What patch replaces.                                                    *)

\* In a text of one style splice looks up no other.
LEMMA StyleTerminators ==
  ASSUME NEW T \in Seq(LineSet), T # <<>>, NEW at \in 0 .. Len(T), NEW changed \in BOOLEAN
  PROVE  /\ \A cr \in BOOLEAN : OfStyle(T, cr) /\ Len(T) > 1 =>
              /\ InsertCr(T, at) = cr /\ Terminator(T, at, changed) = cr
              /\ LastEol(T) = cr
         /\ Len(T) = 1 => /\ InsertCr(T, at) = FALSE /\ Terminator(T, at, changed) = FALSE
                          /\ LastEol(T) = FALSE
BY TerminatorsAre DEF OfStyle

\* What splice writes in the place of the lines a + 1 .. b.
Written(T, b, new) == IF b >= Len(T) THEN EndAs(T, new) ELSE new

LEMMA ReplacedIs ==
  ASSUME NEW T \in Notes, NEW a \in Nat, NEW b \in Nat, a <= b, b <= Len(T),
         NEW new \in Seq(Bodies)
  PROVE  Replaced(T, Splice(T, a, b, new), a, b, Written(T, b, new))
<1>1. T \in Seq(LineSet) /\ T # <<>>
  BY DEF Notes
<1> DEFINE body == Written(T, b, new)
<1>2. body = IF b >= Len(T) THEN EndAs(T, new) ELSE new
  BY DEF Written
<1> HIDE DEF body
<1>3. Replaced(T, Splice(T, a, b, new), a, b, body)
  BY <1>1, <1>2, SpliceIs
<1> QED
  BY <1>3 DEF body

\* Two lists of lines that agree line for line are one.
LEMMA SameLines ==
  ASSUME NEW S, NEW s \in Seq(S), NEW t \in Seq(S), Len(s) = Len(t),
         \A i \in 1 .. Len(s) : s[i] = t[i]
  PROVE  s = t
<1>1. s = [i \in 1 .. Len(s) |-> s[i]] /\ t = [i \in 1 .. Len(t) |-> t[i]]
  BY SeqIsFunction
<1> QED
  BY <1>1

\* Framed, line by line.
LEMMA FramedIs ==
  ASSUME NEW T \in Seq(LineSet), NEW U \in Seq(LineSet),
         NEW a \in Nat, NEW b \in Nat, a <= b, b <= Len(T),
         Len(U) >= a + (Len(T) - b),
         \A i \in 1 .. a : U[i] = T[i],
         \A i \in 1 .. Len(T) - b : U[Len(U) - (Len(T) - b) + i] = T[b + i]
  PROVE  Framed(T, U, a, b)
<1> DEFINE n == Len(T) - b
           m == Len(U) - n
<1>1. /\ Len(T) \in Nat /\ Len(U) \in Nat /\ n \in Nat /\ m \in Nat /\ a <= Len(U)
      /\ m <= Len(U) /\ a <= Len(T) /\ Len(U) - m = n
  OBVIOUS
<1>2. SubSeq(U, 1, a) = SubSeq(T, 1, a)
  <2> DEFINE x == SubSeq(U, 1, a)
             y == SubSeq(T, 1, a)
  <2>1. x \in Seq(LineSet) /\ Len(x) = a /\ \A i \in 1 .. a : x[i] = U[i]
    BY <1>1, PrefixIs
  <2>2. y \in Seq(LineSet) /\ Len(y) = a /\ \A i \in 1 .. a : y[i] = T[i]
    BY <1>1, PrefixIs
  <2> HIDE DEF x, y
  <2>3. x = y
    BY <2>1, <2>2, SameLines
  <2> QED
    BY <2>3 DEF x, y
<1>3. SubSeq(U, m + 1, Len(U)) = SubSeq(T, b + 1, Len(T))
  <2> DEFINE x == SubSeq(U, m + 1, Len(U))
             y == SubSeq(T, b + 1, Len(T))
  <2>0. n = Len(T) - b
    OBVIOUS
  <2>4. \A i \in 1 .. n : U[m + i] = T[b + i]
    OBVIOUS
  <2> HIDE DEF m, n
  <2>1. x \in Seq(LineSet) /\ Len(x) = n /\ \A i \in 1 .. n : x[i] = U[m + i]
    BY <1>1, SliceIs, SMTT(30)
  <2>2. y \in Seq(LineSet) /\ Len(y) = n /\ \A i \in 1 .. n : y[i] = T[b + i]
    BY <1>1, <2>0, SliceIs
  <2> HIDE DEF x, y
  <2>3. Len(x) = Len(y) /\ \A i \in 1 .. Len(x) : x[i] = y[i]
    BY <2>1, <2>2, <2>4
  <2>5. x = y
    BY <2>1, <2>2, <2>3, SameLines
  <2> QED
    BY <2>5 DEF x, y
<1>4. m + 1 = Len(U) - (Len(T) - b) + 1
  OBVIOUS
<1> QED
  BY <1>1, <1>2, <1>3, <1>4 DEF Framed

\* What the code makes of the body patch is given.
LEMMA PatchBodyIs ==
  ASSUME NEW s, NEW p \in Seq(Bodies), p # <<>>
  PROVE  PatchBody(s, p) \in Seq(Bodies)
<1> DEFINE body == IF Len(p) > 1 /\ Last(p) = Blank THEN Front(p) ELSE p
<1>1. body \in Seq(Bodies)
  BY LastAndFront
<1>2. PatchBody(s, p) = IF body = <<Blank>> /\ s.end = s.start THEN <<>> ELSE body
  BY DEF PatchBody
<1> HIDE DEF body
<1>3. <<>> \in Seq(Bodies)
  OBVIOUS
<1> QED
  BY <1>1, <1>2, <1>3

\* patch changes the lines of its section, and when it removes the end of a
\* note, the terminator of the line that is now last.
LEMMA ReplacedKeeps ==
  ASSUME NEW T \in Notes, NEW U, NEW a \in Nat, NEW b \in Nat, a <= b, b <= Len(T),
         a < Len(T), NEW body, Replaced(T, U, a, b, body)
  PROVE  \/ Framed(T, U, a, b)
         \/ b = Len(T) /\ ~EndsInNewline(T) /\ U = SetCr(SubSeq(T, 1, a), a, FALSE)
<1> DEFINE n == Len(T)
           N == a + Len(body) + (n - b)
<1>1. /\ T \in Seq(LineSet) /\ T # <<>> /\ n \in Nat /\ Len(body) \in Nat /\ N \in Nat
      /\ U \in Seq(LineSet) /\ U # <<>>
  BY DEF Replaced, Notes
<1>2. CASE N = 0
  <2>1. U = <<NoLine>> /\ Len(U) = 1 /\ a = 0 /\ n - b = 0
    BY <1>1, <1>2 DEF Replaced
  <2> HIDE DEF n
  <2>2. Framed(T, U, a, b)
    <3>1. Len(T) - b = 0
      BY <2>1 DEF n
    <3>2. /\ Len(U) >= a + (Len(T) - b)
          /\ \A i \in 1 .. a : U[i] = T[i]
          /\ \A i \in 1 .. Len(T) - b : U[Len(U) - (Len(T) - b) + i] = T[b + i]
      BY <3>1, <2>1
    <3> QED
      BY <3>2, <1>1, FramedIs
  <2> QED
    BY <2>2
<1>3. CASE N > 0
  <2>1. PICK p, s, cr : Spliced(T, U, a, b, body, p, s, cr)
    BY <1>3 DEF Replaced
  <2> DEFINE leaving == OpensLast(T, a, b, body, p, s)
  <2>2. /\ p \in Nat /\ s \in Nat /\ Len(U) = N
        /\ \A i \in 1 .. a + p :
             /\ U[i].body = T[i].body /\ U[i].bom = T[i].bom
             /\ U[i].cr = T[i].cr \/ i = n \/ (i = N /\ leaving)
        /\ \A i \in a + Len(body) - s + 1 .. N : U[i] = T[i - Len(body) - a + b]
        /\ leaving /\ N > 0 => ~U[N].cr
    BY <2>1 DEF Spliced
  <2> HIDE DEF leaving
  <2>3. ASSUME NEW i \in 1 .. a, ~(i = N /\ leaving)
        PROVE  U[i] = T[i]
    <3>1. U[i].body = T[i].body /\ U[i].bom = T[i].bom /\ U[i].cr = T[i].cr
      <4>1. i \in 1 .. a + p /\ i # n
        BY <2>2, <1>1
      <4> QED
        BY <4>1, <2>2, <2>3
    <3>2. i \in 1 .. Len(T) /\ i \in 1 .. Len(U)
      BY <1>1, <2>2
    <3>3. /\ T[i] = [body |-> T[i].body, bom |-> T[i].bom, cr |-> T[i].cr]
          /\ U[i] = [body |-> U[i].body, bom |-> U[i].bom, cr |-> U[i].cr]
      BY <3>2, <1>1, TextLines
    <3> QED
      BY <3>1, <3>3
  <2>4. \A i \in 1 .. n - b : U[N - (n - b) + i] = T[b + i]
    <3> TAKE i \in 1 .. n - b
    <3>1. N - (n - b) + i \in a + Len(body) - s + 1 .. N
      BY <1>1, <2>2
    <3>2. (N - (n - b) + i) - Len(body) - a + b = b + i
      BY <1>1
    <3> QED
      BY <3>1, <3>2, <2>2
  <2>5. CASE ~(N = a /\ leaving)
    <3>1. \A i \in 1 .. a : ~(i = N /\ leaving)
      BY <2>5, <1>1
    <3>2. \A i \in 1 .. a : U[i] = T[i]
      BY <3>1, <2>3
    <3>3. Len(U) >= a + (Len(T) - b)
      BY <2>2, <1>1
    <3>4. \A i \in 1 .. Len(T) - b : U[Len(U) - (Len(T) - b) + i] = T[b + i]
      BY <2>2, <2>4
    <3> QED
      BY <3>2, <3>3, <3>4, <1>1, FramedIs
  <2>6. CASE N = a /\ leaving
    <3>1. b = Len(T) /\ ~EndsInNewline(T)
      BY <2>6 DEF leaving, OpensLast
    <3>2. a \in 1 .. a /\ Len(U) = a
      BY <2>6, <1>3, <2>2
    <3>6. U[a].body = T[a].body /\ U[a].bom = T[a].bom /\ U[a].cr = FALSE
      <4>1. a \in 1 .. a + p /\ a \in 1 .. Len(U)
        BY <3>2, <2>2
      <4>2. U[a].cr \in BOOLEAN
        BY <4>1, <1>1, TextLines
      <4> QED
        BY <4>1, <4>2, <2>2, <2>6, <1>3
    <3>7. \A i \in 1 .. a - 1 : U[i] = T[i]
      <4>1. \A i \in 1 .. a - 1 : i \in 1 .. a /\ i # N
        BY <2>6
      <4> QED
        BY <4>1, <2>3
    <3> DEFINE x == SubSeq(T, 1, a)
    <3>3. x \in Seq(LineSet) /\ Len(x) = a /\ \A i \in 1 .. a : x[i] = T[i]
      BY <1>1, PrefixIs
    <3> HIDE DEF x
    <3>0. PICK c \in BOOLEAN : c = FALSE
      OBVIOUS
    <3>4. Recoded(SetCr(x, a, c), x, a, c)
      BY <3>2, <3>3, SetCrIs
    <3> DEFINE V == SetCr(x, a, c)
    <3>5. /\ V \in Seq(LineSet) /\ Len(V) = a /\ \A j \in 1 .. a : j # a => V[j] = x[j]
          /\ V[a].body = x[a].body /\ V[a].bom = x[a].bom /\ V[a].cr = FALSE
      BY <3>0, <3>3, <3>4 DEF Recoded
    <3> HIDE DEF V
    <3>8. \A i \in 1 .. Len(U) : U[i] = V[i]
      <4> TAKE i \in 1 .. Len(U)
      <4>1. CASE i = a
        <5>1. U[i].body = V[i].body /\ U[i].bom = V[i].bom /\ U[i].cr = V[i].cr
          BY <4>1, <3>2, <3>3, <3>5, <3>6
        <5>2. i \in 1 .. Len(V)
          BY <3>2, <3>5
        <5>3. /\ V[i] = [body |-> V[i].body, bom |-> V[i].bom, cr |-> V[i].cr]
              /\ U[i] = [body |-> U[i].body, bom |-> U[i].bom, cr |-> U[i].cr]
          BY <5>2, <1>1, <3>5, TextLines
        <5> QED
          BY <5>1, <5>3
      <4>2. CASE i # a
        <5>1. i \in 1 .. a - 1 /\ i \in 1 .. a
          BY <4>2, <3>2
        <5> QED
          BY <5>1, <4>2, <3>7, <3>3, <3>5
      <4> QED
        BY <4>1, <4>2
    <3>9. U = V
      BY <3>8, <3>5, <3>2, <1>1, SameLines
    <3>10. V = SetCr(SubSeq(T, 1, a), a, FALSE)
      <4>1. V = SetCr(SubSeq(T, 1, a), a, c)
        BY DEF V, x
      <4> QED
        BY <4>1, <3>0
    <3> QED
      BY <3>1, <3>9, <3>10
  <2> QED
    BY <2>5, <2>6
<1>4. N = 0 \/ N > 0
  BY <1>1
<1> HIDE DEF N, n
<1> QED
  BY <1>2, <1>3, <1>4

LEMMA PatchKeeps ==
  ASSUME NEW T \in Notes, NEW s \in ToSet(Parse(T)), NEW p \in Payloads
  PROVE  LET U == Patched(T, s, p) IN
         \/ Framed(T, U, s.start, s.end)
         \/ /\ s.end = Len(T) /\ ~EndsInNewline(T)
            /\ U = SetCr(SubSeq(T, 1, s.start), s.start, FALSE)
<1>1. T \in Seq(LineSet) /\ T # <<>>
  BY DEF Notes
<1>2. /\ s.start \in Nat /\ s.end \in Nat /\ s.start <= s.end /\ s.end <= Len(T)
      /\ s.start < Len(T)
  BY <1>1, SectionIs
<1>3. PatchBody(s, p) \in Seq(Bodies)
  BY PatchBodyIs, NotesAssumption
<1> DEFINE U == Splice(T, s.start, s.end, PatchBody(s, p))
           body == Written(T, s.end, PatchBody(s, p))
<1>4. Replaced(T, U, s.start, s.end, body)
  BY <1>2, <1>3, ReplacedIs
<1> HIDE DEF body, U
<1>5. \/ Framed(T, U, s.start, s.end)
      \/ s.end = Len(T) /\ ~EndsInNewline(T) /\ U = SetCr(SubSeq(T, 1, s.start), s.start, FALSE)
  BY <1>2, <1>4, ReplacedKeeps
<1> QED
  BY <1>5 DEF Patched, U

----------------------------------------------------------------------------
(* What appendsec, append, daily-append and prepend insert.                *)

\* One list of lines behind another.
IsConcat(z, x, y, S) ==
  /\ z \in Seq(S) /\ Len(z) = Len(x) + Len(y)
  /\ \A i \in 1 .. Len(x) : z[i] = x[i]
  /\ \A i \in 1 .. Len(y) : z[Len(x) + i] = y[i]

LEMMA ConcatIs ==
  ASSUME NEW S, NEW x \in Seq(S), NEW y \in Seq(S)
  PROVE  IsConcat(x \o y, x, y, S)
BY DEF IsConcat

LEMMA LinesAreEqual ==
  ASSUME NEW k \in LineSet, NEW l \in LineSet, k.body = l.body, k.bom = l.bom, k.cr = l.cr
  PROVE  k = l
BY DEF LineSet

LEMMA ALine ==
  ASSUME NEW c \in Bodies, NEW cr \in BOOLEAN
  PROVE  /\ Line(c, cr) \in LineSet /\ Line(c, cr).body = c
         /\ Line(c, cr).bom = FALSE /\ Line(c, cr).cr = cr
BY DEF Line, LineSet

\* M is T with the mark b before its first line.
IsMarked(M, T, b) ==
  /\ M \in Notes /\ Len(M) = Len(T)
  /\ M[1].body = T[1].body /\ M[1].cr = T[1].cr /\ M[1].bom = b
  /\ \A i \in 2 .. Len(T) : M[i] = T[i]

LEMMA MarkedIs ==
  ASSUME NEW T \in Notes, NEW b \in BOOLEAN
  PROVE  IsMarked(Marked(T, b), T, b)
<1>1. T \in Seq(LineSet) /\ T # <<>> /\ Len(T) \in Nat \ {0}
  BY EmptySeq DEF Notes
<1>2. /\ Head(T) = T[1] /\ Tail(T) \in Seq(LineSet) /\ Len(Tail(T)) = Len(T) - 1
      /\ \A i \in 1 .. Len(T) - 1 : Tail(T)[i] = T[i + 1]
  BY <1>1
<1> DEFINE l == [T[1] EXCEPT !.bom = b]
<1>3. l \in LineSet /\ l.body = T[1].body /\ l.cr = T[1].cr /\ l.bom = b
  <2>1. T[1] \in LineSet
    BY <1>1
  <2> QED
    BY <2>1 DEF LineSet
<1> HIDE DEF l
<1> DEFINE t == Tail(T)
           M == <<l>> \o t
<1>4. Marked(T, b) = M
  BY <1>2 DEF Marked, l
<1>5. <<l>> \in Seq(LineSet) /\ Len(<<l>>) = 1 /\ <<l>>[1] = l
  BY <1>3
<1>6. t \in Seq(LineSet)
  BY <1>2
<1> HIDE DEF t
<1>7. /\ M \in Seq(LineSet) /\ Len(M) = 1 + Len(t)
      /\ M[1] = l /\ \A i \in 1 .. Len(t) : M[1 + i] = t[i]
  <2> DEFINE h == <<l>>
  <2>1. h \in Seq(LineSet) /\ Len(h) = 1 /\ h[1] = l
    BY <1>5
  <2> HIDE DEF h
  <2>2. IsConcat(h \o t, h, t, LineSet)
    BY <2>1, <1>6, ConcatIs
  <2> QED
    BY <2>1, <2>2 DEF h, IsConcat
<1> HIDE DEF M
<1>8. \A i \in 2 .. Len(T) : M[i] = T[i]
  <2> TAKE i \in 2 .. Len(T)
  <2>1. i - 1 \in 1 .. Len(t) /\ 1 + (i - 1) = i /\ (i - 1) + 1 = i
    BY <1>1, <1>2 DEF t
  <2>2. M[1 + (i - 1)] = t[i - 1]
    BY <2>1, <1>7
  <2>3. t[i - 1] = T[(i - 1) + 1]
    BY <2>1, <1>2 DEF t
  <2> QED
    BY <2>1, <2>2, <2>3
<1>9. M # <<>> /\ Len(M) = Len(T)
  BY <1>1, <1>2, <1>7, EmptySeq DEF t
<1> QED
  BY <1>3, <1>4, <1>7, <1>8, <1>9 DEF IsMarked, Notes

\* U is T with the lines q inserted below line i, of which a final line may
\* get a terminator.
Inserting(T, U, q, i) ==
  /\ U \in Notes /\ q \in Seq(Bodies) /\ i \in 0 .. Len(T)
  /\ Len(U) = Len(T) + Len(q)
  /\ U[1].bom = T[1].bom
  /\ \A j \in 1 .. i : /\ U[j].body = T[j].body /\ U[j].bom = T[j].bom
                       /\ U[j].cr = T[j].cr \/ (j = Len(T) /\ i = Len(T) /\ U[j].cr)
  /\ \A j \in 1 .. Len(q) : U[i + j].body = q[j]
  /\ \A j \in i + 1 .. Len(T) : /\ U[Len(q) + j].body = T[j].body
                                /\ U[Len(q) + j].cr = T[j].cr
                                /\ j > 1 => U[Len(q) + j].bom = T[j].bom
                                /\ j = 1 /\ Len(q) > 0 => ~U[Len(q) + j].bom

LEMMA InsertedIs ==
  ASSUME NEW T \in Notes, NEW U, NEW p, NEW q, NEW i, Inserting(T, U, q, i),
         \/ q = p \/ q = Append(p, Blank)
         \/ Last(p) = Blank /\ q = Front(p)
  PROVE  Inserted(T, U, p)
<1> DEFINE n == Len(T)
           k == Len(q)
<1>1. /\ T \in Seq(LineSet) /\ n \in Nat \ {0} /\ U \in Seq(LineSet) /\ U \in Notes
      /\ q \in Seq(Bodies) /\ k \in Nat /\ i \in 0 .. n /\ Len(U) = n + k
  BY EmptySeq DEF Inserting, Notes
<1>2. PICK V : /\ V \in IF i = Len(T) THEN {T, SetCr(T, i, TRUE)} ELSE {T}
               /\ V \in Notes /\ Len(V) = n
               /\ \A j \in 1 .. i : V[j].body = U[j].body /\ V[j].cr = U[j].cr
                                    /\ V[j].bom = U[j].bom
               /\ \A j \in i + 1 .. n : V[j] = T[j]
               /\ V[1].bom = T[1].bom
  <2>1. CASE i = n /\ U[n].cr
    <3>0. PICK c \in BOOLEAN : c = TRUE
      OBVIOUS
    <3>1. n \in 1 .. Len(T)
      BY <1>1
    <3>2. Recoded(SetCr(T, n, c), T, n, c)
      BY <3>1, <1>1, SetCrIs
    <3> DEFINE V == SetCr(T, n, c)
    <3>3. /\ V \in Seq(LineSet) /\ Len(V) = n /\ \A j \in 1 .. n : j # n => V[j] = T[j]
          /\ V[n].body = T[n].body /\ V[n].bom = T[n].bom /\ V[n].cr = TRUE
      BY <3>0, <3>2 DEF Recoded
    <3>4. V = SetCr(T, i, TRUE)
      BY <2>1, <3>0
    <3> HIDE DEF V
    <3>5. \A j \in 1 .. i : V[j].body = U[j].body /\ V[j].cr = U[j].cr
                                    /\ V[j].bom = U[j].bom
      <4> TAKE j \in 1 .. i
      <4>1. /\ U[j].body = T[j].body /\ U[j].bom = T[j].bom
            /\ U[j].cr = T[j].cr \/ (j = n)
        BY DEF Inserting
      <4>2. CASE j = n
        <5>1. U[n].cr \in BOOLEAN
          <6>1. n \in 1 .. Len(U)
            BY <1>1
          <6> QED
            BY <6>1, <1>1, TextLines
        <5> QED
          BY <4>1, <4>2, <3>3, <2>1, <5>1
      <4>3. CASE j # n
        BY <4>1, <4>3, <3>3, <2>1
      <4> QED
        BY <4>2, <4>3
    <3>6. V[1].bom = T[1].bom
      BY <3>3, <1>1
    <3>7. V # <<>>
      BY <3>3, <1>1, EmptySeq
    <3>8. \A j \in i + 1 .. n : V[j] = T[j]
      BY <2>1, <1>1
    <3> QED
      BY <3>3, <3>4, <3>5, <3>6, <3>7, <3>8, <2>1, ZenonT(30) DEF Notes
  <2>2. CASE ~(i = n /\ U[n].cr)
    <3>1. \A j \in 1 .. i : T[j].body = U[j].body /\ T[j].cr = U[j].cr
                                    /\ T[j].bom = U[j].bom
      BY <2>2, <1>1 DEF Inserting
    <3> QED
      BY <3>1, <1>1
  <2> QED
    BY <2>1, <2>2
<1> DEFINE W == Marked(V, FALSE)
           M == Marked(U, FALSE)
<1>0. PICK c \in BOOLEAN : c = FALSE
  OBVIOUS
<1>3. IsMarked(W, V, FALSE) /\ IsMarked(M, U, FALSE)
  <2>1. IsMarked(Marked(V, c), V, c) /\ IsMarked(Marked(U, c), U, c)
    BY <1>1, <1>2, MarkedIs
  <2> QED
    BY <2>1, <1>0
<1>4. /\ W \in Seq(LineSet) /\ Len(W) = n /\ W[1].body = V[1].body /\ W[1].cr = V[1].cr
      /\ W[1].bom = FALSE /\ \A j \in 2 .. n : W[j] = V[j]
      /\ M \in Seq(LineSet) /\ Len(M) = n + k /\ M[1].body = U[1].body /\ M[1].cr = U[1].cr
      /\ M[1].bom = FALSE /\ \A j \in 2 .. n + k : M[j] = U[j]
  BY <1>1, <1>2, <1>3 DEF IsMarked, Notes
<1> HIDE DEF W, M, n, k
<1>13. /\ \A j \in 1 .. n : W[j].body = V[j].body /\ W[j].cr = V[j].cr
       /\ \A j \in 1 .. n + k : M[j].body = U[j].body /\ M[j].cr = U[j].cr
  <2>1. \A j \in 1 .. n : j = 1 \/ j \in 2 .. n
    BY <1>1
  <2>2. \A j \in 1 .. n + k : j = 1 \/ j \in 2 .. n + k
    BY <1>1
  <2> QED
    BY <2>1, <2>2, <1>4
<1>5. \A j \in 1 .. i : M[j] = W[j]
  <2> TAKE j \in 1 .. i
  <2>1. M[j] \in LineSet /\ W[j] \in LineSet
    BY <1>1, <1>4
  <2>2. M[j].body = W[j].body /\ M[j].cr = W[j].cr /\ M[j].bom = W[j].bom
    <3>1. V[j].body = U[j].body /\ V[j].cr = U[j].cr /\ V[j].bom = U[j].bom
      BY <1>2
    <3>2. CASE j = 1
      BY <3>1, <3>2, <1>4
    <3>3. CASE j # 1
      <4>1. j \in 2 .. n /\ j \in 2 .. n + k
        BY <3>3, <1>1
      <4> QED
        BY <4>1, <3>1, <1>4
    <3> QED
      BY <3>2, <3>3
  <2> QED
    BY <2>1, <2>2, LinesAreEqual
<1>6. \A j \in 1 .. n - i : M[k + i + j] = W[i + j]
  <2> TAKE j \in 1 .. n - i
  <2> DEFINE x == i + j
  <2>1. x \in i + 1 .. n /\ k + x \in 1 .. n + k /\ x \in 1 .. n /\ k + i + j = k + x
    BY <1>1
  <2> HIDE DEF x
  <2>2. M[k + x] \in LineSet /\ W[x] \in LineSet
    BY <1>1, <1>4, <2>1
  <2>3. /\ U[k + x].body = T[x].body /\ U[k + x].cr = T[x].cr
        /\ x > 1 => U[k + x].bom = T[x].bom
        /\ x = 1 /\ k > 0 => ~U[k + x].bom
    BY <2>1 DEF Inserting, n, k
  <2>4. V[x] = T[x]
    BY <2>1, <1>2
  <2>5. M[k + x].body = U[k + x].body /\ M[k + x].cr = U[k + x].cr
        /\ W[x].body = V[x].body /\ W[x].cr = V[x].cr
    BY <2>1, <1>13
  <2>6. M[k + x].bom = W[x].bom
    <3>1. CASE x > 1
      <4>1. k + x \in 2 .. n + k /\ x \in 2 .. n
        BY <3>1, <2>1, <1>1
      <4> QED
        BY <4>1, <3>1, <2>3, <2>4, <1>4
    <3>2. CASE x = 1 /\ k > 0
      <4>1. k + x \in 2 .. n + k
        BY <3>2, <2>1, <1>1
      <4>2. M[k + x] = U[k + x] /\ ~U[k + x].bom
        BY <4>1, <3>2, <2>3, <1>4
      <4>3. M[k + x].bom \in BOOLEAN
        BY <2>2 DEF LineSet
      <4> QED
        BY <4>2, <4>3, <3>2, <1>4
    <3>3. CASE x = 1 /\ k = 0
      <4>1. k + x = 1
        BY <3>3
      <4> QED
        BY <4>1, <3>3, <1>4
    <3>4. x > 1 \/ (x = 1 /\ k > 0) \/ (x = 1 /\ k = 0)
      BY <2>1, <1>1
    <3> QED
      BY <3>1, <3>2, <3>3, <3>4
  <2>7. M[k + x] = W[x]
    BY <2>2, <2>3, <2>4, <2>5, <2>6, LinesAreEqual
  <2> QED
    BY <2>1, <2>7 DEF x
<1>7. Framed(W, M, i, i)
  <2>1. /\ i \in Nat /\ i <= Len(W) /\ Len(M) >= i + (Len(W) - i)
        /\ \A j \in 1 .. Len(W) - i : M[Len(M) - (Len(W) - i) + j] = W[i + j]
    <3>1. Len(M) - (Len(W) - i) = k + i
      BY <1>1, <1>4
    <3> QED
      BY <3>1, <1>1, <1>4, <1>6
  <2>2. i \in Nat /\ i <= i /\ i <= Len(W) /\ Len(M) >= i + (Len(W) - i)
    BY <2>1
  <2> QED
    BY <2>1, <2>2, <1>4, <1>5, FramedIs
<1>8. Contents(SubSeq(U, i + 1, Len(U) - (Len(T) - i))) = q
  <2> DEFINE e == Len(U) - (Len(T) - i)
             x == SubSeq(U, i + 1, e)
  <2>1. e \in Nat /\ e <= Len(U) /\ i <= e /\ e - i = k /\ i \in Nat
    BY <1>1 DEF n
  <2> HIDE DEF e
  <2>2. x \in Seq(LineSet) /\ Len(x) = k /\ \A j \in 1 .. k : x[j] = U[i + j]
    <3>0. U \in Seq(LineSet)
      BY <1>1
    <3>1. /\ x \in Seq(LineSet) /\ Len(x) = e - i
          /\ \A j \in 1 .. e - i : x[j] = U[i + j]
      BY <3>0, <2>1, SliceIs, SMTT(30)
    <3> HIDE DEF x, k
    <3> QED
      BY <3>1, <2>1
  <2> HIDE DEF x
  <2>3. \A j \in 1 .. k : x[j].body = q[j]
    BY <2>2 DEF Inserting, k
  <2>4. DOMAIN x = 1 .. k
    BY <2>2, SeqIsFunction
  <2>5. Contents(x) = [j \in 1 .. k |-> q[j]]
    BY <2>3, <2>4 DEF Contents
  <2>6. q = [j \in 1 .. k |-> q[j]]
    BY <1>1, SeqIsFunction DEF k
  <2> QED
    BY <2>5, <2>6 DEF x, e
<1>9. U[1].bom = T[1].bom
  BY DEF Inserting
<1> DEFINE lines == {p, Append(p, Blank)} \cup
                  (IF Last(p) = Blank THEN {Front(p)} ELSE {})
<1>10. q \in lines
  OBVIOUS
<1> HIDE DEF lines
<1>11. \E v \in (IF i = Len(T) THEN {T, SetCr(T, i, TRUE)} ELSE {T}) :
         /\ Framed(Marked(v, FALSE), Marked(U, FALSE), i, i)
         /\ Contents(SubSeq(U, i + 1, Len(U) - (Len(T) - i))) \in lines
  BY <1>2, <1>7, <1>8, <1>10 DEF W, M
<1>12. i \in 0 .. Len(T)
  BY <1>1 DEF n
<1> QED
  BY <1>9, <1>11, <1>12 DEF Inserted, lines

LEMMA InsertionPointIs ==
  ASSUME NEW T, NEW start \in Nat, NEW end \in Nat, start <= end
  PROVE  /\ InsertionPoint(T, start, end) \in start .. end
         /\ \A j \in InsertionPoint(T, start, end) + 1 .. end : IsBlank(T[j])
         /\ \A i \in start .. end : (\A j \in i + 1 .. end : IsBlank(T[j])) =>
              InsertionPoint(T, start, end) <= i
<1> DEFINE S == {i \in start .. end : \A j \in i + 1 .. end : IsBlank(T[j])}
<1>1. S \in SUBSET Nat /\ end \in S
  OBVIOUS
<1> HIDE DEF S
<1>2. Min(S) \in S /\ \A x \in S : Min(S) <= x
  BY <1>1, MinIs
<1>3. InsertionPoint(T, start, end) = Min(S)
  BY DEF InsertionPoint, S
<1> QED
  BY <1>2, <1>3 DEF S

\* splice at one place inserts there.
LEMMA SpliceInserts ==
  ASSUME NEW T \in Notes, NEW at \in Nat, at <= Len(T), NEW p \in Seq(Bodies), p # <<>>,
         at = Len(T) => ~EndsInNewline(T), at = 0 => T[1].bom = FALSE
  PROVE  \E q : /\ Inserting(T, Splice(T, at, at, p), q, at)
                /\ q = p \/ (Last(p) = Blank /\ q = Front(p))
<1> DEFINE n == Len(T)
           U == Splice(T, at, at, p)
           q == Written(T, at, p)
           k == Len(q)
<1>1. T \in Seq(LineSet) /\ T # <<>> /\ n \in Nat \ {0}
  BY EmptySeq DEF Notes
<1>2. Replaced(T, U, at, at, q)
  <2>1. at <= at
    OBVIOUS
  <2> QED
    BY <2>1, ReplacedIs
<1>3. \/ q = p
      \/ at = n /\ ~EndsInNewline(T) /\ Last(p) = Blank /\ q = Front(p)
  <2>1. CASE at >= n
    <3>1. q = EndAs(T, p) /\ at = n
      BY <2>1 DEF Written
    <3> QED
      BY <3>1, <1>1, EndAsIs
  <2>2. CASE ~(at >= n)
    BY <2>2 DEF Written
  <2> QED
    BY <2>1, <2>2
<1> HIDE DEF U, q, n
<1>4. q \in Seq(Bodies) /\ U \in Notes /\ k \in Nat /\ at + k + (n - at) > 0
      /\ U \in Seq(LineSet)
  BY <1>1, <1>2 DEF Replaced, Notes, n
<1>5. PICK x, y, cr : Spliced(T, U, at, at, q, x, y, cr)
  BY <1>2, <1>4 DEF Replaced, n
<1>6. /\ x \in Nat /\ y \in Nat /\ x + y <= at - at
      /\ Len(U) = at + k + (n - at)
      /\ \A i \in 1 .. at + x :
           /\ U[i].body = T[i].body /\ U[i].bom = T[i].bom
           /\ \/ U[i].cr = T[i].cr
              \/ i = n /\ ClosesLast(T, at, q, x, y) /\ InsertCr(T, n - 1)
              \/ (i = at + k + (n - at) /\ OpensLast(T, at, at, q, x, y))
      /\ \A i \in at + x + 1 .. at + k - y :
           U[i].body = q[i - at] /\ U[i].bom = FALSE
      /\ \A i \in at + k - y + 1 .. at + k + (n - at) : U[i] = T[i - k - at + at]
      /\ ClosesLast(T, at, q, x, y) /\ InsertCr(T, n - 1) => U[n].cr
  BY <1>5 DEF Spliced, n
<1>7. x = 0 /\ y = 0 /\ Len(U) = n + k
  BY <1>1, <1>4, <1>6
<1>8. ASSUME NEW j \in 1 .. at
      PROVE  /\ U[j].body = T[j].body /\ U[j].bom = T[j].bom
             /\ U[j].cr = T[j].cr \/ (j = n /\ at = n /\ U[j].cr)
  <2>1. j \in 1 .. at + x
    BY <1>7
  <2>2. ~(j = at + k + (n - at) /\ OpensLast(T, at, at, q, x, y))
    <3>1. OpensLast(T, at, at, q, x, y) => at >= n /\ 0 < k
      BY <1>7, <1>4 DEF OpensLast, n
    <3>2. at >= n /\ 0 < k => j # at + k + (n - at)
      <4>1. at <= n
        BY DEF n
      <4> QED
        BY <4>1, <1>1, <1>4
    <3> QED
      BY <3>1, <3>2
  <2>3. j = n => at = n
    BY <1>1 DEF n
  <2> QED
    BY <2>1, <2>2, <2>3, <1>6
<1>9. \A j \in 1 .. k : U[at + j].body = q[j] /\ U[at + j].bom = FALSE
  <2> TAKE j \in 1 .. k
  <2>1. at + j \in at + x + 1 .. at + k - y /\ (at + j) - at = j
    BY <1>7, <1>4
  <2> QED
    BY <2>1, <1>6
<1>10. \A j \in at + 1 .. n : U[k + j] = T[j]
  <2> TAKE j \in at + 1 .. n
  <2>1. k + j \in at + k - y + 1 .. at + k + (n - at) /\ (k + j) - k - at + at = j
    BY <1>7, <1>4, <1>1
  <2> QED
    BY <2>1, <1>6
<1>11. at = 0 => /\ U[1].bom = FALSE /\ (k > 0 => U[k + 1].bom = FALSE)
  <2> SUFFICES ASSUME at = 0 PROVE /\ U[1].bom = FALSE
                                   /\ (k > 0 => U[k + 1].bom = FALSE)
    OBVIOUS
  <2>1. 1 \in at + 1 .. n
    BY <1>1
  <2>2. U[k + 1] = T[1] /\ T[1].bom = FALSE
    BY <2>1, <1>10
  <2>3. CASE k > 0
    <3>1. 1 \in 1 .. k /\ at + 1 = 1
      BY <2>3, <1>4
    <3> QED
      BY <3>1, <1>9, <2>2
  <2>4. CASE k = 0
    BY <2>2, <2>4
  <2>5. k > 0 \/ k = 0
    BY <1>4
  <2> QED
    BY <2>2, <2>3, <2>4, <2>5
<1>12. U[1].bom = T[1].bom
  <2>1. CASE at = 0
    BY <2>1, <1>11
  <2>2. CASE at # 0
    <3>1. 1 \in 1 .. at
      BY <2>2
    <3> QED
      BY <3>1, <1>8
  <2> QED
    BY <2>1, <2>2
<1>13. Inserting(T, U, q, at)
  <2>1. at \in 0 .. n
    BY <1>1 DEF n
  <2>2. ASSUME NEW j \in at + 1 .. n
        PROVE  /\ U[k + j].body = T[j].body /\ U[k + j].cr = T[j].cr
               /\ j > 1 => U[k + j].bom = T[j].bom
               /\ j = 1 /\ k > 0 => ~U[k + j].bom
    <3>1. j = 1 => at = 0
      BY <1>1
    <3> QED
      BY <3>1, <1>10, <1>11
  <2>3. Len(U) = Len(T) + Len(q)
    BY <1>7 DEF n
  <2> QED
    BY <2>1, <2>2, <2>3, <1>4, <1>8, <1>9, <1>12 DEF Inserting, n
<1> QED
  BY <1>3, <1>13 DEF U, n

\* The end of a section or of a Today block: where text goes, no blank lines
\* stand, and the empty last line stays last.
LEMMA AppendedInserts ==
  ASSUME NEW T \in Notes, NEW s \in ToSet(Parse(T)), NEW p \in Seq(Bodies), p # <<>>,
         NEW end \in Nat, s.start <= end, end <= Len(T),
         end = s.end \/ IsKind(T[s.start + 1], "heading")
  PROVE  \E q, i : /\ Inserting(T, Appended(T, s, p, end), q, i)
                   /\ q = p \/ (Last(p) = Blank /\ q = Front(p))
<1> DEFINE n == Len(T)
           at == InsertionPoint(T, s.start, end)
<1>1. T \in Seq(LineSet) /\ T # <<>> /\ n \in Nat \ {0}
  BY EmptySeq DEF Notes
<1>2. s.start \in Nat /\ s.start < n /\ s.end \in Nat
  BY <1>1, SectionIs
<1>3. /\ at \in s.start .. end
      /\ \A j \in at + 1 .. end : IsBlank(T[j])
      /\ \A i \in s.start .. end : (\A j \in i + 1 .. end : IsBlank(T[j])) => at <= i
  BY <1>2, InsertionPointIs
<1> HIDE DEF at
<1>4. at \in Nat /\ at <= Len(T)
  BY <1>2, <1>3, <1>1
<1>5. at = n => ~EndsInNewline(T)
  <2> SUFFICES ASSUME at = n, EndsInNewline(T) PROVE FALSE
    OBVIOUS
  <2>1. end = n /\ n - 1 \in s.start .. end
    BY <1>1, <1>2, <1>3
  <2>2. IsBlank(T[n])
    <3>1. T[n] = NoLine
      BY <1>1, LastAndFront DEF EndsInNewline
    <3> QED
      BY <3>1 DEF IsBlank, IsKind, NoLine, Line, Blank
  <2>3. \A j \in (n - 1) + 1 .. end : IsBlank(T[j])
    BY <2>1, <2>2, <1>1
  <2>4. at <= n - 1
    BY <2>1, <2>3, <1>3
  <2> QED
    BY <2>4, <1>1
<1>6. at = 0 => T[1].bom = FALSE
  <2> SUFFICES ASSUME at = 0 PROVE T[1].bom = FALSE
    OBVIOUS
  <2>1. s.start = 0
    BY <1>2, <1>3
  <2>2. T[1].bom \in BOOLEAN
    <3>1. 1 \in 1 .. Len(T)
      BY <1>1
    <3> QED
      BY <3>1, <1>1, TextLines
  <2>3. CASE end > 0
    <3>1. 1 \in at + 1 .. end
      BY <2>3
    <3> QED
      BY <3>1, <1>3, <2>2 DEF IsBlank, IsKind
  <2>4. CASE end = 0 /\ end = s.end
    <3>1. s.id = 0 /\ s.end = 0 /\ s = Section(T, Heads(T), s.id)
      <4>1. s.start = s.end
        BY <2>1, <2>4
      <4> QED
        BY <4>1, <2>4, <1>1, <1>2, SectionIs
    <3>2. Lists(Heads(T), HeadSet(T))
      BY <1>1, HeadsAre
    <3>3. SectionEnd(T, Heads(T), 0) = 0
      BY <3>1 DEF Section
    <3>4. 0 < Len(Heads(T)) /\ Heads(T)[1] = 1
      <4>1. Len(Heads(T)) \in Nat /\ \A i \in 1 .. Len(Heads(T)) : Heads(T)[i] \in Nat
        BY <3>2 DEF Lists
      <4>2. 0 < Len(Heads(T))
        BY <3>3, <1>1 DEF SectionEnd
      <4>3. 1 \in 1 .. Len(Heads(T)) /\ Heads(T)[0 + 1] - 1 = 0
        BY <3>3, <4>1, <4>2 DEF SectionEnd
      <4> QED
        BY <4>1, <4>2, <4>3
    <3>5. 1 \in HeadSet(T)
      <4>1. Len(Heads(T)) \in Nat
        BY <3>2 DEF Lists
      <4>2. 1 \in 1 .. Len(Heads(T))
        BY <3>4, <4>1
      <4> QED
        BY <4>2, <3>2, <3>4 DEF Lists
    <3> QED
      BY <3>5, <2>2 DEF HeadSet, IsKind
  <2>5. CASE end = 0 /\ IsKind(T[s.start + 1], "heading")
    BY <2>1, <2>2, <2>5 DEF IsKind
  <2>6. \/ end > 0 \/ (end = 0 /\ end = s.end)
        \/ (end = 0 /\ IsKind(T[s.start + 1], "heading"))
    OBVIOUS
  <2> QED
    BY <2>3, <2>4, <2>5, <2>6
<1>7. \E q : /\ Inserting(T, Splice(T, at, at, p), q, at)
             /\ q = p \/ (Last(p) = Blank /\ q = Front(p))
  BY <1>4, <1>5, <1>6, SpliceInserts
<1>8. Appended(T, s, p, end) = Splice(T, at, at, p)
  BY DEF Appended, at
<1> QED
  BY <1>7, <1>8

IsConcat3(z, x, y, w, S) ==
  /\ z \in Seq(S) /\ Len(z) = Len(x) + Len(y) + Len(w)
  /\ \A i \in 1 .. Len(x) : z[i] = x[i]
  /\ \A i \in 1 .. Len(y) : z[Len(x) + i] = y[i]
  /\ \A i \in 1 .. Len(w) : z[Len(x) + Len(y) + i] = w[i]

LEMMA Concat3Is ==
  ASSUME NEW S, NEW x \in Seq(S), NEW y \in Seq(S), NEW w \in Seq(S)
  PROVE  IsConcat3(x \o y \o w, x, y, w, S)
<1> DEFINE h == x \o y
           z == h \o w
<1>1. IsConcat(h, x, y, S)
  BY ConcatIs
<1>2. h \in Seq(S) /\ Len(h) = Len(x) + Len(y) /\ Len(x) \in Nat /\ Len(y) \in Nat
  BY <1>1 DEF IsConcat
<1> HIDE DEF h
<1>3. IsConcat(z, h, w, S)
  BY <1>2, ConcatIs
<1> HIDE DEF z
<1>4. \A i \in 1 .. Len(x) : i \in 1 .. Len(h)
  BY <1>2
<1>5. \A i \in 1 .. Len(y) : Len(x) + i \in 1 .. Len(h)
  BY <1>2
<1>6. IsConcat3(z, x, y, w, S)
  BY <1>1, <1>2, <1>3, <1>4, <1>5 DEF IsConcat, IsConcat3
<1>7. z = x \o y \o w
  BY DEF z, h
<1> QED
  BY <1>6, <1>7

\* What append does at the end of the file.
AtEnd(T, U, p, m, eol) ==
  /\ m = IF EndsInNewline(T) THEN Len(T) - 1 ELSE Len(T)
  /\ U \in Notes /\ Len(U) = m + Len(p) + 1
  /\ \A i \in 1 .. Len(T) - 1 : U[i] = T[i]
  /\ m = Len(T) => /\ U[m].body = T[m].body /\ U[m].bom = T[m].bom
                   /\ U[m].cr = eol
  /\ \A i \in 1 .. Len(p) : U[m + i] = Line(p[i], eol)
  /\ U[m + Len(p) + 1] = NoLine

LEMMA AtEofIs ==
  ASSUME NEW T \in Notes, NEW p \in Seq(Bodies)
  PROVE  /\ LastEol(T) \in BOOLEAN
         /\ \E m : AtEnd(T, AtEof(T, p), p, m, LastEol(T))
<1> DEFINE n == Len(T)
           eol == LastEol(T)
           b == Lines(p, eol)
           K == IF EndsInNewline(T) THEN Front(T) ELSE SetCr(T, Len(T), eol)
           m == IF EndsInNewline(T) THEN n - 1 ELSE n
           e == <<NoLine>>
           U == K \o b \o e
<1>1. T \in Seq(LineSet) /\ T # <<>> /\ n \in Nat \ {0}
  BY EmptySeq DEF Notes
<1>2. eol \in BOOLEAN
  <2>1. 0 \in 0 .. Len(T)
    BY <1>1
  <2>2. PICK c \in BOOLEAN : c = FALSE
    OBVIOUS
  <2> QED
    BY <1>1, <2>1, <2>2, TerminatorsAre
<1> HIDE DEF eol
<1>3. b \in Seq(LineSet) /\ Len(b) = Len(p) /\ \A i \in 1 .. Len(p) : b[i] = Line(p[i], eol)
  BY <1>2, LinesIs
<1>4. /\ K \in Seq(LineSet) /\ Len(K) = m /\ m \in Nat
      /\ \A i \in 1 .. n - 1 : K[i] = T[i]
      /\ m = n => K[m].body = T[m].body /\ K[m].bom = T[m].bom /\ K[m].cr = eol
  <2>1. CASE EndsInNewline(T)
    <3>1. K = Front(T) /\ m = n - 1
      BY <2>1
    <3> QED
      BY <3>1, <1>1, LastAndFront
  <2>2. CASE ~EndsInNewline(T)
    <3>1. K = SetCr(T, n, eol) /\ m = n
      BY <2>2
    <3>2. n \in 1 .. Len(T)
      BY <1>1
    <3>3. Recoded(SetCr(T, n, eol), T, n, eol)
      BY <3>2, <1>1, <1>2, SetCrIs
    <3> QED
      BY <3>1, <3>3, <1>1 DEF Recoded
  <2> QED
    BY <2>1, <2>2
<1>5. e \in Seq(LineSet) /\ Len(e) = 1 /\ e[1] = NoLine
  BY BlankIsABody
<1> HIDE DEF K, b, e
<1>6. IsConcat3(U, K, b, e, LineSet)
  BY <1>3, <1>4, <1>5, Concat3Is
<1>7. AtEof(T, p) = U
  BY DEF AtEof, K, b, e, eol
<1> HIDE DEF U
<1>8. /\ U \in Seq(LineSet) /\ Len(U) = m + Len(p) + 1
      /\ \A i \in 1 .. m : U[i] = K[i]
      /\ \A i \in 1 .. Len(p) : U[m + i] = b[i]
      /\ U[m + Len(p) + 1] = e[1]
  BY <1>3, <1>4, <1>5, <1>6 DEF IsConcat3
<1>9. m \in {n - 1, n} /\ \A i \in 1 .. n - 1 : i \in 1 .. m
  BY <1>1
<1>10. U # <<>>
  BY <1>4, <1>8, <1>1, EmptySeq
<1>11. m = n => m \in 1 .. m
  BY <1>1
<1>12. m = IF EndsInNewline(T) THEN Len(T) - 1 ELSE Len(T)
  OBVIOUS
<1> HIDE DEF m
<1>13. \A i \in 1 .. Len(T) - 1 : U[i] = T[i]
  BY <1>4, <1>8, <1>9
<1>14. m = Len(T) => /\ U[m].body = T[m].body /\ U[m].bom = T[m].bom
                     /\ U[m].cr = eol
  BY <1>4, <1>8, <1>11
<1>15. AtEnd(T, U, p, m, eol)
  BY <1>3, <1>5, <1>8, <1>10, <1>12, <1>13, <1>14 DEF AtEnd, Notes
<1> QED
  BY <1>2, <1>7, <1>15 DEF eol

LEMMA AtEofInserts ==
  ASSUME NEW T \in Notes, Regular(T), NEW p \in Seq(Bodies), p # <<>>
  PROVE  Inserted(T, AtEof(T, p), p)
<1> DEFINE n == Len(T)
           U == AtEof(T, p)
           eol == LastEol(T)
<1>1. T \in Seq(LineSet) /\ T # <<>> /\ n \in Nat \ {0} /\ Len(p) \in Nat
  BY EmptySeq DEF Notes
<1>2. PICK m : AtEnd(T, U, p, m, eol)
  BY AtEofIs
<1>3. eol \in BOOLEAN
  BY AtEofIs
<1>4. ~T[n].cr /\ T[n].cr \in BOOLEAN /\ T[n] \in LineSet
  <2>1. Last(T) = T[n]
    BY <1>1, LastAndFront
  <2>2. n \in 1 .. n
    BY <1>1
  <2> QED
    BY <2>1, <2>2, <1>1, TextLines DEF Regular
<1> HIDE DEF U, eol
<1>5. CASE EndsInNewline(T)
  <2>1. /\ m = n - 1 /\ U \in Notes /\ Len(U) = n + Len(p)
        /\ \A i \in 1 .. n - 1 : U[i] = T[i]
        /\ \A i \in 1 .. Len(p) : U[(n - 1) + i] = Line(p[i], eol)
        /\ U[Len(p) + n] = NoLine
    <3>1. m = n - 1
      BY <1>2, <1>5 DEF AtEnd
    <3>2. (n - 1) + Len(p) + 1 = Len(p) + n
      BY <1>1
    <3> QED
      BY <3>1, <3>2, <1>1, <1>2 DEF AtEnd
  <2>2. T[n] = NoLine
    BY <1>1, <1>5, LastAndFront DEF EndsInNewline
  <2>3. \A i \in 1 .. Len(p) : /\ U[(n - 1) + i].body = p[i]
                               /\ U[(n - 1) + i].bom = FALSE
    <3>1. \A i \in 1 .. Len(p) : /\ Line(p[i], eol).body = p[i]
                                 /\ Line(p[i], eol).bom = FALSE
      BY DEF Line
    <3> QED
      BY <3>1, <2>1
  <2>4. NoLine.bom = FALSE
    BY DEF NoLine, Line
  <2>5. U[1].bom = T[1].bom
    <3>1. CASE n = 1
      <4>1. CASE Len(p) = 0
        BY <4>1, <3>1, <2>1, <2>2
      <4>2. CASE Len(p) > 0
        <5>1. 1 \in 1 .. Len(p) /\ (n - 1) + 1 = 1
          BY <4>2, <3>1, <1>1
        <5> QED
          BY <5>1, <2>3, <2>2, <2>4, <3>1
      <4> QED
        BY <4>1, <4>2, <1>1
    <3>2. CASE n # 1
      <4>1. n \in Nat \ {0, 1}
        BY <3>2, <1>1
      <4>2. 1 \in 1 .. n - 1
        <5> HIDE DEF n
        <5>1. n \in Int /\ n > 1
          BY <4>1
        <5> QED
          BY <5>1
      <4> QED
        BY <4>2, <2>1
    <3> QED
      BY <3>1, <3>2
  <2>6. \A j \in (n - 1) + 1 .. n : U[Len(p) + j] = T[j]
    <3>1. \A j \in (n - 1) + 1 .. n : j = n
      BY <1>1
    <3> QED
      BY <3>1, <2>1, <2>2
  <2>7. n - 1 \in 0 .. n
    BY <1>1
  <2>8. ASSUME NEW j \in (n - 1) + 1 .. n
        PROVE  /\ U[Len(p) + j].body = T[j].body
               /\ U[Len(p) + j].cr = T[j].cr
               /\ j > 1 => U[Len(p) + j].bom = T[j].bom
               /\ j = 1 /\ Len(p) > 0 => ~U[Len(p) + j].bom
    <3>1. j = n
      BY <1>1
    <3>2. U[Len(p) + j] = T[j] /\ T[j].bom = FALSE
      BY <3>1, <2>6, <2>2, <2>4
    <3> QED
      BY <3>2
  <2> DEFINE i == n - 1
  <2>9. Inserting(T, U, p, i)
    <3>1. \A j \in 1 .. i : U[j] = T[j]
      BY <2>1
    <3>2. i \in 0 .. Len(T) /\ \A j \in i + 1 .. Len(T) : j \in (n - 1) + 1 .. n
      BY <2>7
    <3> HIDE DEF i
    <3>3. \A j \in 1 .. Len(p) : U[i + j].body = p[j]
      BY <2>3 DEF i
    <3> QED
      BY <3>1, <3>2, <3>3, <2>1, <2>5, <2>8 DEF Inserting
  <2> HIDE DEF i
  <2> QED
    BY <2>9, InsertedIs DEF U
<1>6. CASE ~EndsInNewline(T)
  <2> DEFINE q == Append(p, Blank)
  <2>1. /\ m = n /\ U \in Notes /\ Len(U) = n + Len(p) + 1
        /\ \A i \in 1 .. n - 1 : U[i] = T[i]
        /\ U[n].body = T[n].body /\ U[n].bom = T[n].bom /\ U[n].cr = eol
        /\ \A i \in 1 .. Len(p) : U[n + i] = Line(p[i], eol)
        /\ U[n + Len(p) + 1] = NoLine
    <3>1. m = n
      BY <1>2, <1>6 DEF AtEnd
    <3> QED
      BY <3>1, <1>2 DEF AtEnd
  <2>2. /\ q \in Seq(Bodies) /\ Len(q) = Len(p) + 1
        /\ \A j \in 1 .. Len(p) : q[j] = p[j]
        /\ q[Len(p) + 1] = Blank
    BY BlankIsABody, AppendProperties
  <2> HIDE DEF q
  <2>3. \A j \in 1 .. Len(q) : U[n + j].body = q[j]
    <3> TAKE j \in 1 .. Len(q)
    <3>1. CASE j \in 1 .. Len(p)
      <4>1. Line(p[j], eol).body = p[j]
        BY DEF Line
      <4> QED
        BY <4>1, <3>1, <2>1, <2>2
    <3>2. CASE j = Len(p) + 1
      <4>1. U[n + j] = NoLine
        BY <3>2, <2>1, <1>1
      <4>2. NoLine.body = Blank
        BY DEF NoLine, Line
      <4> QED
        BY <4>1, <4>2, <3>2, <2>2
    <3> QED
      BY <3>1, <3>2, <2>2, <1>1
  <2>4. \A j \in 1 .. n : /\ U[j].body = T[j].body /\ U[j].bom = T[j].bom
                          /\ U[j].cr = T[j].cr \/ (j = n /\ U[j].cr)
    <3> TAKE j \in 1 .. n
    <3>1. CASE j = n
      BY <3>1, <2>1, <1>3, <1>4
    <3>2. CASE j # n
      <4>1. j \in 1 .. n - 1
        BY <3>2, <1>1
      <4> QED
        BY <4>1, <2>1
    <3> QED
      BY <3>1, <3>2
  <2>5. /\ 1 \in 1 .. n /\ n \in 0 .. n /\ \A j \in n + 1 .. n : FALSE
        /\ Len(U) = n + Len(q)
    BY <1>1, <2>1, <2>2
  <2>6. Inserting(T, U, q, n)
    BY <2>1, <2>2, <2>3, <2>4, <2>5 DEF Inserting
  <2> QED
    BY <2>6, InsertedIs DEF U, q
<1> QED
  BY <1>5, <1>6

LEMMA FmEndIs ==
  ASSUME NEW T \in Seq(LineSet)
  PROVE  /\ FmEnd(T) \in Nat /\ FmEnd(T) <= Len(T)
         /\ FmEnd(T) > 0 =>
              /\ FmEnd(T) \in 3 .. Len(T) /\ IsRule(T[1])
              /\ IsKind(T[FmEnd(T)], "dashes")
              /\ \A i \in 3 .. FmEnd(T) - 1 : ~IsKind(T[i], "dashes")
         /\ FmEnd(T) = 0 => \/ ~IsRule(T[1])
                            \/ \A i \in 3 .. Len(T) : ~IsKind(T[i], "dashes")
<1> DEFINE ends == {i \in 3 .. Len(T) : IsKind(T[i], "dashes")}
<1>1. FmEnd(T) = IF IsRule(T[1]) /\ ends # {} THEN Min(ends) ELSE 0
  BY DEF FmEnd
<1>2. ends \in SUBSET Nat /\ Len(T) \in Nat
  OBVIOUS
<1>3. CASE IsRule(T[1]) /\ ends # {}
  <2> DEFINE m == Min(ends)
  <2>1. m \in ends /\ \A x \in ends : m <= x
    <3> HIDE DEF ends
    <3> QED
      BY <1>2, <1>3, MinIs
  <2>2. FmEnd(T) = m
    BY <1>1, <1>3
  <2> HIDE DEF m
  <2>3. \A i \in 3 .. m - 1 : ~IsKind(T[i], "dashes")
    <3> SUFFICES ASSUME NEW i \in 3 .. m - 1, IsKind(T[i], "dashes") PROVE FALSE
      OBVIOUS
    <3>1. i \in ends
      BY <2>1
    <3> QED
      BY <3>1, <2>1
  <2> QED
    BY <2>1, <2>2, <2>3, <1>3
<1>4. CASE ~(IsRule(T[1]) /\ ends # {})
  BY <1>1, <1>2, <1>4
<1> QED
  BY <1>3, <1>4

LEMMA TodayEndIs ==
  ASSUME NEW T \in Notes, Todays(T) # {}
  PROVE  LET s == TheOnly(Todays(T)) IN
         /\ s \in ToSet(Parse(T)) /\ IsKind(T[s.start + 1], "heading")
         /\ TodayEnd(T, s) \in s.start + 1 .. Len(T)
<1> DEFINE sec == TheOnly(Todays(T))
<1>1. T \in Seq(LineSet) /\ T # <<>> /\ Len(T) \in Nat
  BY DEF Notes
<1>2. sec \in Todays(T)
  BY DEF TheOnly
<1> HIDE DEF sec
<1>3. sec \in ToSet(Parse(T)) /\ sec.level = 2
  BY <1>2 DEF Todays
<1>4. /\ sec.start \in Nat /\ sec.start < Len(T) /\ sec.id \in Nat
      /\ sec = Section(T, Heads(T), sec.id)
      /\ sec.id # 0 => IsKind(T[sec.start + 1], "heading")
  <2>1. Lists(Heads(T), HeadSet(T))
    BY <1>1, HeadsAre
  <2>2. Len(Heads(T)) \in Nat
    BY <2>1 DEF Lists
  <2> QED
    BY <1>1, <1>3, <2>2, SectionIs
<1>5. sec.id # 0
  <2>1. Section(T, Heads(T), 0).level = 0
    BY DEF Section
  <2>2. sec = Section(T, Heads(T), sec.id)
    BY <1>4
  <2>3. sec.id = 0 => sec = Section(T, Heads(T), 0)
    BY <2>2, Zenon
  <2> QED
    BY <2>1, <2>3, <1>3
<1> DEFINE S == {t.start : t \in {x \in ToSet(Parse(T)) :
                          x.start > sec.start /\ x.level \in 1 .. 2}}
      \cup {Len(T)}
<1>6. \A x \in S : x \in Nat /\ x > sec.start
  <2>1. \A t \in ToSet(Parse(T)) : t.start \in Nat
    BY <1>1, SectionIs
  <2> QED
    BY <2>1, <1>1, <1>4
<1>7. Len(T) \in S
  OBVIOUS
<1>8. TodayEnd(T, sec) = Min(S)
  BY DEF TodayEnd
<1> HIDE DEF S
<1>9. S \in SUBSET Nat /\ S # {}
  BY <1>6, <1>7
<1>10. Min(S) \in S /\ \A x \in S : Min(S) <= x
  BY <1>9, MinIs
<1>11. Min(S) \in sec.start + 1 .. Len(T)
  BY <1>1, <1>4, <1>6, <1>7, <1>10
<1>12. /\ sec \in ToSet(Parse(T)) /\ IsKind(T[sec.start + 1], "heading")
       /\ TodayEnd(T, sec) \in sec.start + 1 .. Len(T)
  BY <1>3, <1>4, <1>5, <1>8, <1>11, Zenon
<1>13. sec = TheOnly(Todays(T))
  BY DEF sec
<1> QED
  BY <1>12, <1>13, Zenon

\* U is T with block on top, below the mark.
Topped(T, U, block) ==
  /\ U \in Notes /\ Len(U) = Len(block) + Len(T)
  /\ U[1].body = block[1].body /\ U[1].cr = block[1].cr /\ U[1].bom = T[1].bom
  /\ \A i \in 2 .. Len(block) : U[i] = block[i]
  /\ LET i == Len(block) + 1 IN
     U[i].body = T[1].body /\ U[i].cr = T[1].cr /\ U[i].bom = FALSE
  /\ \A i \in 2 .. Len(T) : U[Len(block) + i] = T[i]

LEMMA OnTopIs ==
  ASSUME NEW T \in Notes, NEW block \in Notes
  PROVE  Topped(T, OnTop(T, block), block)
<1>1. /\ T \in Seq(LineSet) /\ Len(T) \in Nat \ {0}
      /\ block \in Seq(LineSet) /\ Len(block) \in Nat \ {0}
  BY EmptySeq DEF Notes
<1>2. T[1].bom \in BOOLEAN
  <2>1. 1 \in 1 .. Len(T)
    BY <1>1
  <2> QED
    BY <2>1, <1>1, TextLines
<1> DEFINE x == Marked(block, T[1].bom)
           y == Marked(T, FALSE)
           U == x \o y
<1>3. IsMarked(x, block, T[1].bom)
  BY <1>2, MarkedIs
<1>4. IsMarked(y, T, FALSE)
  <2>1. PICK c \in BOOLEAN : c = FALSE
    OBVIOUS
  <2>2. IsMarked(Marked(T, c), T, c)
    BY MarkedIs
  <2> QED
    BY <2>1, <2>2
<1>5. OnTop(T, block) = U
  BY DEF OnTop
<1> HIDE DEF x, y
<1>6. x \in Seq(LineSet) /\ y \in Seq(LineSet) /\ Len(x) = Len(block) /\ Len(y) = Len(T)
  BY <1>3, <1>4 DEF IsMarked, Notes
<1>7. IsConcat(U, x, y, LineSet)
  BY <1>6, ConcatIs
<1> HIDE DEF U
<1>8. /\ U \in Seq(LineSet) /\ Len(U) = Len(block) + Len(T)
      /\ \A i \in 1 .. Len(block) : U[i] = x[i]
      /\ \A i \in 1 .. Len(T) : U[Len(block) + i] = y[i]
  BY <1>6, <1>7 DEF IsConcat
<1>9. U \in Notes
  <2>1. Len(U) # 0
    BY <1>1, <1>8
  <2> QED
    BY <2>1, <1>8, EmptySeq DEF Notes
<1>10. U[1] = x[1] /\ U[Len(block) + 1] = y[1]
  <2>1. 1 \in 1 .. Len(block) /\ 1 \in 1 .. Len(T)
    BY <1>1
  <2> QED
    BY <2>1, <1>8
<1>11. /\ \A i \in 2 .. Len(block) : U[i] = block[i]
       /\ \A i \in 2 .. Len(T) : U[Len(block) + i] = T[i]
  <2>1. /\ \A i \in 2 .. Len(block) : i \in 1 .. Len(block)
        /\ \A i \in 2 .. Len(T) : i \in 1 .. Len(T)
    BY <1>1
  <2> QED
    BY <2>1, <1>3, <1>4, <1>8 DEF IsMarked
<1> QED
  BY <1>3, <1>4, <1>5, <1>8, <1>9, <1>10, <1>11 DEF IsMarked, Topped

LEMMA OnTopInserts ==
  ASSUME NEW T \in Notes, NEW p \in Seq(Bodies), p # <<>>, NEW eol \in BOOLEAN
  PROVE  Inserted(T, OnTop(T, Lines(p, eol)), p)
<1> DEFINE b == Lines(p, eol)
           U == OnTop(T, b)
<1>1. /\ T \in Seq(LineSet) /\ Len(T) \in Nat \ {0} /\ Len(p) \in Nat \ {0}
  BY EmptySeq DEF Notes
<1>2. /\ b \in Seq(LineSet) /\ Len(b) = Len(p)
      /\ \A i \in 1 .. Len(p) : b[i] = Line(p[i], eol)
  BY LinesIs
<1> HIDE DEF b
<1>3. b \in Notes
  BY <1>1, <1>2, EmptySeq DEF Notes
<1>4. Topped(T, U, b)
  BY <1>3, OnTopIs
<1> HIDE DEF U
<1>5. \A i \in 1 .. Len(p) : b[i].body = p[i]
  <2>1. \A i \in 1 .. Len(p) : Line(p[i], eol).body = p[i]
    BY DEF Line
  <2> QED
    BY <2>1, <1>2
<1>6. \A j \in 1 .. Len(p) : U[0 + j].body = p[j]
  <2> TAKE j \in 1 .. Len(p)
  <2>1. j = 1 \/ j \in 2 .. Len(p)
    BY <1>1
  <2>2. U[1].body = b[1].body /\ \A i \in 2 .. Len(p) : U[i] = b[i]
    BY <1>2, <1>4 DEF Topped
  <2>3. U[j].body = p[j]
    BY <2>1, <2>2, <1>5
  <2> QED
    BY <2>3
<1>7. ASSUME NEW j \in 1 .. Len(T)
      PROVE  /\ U[Len(p) + j].body = T[j].body
             /\ U[Len(p) + j].cr = T[j].cr
             /\ j > 1 => U[Len(p) + j].bom = T[j].bom
             /\ j = 1 /\ Len(p) > 0 => ~U[Len(p) + j].bom
  <2>1. j = 1 \/ j \in 2 .. Len(T)
    BY <1>1
  <2>2. /\ U[Len(p) + 1].body = T[1].body /\ U[Len(p) + 1].cr = T[1].cr
        /\ U[Len(p) + 1].bom = FALSE
        /\ \A i \in 2 .. Len(T) : U[Len(p) + i] = T[i]
    BY <1>2, <1>4 DEF Topped
  <2>3. CASE j = 1
    BY <2>2, <2>3
  <2>4. CASE j \in 2 .. Len(T)
    <3>1. U[Len(p) + j] = T[j] /\ j # 1
      BY <2>2, <2>4
    <3> QED
      BY <3>1
  <2> QED
    BY <2>1, <2>3, <2>4
<1>8. Inserting(T, U, p, 0)
  <2>1. U \in Notes /\ Len(U) = Len(T) + Len(p) /\ U[1].bom = T[1].bom
    BY <1>1, <1>2, <1>4 DEF Topped
  <2>2. 0 \in 0 .. Len(T) /\ 0 + 1 = 1
    BY <1>1
  <2>3. \A j \in 1 .. 0 : FALSE
    OBVIOUS
  <2> QED
    BY <2>1, <2>2, <2>3, <1>6, <1>7 DEF Inserting
<1> QED
  BY <1>8, InsertedIs DEF U, b

LEMMA RuleIsABody == Rule \in Bodies /\ Rule.rest = "" /\ Rule.kind = "dashes"
<1>1. Rule = [kind |-> "dashes", rest |-> ""]
  BY DEF Rule, Dashes
<1>2. Rule \in [kind : {"dashes"}, rest : {""} \cup STRING]
  BY <1>1
<1> QED
  BY <1>1, <1>2 DEF Bodies

\* A line that begins with three dashes, cut behind them.
LEMMA UndashedIs ==
  ASSUME NEW l \in LineSet, l.body.kind = "dashes"
  PROVE  /\ Undashed(l) \in LineSet /\ Undashed(l).cr = l.cr /\ Undashed(l).bom = l.bom
         /\ l.body.rest = "" => Undashed(l).body = Blank
<1>1. l.body \in Bodies
  BY DEF LineSet
<1>2. l.body \in [kind : {"dashes"}, rest : {""} \cup STRING]
  <2> DEFINE D == {""} \cup STRING
  <2>1. Bodies = {Blank, Indented} \cup [kind : {"word"}, word : STRING]
          \cup [kind : {"heading"}, level : 1 .. 6, title : STRING]
          \cup [kind : {"fence"}, mark : {"tick", "tilde"}, run : Nat,
                 info : {"none", "text", "ticked"}]
          \cup [kind : {"dashes"}, rest : D]
          \cup [kind : {"prop"}, key : STRING, val : Seq(Signs)]
    BY DEF Bodies
  <2> HIDE DEF D
  <2>2. l.body \in [kind : {"dashes"}, rest : D]
    BY <1>1, <2>1 DEF Blank, Indented
  <2> QED
    BY <2>2 DEF D
<1>3. (IF l.body.rest = "" THEN Blank ELSE Word(l.body.rest)) \in Bodies
  BY <1>2 DEF Bodies, Word
<1> DEFINE w == IF l.body.rest = "" THEN Blank ELSE Word(l.body.rest)
<1>4. Undashed(l) = [l EXCEPT !.body = w]
  BY DEF Undashed
<1>5. w \in Bodies /\ (l.body.rest = "" => w = Blank)
  BY <1>3
<1> HIDE DEF w
<1> QED
  BY <1>4, <1>5 DEF LineSet

\* prepend below a frontmatter of j lines: behind its closing line, or after
\* the three dashes with which that line begins.
Split(T, U, p, j, eol) ==
  LET k    == Len(p)
      tail == IsRule(T[j]) /\ j < Len(T) IN
  /\ U \in Notes /\ eol = IF tail THEN T[j].cr ELSE LastEol(T)
  /\ Len(U) = Len(T) + k + IF tail THEN 0 ELSE 1
  /\ \A i \in 1 .. j - 1 : U[i] = T[i]
  /\ U[j] = Line(Rule, eol)
  /\ \A i \in 1 .. k : U[j + i] = Line(p[i], eol)
  /\ tail => \A i \in j + 1 .. Len(T) : U[k + i] = T[i]
  /\ ~tail => /\ U[k + 1 + j] = Undashed(T[j])
              /\ \A i \in j + 1 .. Len(T) : U[k + 1 + i] = T[i]

LEMMA BelowIs ==
  ASSUME NEW T \in Notes, HasFm(T), NEW p \in Seq(Bodies)
  PROVE  \E eol \in BOOLEAN : Split(T, Below(T, p), p, FmEnd(T), eol)
<1> DEFINE n == Len(T)
           j == FmEnd(T)
           k == Len(p)
           P == FmParts(T)
           tail == IsRule(T[j]) /\ j < n
           eol == IF tail THEN T[j].cr ELSE LastEol(T)
<1>1. T \in Seq(LineSet) /\ T # <<>> /\ n \in Nat \ {0} /\ k \in Nat
  BY EmptySeq DEF Notes
<1>2. j \in 3 .. n /\ IsKind(T[j], "dashes")
  BY <1>1, FmEndIs DEF HasFm
<1>3. T[j] \in LineSet /\ T[j].cr \in BOOLEAN /\ T[j].body.kind = "dashes"
  <2> HIDE DEF j
  <2>1. j \in 1 .. Len(T)
    BY <1>1, <1>2
  <2>2. T[j] \in LineSet /\ T[j].cr \in BOOLEAN
    BY <2>1, <1>1, TextLines
  <2>3. T[j].body.kind = "dashes"
    BY <1>2 DEF IsKind
  <2> QED
    BY <2>2, <2>3
<1>4. eol \in BOOLEAN
  <2>1. LastEol(T) \in BOOLEAN
    BY AtEofIs
  <2> QED
    BY <1>3, <2>1
<1>5. /\ P.tail = tail /\ P.eol = T[j].cr
      /\ P.body = IF tail THEN SubSeq(T, j + 1, n)
                  ELSE <<Undashed(T[j])>> \o SubSeq(T, j + 1, n)
  BY DEF FmParts
<1>6. Below(T, p) = SubSeq(T, 1, j - 1) \o <<Line(Rule, eol)>> \o Lines(p, eol) \o P.body
  BY <1>5 DEF Below
<1> HIDE DEF tail, eol
<1> DEFINE x == SubSeq(T, 1, j - 1)
           r == <<Line(Rule, eol)>>
           y == Lines(p, eol)
           z == SubSeq(T, j + 1, n)
           u == <<Undashed(T[j])>>
           b == IF tail THEN z ELSE u \o z
           h == x \o r
           U == h \o y \o b
<1>7. x \in Seq(LineSet) /\ Len(x) = j - 1 /\ \A i \in 1 .. j - 1 : x[i] = T[i]
  <2>1. j - 1 \in Nat /\ j - 1 <= Len(T)
    BY <1>1, <1>2
  <2> QED
    BY <2>1, <1>1, PrefixIs
<1>8. r \in Seq(LineSet) /\ Len(r) = 1 /\ r[1] = Line(Rule, eol)
  <2>1. Line(Rule, eol) \in LineSet
    BY <1>4, RuleIsABody, ALine
  <2> QED
    BY <2>1
<1>9. y \in Seq(LineSet) /\ Len(y) = k /\ \A i \in 1 .. k : y[i] = Line(p[i], eol)
  BY <1>4, LinesIs
<1>10. z \in Seq(LineSet) /\ Len(z) = n - j /\ \A i \in 1 .. n - j : z[i] = T[j + i]
  <2>1. j \in Nat /\ n \in Nat /\ j <= n /\ n <= Len(T)
    BY <1>1, <1>2
  <2> QED
    BY <2>1, <1>1, SliceIs
<1>11. u \in Seq(LineSet) /\ Len(u) = 1 /\ u[1] = Undashed(T[j])
  <2>1. Undashed(T[j]) \in LineSet
    BY <1>3, UndashedIs
  <2> QED
    BY <2>1
<1>12. Below(T, p) = U
  BY <1>5, <1>6
<1>20. n - j \in Nat /\ j \in Nat
  BY <1>1, <1>2
<1> HIDE DEF x, r, y, z, u, n, j, P
<1>13. IsConcat(h, x, r, LineSet) /\ IsConcat(u \o z, u, z, LineSet)
  BY <1>7, <1>8, <1>10, <1>11, ConcatIs
<1>14. b \in Seq(LineSet)
  BY <1>10, <1>13 DEF IsConcat
<1>15. /\ h \in Seq(LineSet) /\ Len(h) = j
       /\ \A i \in 1 .. j - 1 : h[i] = T[i]
       /\ h[j] = r[1]
  <2>1. /\ h \in Seq(LineSet) /\ Len(h) = Len(x) + Len(r)
        /\ \A i \in 1 .. Len(x) : h[i] = x[i]
        /\ \A i \in 1 .. Len(r) : h[Len(x) + i] = r[i]
    BY <1>13 DEF IsConcat
  <2>2. Len(x) + 1 = j /\ 1 \in 1 .. Len(r) /\ Len(h) = j
    BY <1>7, <1>8, <1>20, <2>1
  <2> QED
    BY <2>1, <2>2, <1>7
<1> HIDE DEF h
<1>16. IsConcat3(U, h, y, b, LineSet)
  <2> HIDE DEF b
  <2> QED
    BY <1>9, <1>14, <1>15, Concat3Is
<1> HIDE DEF U
<1>17. /\ U \in Seq(LineSet) /\ Len(U) = j + k + Len(b)
       /\ \A i \in 1 .. j : U[i] = h[i]
       /\ \A i \in 1 .. k : U[j + i] = y[i]
       /\ \A i \in 1 .. Len(b) : U[j + k + i] = b[i]
  <2> HIDE DEF b
  <2> QED
    BY <1>9, <1>15, <1>16 DEF IsConcat3
<1>18. ASSUME tail
       PROVE  Len(U) = n + k /\ \A i \in j + 1 .. n : U[k + i] = T[i]
  <2>1. b = z
    BY <1>18
  <2> HIDE DEF b
  <2>0. Len(b) = n - j
    BY <2>1, <1>10
  <2>2. Len(U) = n + k
    BY <2>0, <1>17, <1>20, <1>1
  <2>3. \A i \in j + 1 .. n : U[k + i] = T[i]
    <3> TAKE i \in j + 1 .. n
    <3>1. i - j \in 1 .. n - j /\ j + k + (i - j) = k + i /\ j + (i - j) = i
      BY <1>1, <1>20
    <3>2. U[j + k + (i - j)] = b[i - j]
      BY <2>1, <3>1, <1>10, <1>17
    <3> QED
      BY <2>1, <3>1, <3>2, <1>10
  <2> QED
    BY <2>2, <2>3
<1>19. ASSUME ~tail
       PROVE  /\ Len(U) = n + k + 1 /\ U[k + 1 + j] = Undashed(T[j])
              /\ \A i \in j + 1 .. n : U[k + 1 + i] = T[i]
  <2>1. b = u \o z
    BY <1>19
  <2>2. Len(b) = 1 + (n - j) /\ b[1] = u[1] /\ \A i \in 1 .. n - j : b[1 + i] = z[i]
    <3>1. 1 \in 1 .. Len(u)
      BY <1>11
    <3> QED
      BY <2>1, <3>1, <1>10, <1>11, <1>13 DEF IsConcat
  <2> HIDE DEF b
  <2>3. Len(U) = n + k + 1
    BY <2>2, <1>17, <1>20, <1>1
  <2>4. U[k + 1 + j] = Undashed(T[j])
    <3>1. 1 \in 1 .. Len(b) /\ j + k + 1 = k + 1 + j
      BY <2>2, <1>1, <1>20
    <3> QED
      BY <3>1, <2>2, <1>11, <1>17
  <2>5. \A i \in j + 1 .. n : U[k + 1 + i] = T[i]
    <3> TAKE i \in j + 1 .. n
    <3>1. /\ i - j \in 1 .. n - j /\ j + k + (1 + (i - j)) = k + 1 + i /\ j + (i - j) = i
          /\ 1 + (i - j) \in 1 .. Len(b)
      BY <2>2, <1>1, <1>20
    <3>2. U[j + k + (1 + (i - j))] = b[1 + (i - j)]
      BY <3>1, <1>17
    <3> QED
      BY <2>2, <3>1, <3>2, <1>10
  <2> QED
    BY <2>3, <2>4, <2>5
<1>21. /\ \A i \in 1 .. j - 1 : U[i] = T[i]
       /\ U[j] = Line(Rule, eol)
       /\ \A i \in 1 .. k : U[j + i] = Line(p[i], eol)
  <2>1. j \in 1 .. j /\ \A i \in 1 .. j - 1 : i \in 1 .. j
    BY <1>2 DEF j, n
  <2> QED
    BY <2>1, <1>8, <1>9, <1>15, <1>17
<1>22. Len(U) = n + k + IF tail THEN 0 ELSE 1
  <2>1. CASE tail
    BY <2>1, <1>18, <1>1 DEF n
  <2>2. CASE ~tail
    BY <2>2, <1>19, <1>1 DEF n
  <2> QED
    BY <2>1, <2>2
<1>23. U # <<>>
  <2>1. Len(U) # 0
    <3>1. Len(U) = n + k \/ Len(U) = n + k + 1
      BY <1>18, <1>19, Zenon
    <3> QED
      BY <3>1, <1>1 DEF n
  <2> QED
    BY <2>1, <1>17, EmptySeq
<1>24. Split(T, U, p, j, eol)
  <2>1. eol = IF tail THEN T[j].cr ELSE LastEol(T)
    BY DEF eol
  <2>2. tail = (IsRule(T[j]) /\ j < n)
    BY DEF tail
  <2>3. /\ tail => \A i \in j + 1 .. n : U[k + i] = T[i]
        /\ ~tail => /\ U[k + 1 + j] = Undashed(T[j])
                    /\ \A i \in j + 1 .. n : U[k + 1 + i] = T[i]
    BY <1>18, <1>19, Zenon
  <2> QED
    BY <2>1, <2>2, <2>3, <1>17, <1>21, <1>22, <1>23 DEF Split, Notes, n
<1> QED
  BY <1>4, <1>12, <1>24 DEF j

LEMMA LastLine ==
  ASSUME NEW T \in Notes
  PROVE  /\ Len(T) \in Nat \ {0} /\ Last(T) = T[Len(T)] /\ T[Len(T)] \in LineSet
         /\ T[Len(T)].cr \in BOOLEAN
<1>1. T \in Seq(LineSet) /\ T # <<>>
  BY DEF Notes
<1>2. Len(T) \in Nat \ {0} /\ Last(T) = T[Len(T)] /\ Last(T) \in LineSet
  BY <1>1, LastAndFront
<1>3. T[Len(T)].cr \in BOOLEAN
  BY <1>2 DEF LineSet
<1> QED
  BY <1>2, <1>3

LEMMA BelowInserts ==
  ASSUME NEW T \in Notes, Regular(T), ~SplitsALine(T), NEW p \in Seq(Bodies), p # <<>>
  PROVE  Inserted(T, Below(T, p), p)
<1> DEFINE n == Len(T)
           k == Len(p)
           U == Below(T, p)
<1>1. T \in Seq(LineSet) /\ n \in Nat \ {0} /\ k \in Nat
  BY EmptySeq DEF Notes
<1>2. CASE ~HasFm(T)
  <2>1. FirstEol(T) \in BOOLEAN
    <3>1. 1 \in 1 .. n
      BY <1>1
    <3>2. T[1].cr \in BOOLEAN
      BY <3>1, <1>1, TextLines
    <3> QED
      BY <3>2 DEF FirstEol
  <2>2. Below(T, p) = OnTop(T, Lines(p, FirstEol(T)))
    BY <1>2 DEF Below
  <2> QED
    BY <2>1, <2>2, OnTopInserts
<1>3. CASE HasFm(T)
  <2> DEFINE j == FmEnd(T)
  <2>1. /\ j \in 3 .. n /\ IsRule(T[j]) /\ T[j].body = Rule /\ T[j].bom = FALSE
        /\ T[j] \in LineSet /\ T[j].cr \in BOOLEAN
    <3>1. j \in 3 .. n /\ IsKind(T[j], "dashes")
      BY <1>1, <1>3, FmEndIs DEF HasFm
    <3>2. IsRule(T[j])
      BY <1>3 DEF SplitsALine
    <3> HIDE DEF j
    <3>3. j \in 1 .. Len(T)
      BY <3>1, <1>1
    <3>4. T[j] \in LineSet /\ T[j].cr \in BOOLEAN /\ T[j].bom \in BOOLEAN
      BY <3>3, <1>1, TextLines
    <3> QED
      BY <3>1, <3>2, <3>4 DEF IsKind, IsRule
  <2>2. PICK eol \in BOOLEAN : Split(T, U, p, j, eol)
    BY <1>3, BelowIs
  <2> HIDE DEF j, U, n
  <2>3. /\ Line(Rule, eol).body = Rule /\ Line(Rule, eol).bom = FALSE
        /\ Line(Rule, eol).cr = eol
        /\ \A i \in 1 .. k : Line(p[i], eol).body = p[i]
    BY DEF Line
  <2>4. /\ U \in Notes
        /\ \A i \in 1 .. j - 1 : U[i] = T[i]
        /\ U[j].body = T[j].body /\ U[j].bom = T[j].bom /\ U[j].cr = eol
        /\ \A i \in 1 .. k : U[j + i].body = p[i]
    BY <2>1, <2>2, <2>3 DEF Split
  <2>5. U[1].bom = T[1].bom
    <3>1. 1 \in 1 .. j - 1
      BY <2>1, <1>1
    <3> QED
      BY <3>1, <2>4
  <2>6. CASE j < n
    <3>1. /\ eol = T[j].cr /\ Len(U) = n + k
          /\ \A i \in j + 1 .. n : U[k + i] = T[i]
      BY <2>1, <2>2, <2>6, <1>1 DEF Split, n
    <3>2. \A i \in 1 .. j : /\ U[i].body = T[i].body /\ U[i].bom = T[i].bom
                            /\ U[i].cr = T[i].cr
      <4> TAKE i \in 1 .. j
      <4>1. i = j \/ i \in 1 .. j - 1
        BY <2>1, <1>1
      <4> QED
        BY <4>1, <2>4, <3>1
    <3>3. j \in 0 .. n /\ \A i \in j + 1 .. n : i # 1
      BY <2>1, <1>1
    <3>4. Inserting(T, U, p, j)
      BY <2>4, <2>5, <3>1, <3>2, <3>3 DEF Inserting, n
    <3> QED
      BY <3>4, InsertedIs DEF U
  <2>7. CASE ~(j < n)
    <3> DEFINE q == Append(p, Blank)
    <3>1. /\ q \in Seq(Bodies) /\ Len(q) = k + 1
          /\ \A i \in 1 .. k : q[i] = p[i]
          /\ q[k + 1] = Blank
      BY BlankIsABody, AppendProperties
    <3> HIDE DEF q
    <3>2. j = n
      BY <2>1, <2>7, <1>1
    <3>3. Len(U) = n + k + 1 /\ U[k + 1 + j] = Undashed(T[j])
      BY <2>2, <2>7 DEF Split, n
    <3>4. Undashed(T[j]).body = Blank
      BY <2>1, RuleIsABody, UndashedIs
    <3>5. \A i \in 1 .. Len(q) : U[n + i].body = q[i]
      <4> TAKE i \in 1 .. Len(q)
      <4>1. CASE i \in 1 .. k
        BY <4>1, <3>1, <3>2, <2>4
      <4>2. CASE i = k + 1
        <5>1. n + i = k + 1 + j
          BY <4>2, <3>2, <1>1
        <5> QED
          BY <5>1, <4>2, <3>1, <3>3, <3>4
      <4> QED
        BY <4>1, <4>2, <3>1, <1>1
    <3>6. ~T[n].cr
      BY LastLine DEF Regular, n
    <3>7. \A i \in 1 .. n : /\ U[i].body = T[i].body /\ U[i].bom = T[i].bom
                            /\ U[i].cr = T[i].cr \/ (i = n /\ U[i].cr)
      <4> TAKE i \in 1 .. n
      <4>1. CASE i = n
        BY <4>1, <2>4, <3>2, <3>6, <2>1
      <4>2. CASE i # n
        <5>1. i \in 1 .. j - 1
          BY <4>2, <3>2, <1>1
        <5> QED
          BY <5>1, <2>4
      <4> QED
        BY <4>1, <4>2
    <3>8. n \in 0 .. n /\ (\A i \in n + 1 .. n : FALSE) /\ Len(U) = n + Len(q)
      BY <1>1, <3>1, <3>3
    <3>9. Inserting(T, U, q, n)
      BY <2>4, <2>5, <3>1, <3>5, <3>7, <3>8 DEF Inserting, n
    <3> QED
      BY <3>9, InsertedIs DEF U, q
  <2> QED
    BY <2>6, <2>7
<1> QED
  BY <1>2, <1>3

LEMMA InsertionsInsert ==
  ASSUME NEW T \in Notes, Regular(T), NEW p \in Payloads
  PROVE  /\ \A s \in ToSet(Parse(T)) : Inserted(T, Appended(T, s, p, s.end), p)
         /\ Inserted(T, AppendedToday(T, p), p)
         /\ Inserted(T, AtEof(T, p), p)
         /\ ~SplitsALine(T) => Inserted(T, Below(T, p), p)
<1>1. p \in Seq(Bodies) /\ p # <<>>
  BY NotesAssumption
<1>2. T \in Seq(LineSet) /\ T # <<>>
  BY DEF Notes
<1>3. ASSUME NEW s \in ToSet(Parse(T)), NEW end \in Nat, s.start <= end, end <= Len(T),
             end = s.end \/ IsKind(T[s.start + 1], "heading")
      PROVE  Inserted(T, Appended(T, s, p, end), p)
  <2>1. PICK q, i : /\ Inserting(T, Appended(T, s, p, end), q, i)
                    /\ q = p \/ (Last(p) = Blank /\ q = Front(p))
    BY <1>1, <1>3, AppendedInserts
  <2> QED
    BY <2>1, InsertedIs
<1>4. \A s \in ToSet(Parse(T)) : Inserted(T, Appended(T, s, p, s.end), p)
  <2> TAKE s \in ToSet(Parse(T))
  <2>1. s.end \in Nat /\ s.start <= s.end /\ s.end <= Len(T)
    BY <1>2, SectionIs
  <2> QED
    BY <2>1, <1>3
<1>5. Inserted(T, AtEof(T, p), p)
  BY <1>1, AtEofInserts
<1>6. Inserted(T, AppendedToday(T, p), p)
  <2>1. CASE Todays(T) = {}
    BY <2>1, <1>5 DEF AppendedToday
  <2>2. CASE Todays(T) # {}
    <3> DEFINE sec == TheOnly(Todays(T))
    <3>1. /\ sec \in ToSet(Parse(T)) /\ IsKind(T[sec.start + 1], "heading")
          /\ TodayEnd(T, sec) \in sec.start + 1 .. Len(T)
      BY <2>2, TodayEndIs
    <3>2. AppendedToday(T, p) = Appended(T, sec, p, TodayEnd(T, sec))
      BY <2>2 DEF AppendedToday
    <3> HIDE DEF sec
    <3>3. sec.start \in Nat /\ Len(T) \in Nat
      BY <1>2, <3>1, SectionIs
    <3>4. TodayEnd(T, sec) \in Nat /\ sec.start <= TodayEnd(T, sec) /\ TodayEnd(T, sec) <= Len(T)
      BY <3>1, <3>3
    <3>5. Inserted(T, Appended(T, sec, p, TodayEnd(T, sec)), p)
      BY <3>1, <3>4, <1>3
    <3> QED
      BY <3>2, <3>5
  <2> QED
    BY <2>1, <2>2
<1>7. ~SplitsALine(T) => Inserted(T, Below(T, p), p)
  BY <1>1, BelowInserts
<1> QED
  BY <1>4, <1>5, <1>6, <1>7

----------------------------------------------------------------------------
(* The frontmatter in parts and joined again; set and unset.               *)

LEMMA DashesAre ==
  ASSUME NEW c \in Bodies, c.kind = "dashes"
  PROVE  c = [kind |-> "dashes", rest |-> c.rest] /\ c.rest \in {""} \cup STRING
<1> DEFINE D == {""} \cup STRING
<1>1. Bodies = {Blank, Indented} \cup [kind : {"word"}, word : STRING]
        \cup [kind : {"heading"}, level : 1 .. 6, title : STRING]
        \cup [kind : {"fence"}, mark : {"tick", "tilde"}, run : Nat,
               info : {"none", "text", "ticked"}]
        \cup [kind : {"dashes"}, rest : D]
        \cup [kind : {"prop"}, key : STRING, val : Seq(Signs)]
  BY DEF Bodies
<1> HIDE DEF D
<1>2. c \in [kind : {"dashes"}, rest : D]
  BY <1>1 DEF Blank, Indented
<1>3. c = [kind |-> c.kind, rest |-> c.rest] /\ c.rest \in D
  BY <1>2
<1> QED
  BY <1>3 DEF D

\* What is cut behind the three dashes is put together again.
LEMMA DashedIs ==
  ASSUME NEW l \in LineSet, l.body.kind = "dashes"
  PROVE  Dashed(Undashed(l)) = l
<1>1. l.body \in Bodies /\ l = [body |-> l.body, bom |-> l.bom, cr |-> l.cr]
  BY DEF LineSet
<1> DEFINE r == l.body.rest
           w == IF r = "" THEN Blank ELSE Word(r)
           u == [l EXCEPT !.body = w]
           d == IF u.body = Blank THEN "" ELSE u.body.word
<1>2. l.body = Dashes(r)
  BY <1>1, DashesAre DEF Dashes
<1>3. u.body = w /\ u.bom = l.bom /\ u.cr = l.cr
      /\ u = [body |-> w, bom |-> l.bom, cr |-> l.cr]
  <2> HIDE DEF w
  <2>1. l \in [body : Bodies, bom : BOOLEAN, cr : BOOLEAN]
    BY DEF LineSet
  <2>2. /\ [l EXCEPT !.body = w].body = w /\ [l EXCEPT !.body = w].bom = l.bom
        /\ [l EXCEPT !.body = w].cr = l.cr
        /\ [l EXCEPT !.body = w] = [body |-> w, bom |-> l.bom, cr |-> l.cr]
    BY <2>1
  <2> QED
    BY <2>2
<1>4. d = r
  <2>1. CASE r = ""
    <3>1. w = Blank
      BY <2>1
    <3> QED
      BY <2>1, <3>1, <1>3
  <2>2. CASE r # ""
    <3>1. w = Word(r)
      BY <2>2
    <3>2. Word(r) # Blank /\ Word(r).word = r
      BY DEF Word, Blank
    <3> HIDE DEF w, u, r
    <3> QED
      BY <3>1, <3>2, <1>3
  <2> QED
    BY <2>1, <2>2
<1>5. Dashed(Undashed(l)) = [u EXCEPT !.body = Dashes(d)]
  BY DEF Dashed, Undashed
<1> HIDE DEF u, d, w, r
<1>6. [u EXCEPT !.body = Dashes(r)] = [body |-> Dashes(r), bom |-> l.bom, cr |-> l.cr]
  BY <1>3
<1> QED
  BY <1>1, <1>2, <1>4, <1>5, <1>6

LEMMA Shifted ==
  ASSUME NEW S, NEW l \in S, NEW z \in Seq(S)
  PROVE  /\ <<l>> \o z \in Seq(S) /\ Len(<<l>> \o z) = Len(z) + 1
         /\ (<<l>> \o z)[1] = l /\ Tail(<<l>> \o z) = z
         /\ \A i \in 1 .. Len(z) : (<<l>> \o z)[i + 1] = z[i]
<1> DEFINE h == <<l>>
           w == h \o z
<1>1. h \in Seq(S) /\ Len(h) = 1 /\ h[1] = l
  OBVIOUS
<1>2. Len(z) \in Nat
  OBVIOUS
<1> HIDE DEF h
<1>3. IsConcat(w, h, z, S)
  BY <1>1, ConcatIs
<1>4. /\ w \in Seq(S) /\ Len(w) = Len(z) + 1 /\ w[1] = l
      /\ \A i \in 1 .. Len(z) : w[i + 1] = z[i]
  <2>1. 1 \in 1 .. Len(h) /\ Len(h) + Len(z) = Len(z) + 1
    BY <1>1, <1>2
  <2>2. \A i \in 1 .. Len(z) : Len(h) + i = i + 1
    BY <1>1
  <2> QED
    BY <2>1, <2>2, <1>1, <1>3 DEF IsConcat
<1> HIDE DEF w
<1>5. Tail(w) = z
  <2>1. w # <<>>
    BY <1>2, <1>4, EmptySeq
  <2>2. /\ Tail(w) \in Seq(S) /\ Len(Tail(w)) = Len(w) - 1
        /\ \A i \in 1 .. Len(Tail(w)) : Tail(w)[i] = w[i + 1]
    BY <2>1, <1>4, HeadTailProperties
  <2>3. Len(Tail(w)) = Len(z) /\ \A i \in 1 .. Len(z) : Tail(w)[i] = z[i]
    BY <2>2, <1>2, <1>4
  <2> QED
    BY <2>2, <2>3, SameLines
<1> QED
  BY <1>4, <1>5 DEF w, h

\* The frontmatter of T with the lines F, and all else of T as it was.
Refitted(T, U, F, e) ==
  LET j == FmEnd(T)
      m == IF F = <<>> THEN 1 ELSE Len(F) IN
  /\ U \in Notes /\ Len(U) = 1 + m + (Len(T) - j + 1)
  /\ U[1] = T[1]
  /\ F = <<>> => U[2] = Line(Blank, e)
  /\ \A i \in 1 .. Len(F) : /\ U[1 + i].body = F[i].body /\ U[1 + i].bom = F[i].bom
                            /\ U[1 + i].cr = IF i = Len(F) THEN e ELSE F[i].cr
  /\ \A i \in j .. Len(T) : U[2 + m + (i - j)] = T[i]

\* The closing line and what is below it.
ClosingLines(P) == IF P.tail THEN <<Line(Rule, P.eol)>> \o P.body
             ELSE <<Dashed(P.body[1])>> \o Tail(P.body)

LEMMA RestIs ==
  ASSUME NEW T \in Notes, HasFm(T)
  PROVE  LET R == ClosingLines(FmParts(T)) IN
         /\ R \in Seq(LineSet) /\ Len(R) = Len(T) - FmEnd(T) + 1
         /\ \A i \in FmEnd(T) .. Len(T) : R[i - FmEnd(T) + 1] = T[i]
<1> DEFINE n == Len(T)
           j == FmEnd(T)
           P == FmParts(T)
           R == ClosingLines(P)
           z == SubSeq(T, j + 1, n)
<1>1. T \in Seq(LineSet) /\ T # <<>> /\ n \in Nat \ {0}
  BY EmptySeq DEF Notes
<1>2. j \in 3 .. n /\ IsKind(T[j], "dashes")
  BY <1>1, FmEndIs DEF HasFm
<1>3. /\ P.tail = (IsRule(T[j]) /\ j < n) /\ P.eol = T[j].cr
      /\ P.body = IF IsRule(T[j]) /\ j < n THEN z ELSE <<Undashed(T[j])>> \o z
  BY DEF FmParts
<1>4. R = IF P.tail THEN <<Line(Rule, P.eol)>> \o P.body
          ELSE <<Dashed(P.body[1])>> \o Tail(P.body)
  BY DEF ClosingLines
<1> HIDE DEF P, j, n
<1>5. T[j] \in LineSet /\ T[j].body.kind = "dashes" /\ T[j].bom = FALSE
  <2>1. j \in 1 .. Len(T)
    BY <1>1, <1>2 DEF n
  <2>2. T[j] \in LineSet /\ T[j].bom \in BOOLEAN
    BY <2>1, <1>1, TextLines
  <2> QED
    BY <1>2, <2>2 DEF IsKind
<1>6. z \in Seq(LineSet) /\ Len(z) = n - j /\ \A i \in 1 .. n - j : z[i] = T[j + i]
  <2>1. j \in Nat /\ n \in Nat /\ j <= n /\ n <= Len(T)
    BY <1>1, <1>2 DEF n
  <2> QED
    BY <2>1, <1>1, SliceIs
<1> HIDE DEF z, R
<1>7. R = <<T[j]>> \o z
  <2>1. CASE P.tail
    <3>1. P.body = z /\ IsRule(T[j])
      BY <2>1, <1>3
    <3>2. Line(Rule, P.eol) = T[j]
      <4>1. Line(Rule, P.eol).body = T[j].body /\ Line(Rule, P.eol).bom = T[j].bom
            /\ Line(Rule, P.eol).cr = T[j].cr
        BY <3>1, <1>3, <1>5 DEF Line, IsRule
      <4>2. Line(Rule, P.eol) \in LineSet
        <5>1. P.eol \in BOOLEAN
          BY <1>3, <1>5 DEF LineSet
        <5> QED
          BY <5>1, RuleIsABody, ALine
      <4> QED
        BY <4>1, <4>2, <1>5, LinesAreEqual
    <3> QED
      BY <2>1, <3>1, <3>2, <1>4
  <2>2. CASE ~P.tail
    <3>1. P.body = <<Undashed(T[j])>> \o z
      BY <2>2, <1>3
    <3>2. Undashed(T[j]) \in LineSet
      BY <1>5, UndashedIs
    <3> DEFINE u == Undashed(T[j])
    <3>3. Dashed(u) = T[j]
      BY <1>5, DashedIs
    <3>4. u \in LineSet
      BY <3>2
    <3> HIDE DEF u
    <3>5. (<<u>> \o z)[1] = u /\ Tail(<<u>> \o z) = z
      BY <3>4, <1>6, Shifted
    <3>6. P.body[1] = u /\ Tail(P.body) = z
      BY <3>1, <3>5 DEF u
    <3> QED
      BY <2>2, <3>3, <3>6, <1>4
  <2> QED
    BY <2>1, <2>2
<1> DEFINE l == T[j]
<1>8. /\ <<l>> \o z \in Seq(LineSet) /\ Len(<<l>> \o z) = Len(z) + 1
      /\ (<<l>> \o z)[1] = l
      /\ \A i \in 1 .. Len(z) : (<<l>> \o z)[i + 1] = z[i]
  <2>1. l \in LineSet
    BY <1>5
  <2> HIDE DEF l
  <2> QED
    BY <2>1, <1>6, Shifted
<1>9. R \in Seq(LineSet) /\ Len(R) = n - j + 1
  BY <1>1, <1>2, <1>6, <1>7, <1>8
<1>10. \A i \in j .. n : R[i - j + 1] = T[i]
  <2> TAKE i \in j .. n
  <2>1. CASE i = j
    <3>1. i - j + 1 = 1
      BY <2>1, <1>2
    <3> QED
      BY <3>1, <2>1, <1>7, <1>8
  <2>2. CASE i # j
    <3>1. i - j \in 1 .. n - j /\ j + (i - j) = i
      BY <2>2, <1>1, <1>2
    <3>2. R[(i - j) + 1] = z[i - j]
      BY <3>1, <1>6, <1>7, <1>8
    <3> QED
      BY <3>1, <3>2, <1>6
  <2> QED
    BY <2>1, <2>2
<1> QED
  BY <1>9, <1>10 DEF R, P, j, n

LEMMA FmJoinIs ==
  ASSUME NEW T \in Notes, HasFm(T), NEW Q, NEW F \in Seq(LineSet), NEW e \in BOOLEAN,
         Q.open = FmParts(T).open, Q.tail = FmParts(T).tail, Q.eol = FmParts(T).eol,
         Q.body = FmParts(T).body, Q.fm = F, Q.eol2 = e
  PROVE  Refitted(T, FmJoin(Q), F, e)
<1> DEFINE n == Len(T)
           j == FmEnd(T)
           R == ClosingLines(FmParts(T))
           G == IF F = <<>> THEN <<NoLine>> ELSE F
           H == SetCr(G, Len(G), e)
           o == <<T[1]>>
           U == o \o H \o R
           m == IF F = <<>> THEN 1 ELSE Len(F)
<1>1. T \in Seq(LineSet) /\ T # <<>> /\ n \in Nat \ {0}
  BY EmptySeq DEF Notes
<1>2. j \in 3 .. n
  BY <1>1, FmEndIs DEF HasFm
<1>3. /\ R \in Seq(LineSet) /\ Len(R) = n - j + 1
      /\ \A i \in j .. n : R[i - j + 1] = T[i]
  BY RestIs
<1>4. FmJoin(Q) = U
  <2>1. R = IF Q.tail THEN <<Line(Rule, Q.eol)>> \o Q.body
            ELSE <<Dashed(Q.body[1])>> \o Tail(Q.body)
    BY DEF ClosingLines
  <2>2. Q.open = T[1]
    BY DEF FmParts
  <2>3. Join(Q.fm) = G
    BY DEF Join
  <2> HIDE DEF R, G
  <2> QED
    BY <2>1, <2>2, <2>3 DEF FmJoin
<1>5. G \in Seq(LineSet) /\ G # <<>> /\ Len(G) = m /\ m \in Nat \ {0}
      /\ (F = <<>> => G[1] = NoLine) /\ (F # <<>> => G = F)
  <2>1. CASE F = <<>>
    <3>1. G = <<NoLine>> /\ m = 1
      BY <2>1
    <3>2. NoLine \in LineSet
      BY BlankIsABody
    <3>3. <<NoLine>> \in Seq(LineSet) /\ <<NoLine>> # <<>> /\ Len(<<NoLine>>) = 1
          /\ <<NoLine>>[1] = NoLine
      BY <3>2
    <3> HIDE DEF G, m
    <3> QED
      BY <2>1, <3>1, <3>3
  <2>2. CASE F # <<>>
    <3>1. G = F /\ m = Len(F)
      BY <2>2
    <3> HIDE DEF G, m
    <3> QED
      BY <2>2, <3>1, EmptySeq
  <2> QED
    BY <2>1, <2>2
<1> HIDE DEF G
<1>6. Recoded(H, G, m, e)
  <2>1. m \in 1 .. Len(G)
    BY <1>5
  <2> HIDE DEF m
  <2>2. Recoded(SetCr(G, m, e), G, m, e)
    BY <2>1, <1>5, SetCrIs
  <2> QED
    BY <2>2, <1>5
<1>7. /\ H \in Seq(LineSet) /\ Len(H) = m
      /\ \A i \in 1 .. m : i # m => H[i] = G[i]
      /\ H[m].body = G[m].body /\ H[m].bom = G[m].bom /\ H[m].cr = e
  BY <1>5, <1>6 DEF Recoded
<1>8. o \in Seq(LineSet) /\ Len(o) = 1 /\ o[1] = T[1]
  <2>1. T[1] \in LineSet
    BY <1>1
  <2> QED
    BY <2>1
<1> HIDE DEF H, R, o
<1>9. IsConcat3(U, o, H, R, LineSet)
  BY <1>3, <1>7, <1>8, Concat3Is
<1>10. m = 1 \/ F # <<>>
  OBVIOUS
<1>13. F # <<>> => Len(F) = m
  OBVIOUS
<1>14. F = <<>> => m = 1 /\ Len(F) = 0
  OBVIOUS
<1> HIDE DEF U, m
<1>11. /\ U \in Seq(LineSet) /\ Len(U) = 1 + m + (n - j + 1)
       /\ U[1] = T[1]
       /\ \A i \in 1 .. m : U[1 + i] = H[i]
       /\ \A i \in 1 .. n - j + 1 : U[1 + m + i] = R[i]
  <2>1. 1 \in 1 .. Len(o)
    BY <1>8
  <2> QED
    BY <2>1, <1>3, <1>7, <1>8, <1>9 DEF IsConcat3
<1>12. \A i \in j .. n : U[2 + m + (i - j)] = T[i]
  <2> TAKE i \in j .. n
  <2>1. /\ i - j + 1 \in 1 .. n - j + 1 /\ 1 + m + (i - j + 1) = 2 + m + (i - j)
    <3>1. n \in Nat /\ j \in Nat /\ j <= n /\ m \in Nat
      BY <1>1, <1>2, <1>5
    <3> HIDE DEF n, j, m
    <3> QED
      BY <3>1
  <2>2. U[1 + m + (i - j + 1)] = R[i - j + 1]
    BY <2>1, <1>11
  <2>3. R[i - j + 1] = T[i]
    BY <1>3
  <2> QED
    BY <2>1, <2>2, <2>3
<1>15. \A i \in 1 .. Len(F) : /\ U[1 + i].body = F[i].body /\ U[1 + i].bom = F[i].bom
                              /\ U[1 + i].cr = IF i = Len(F) THEN e ELSE F[i].cr
  <2> TAKE i \in 1 .. Len(F)
  <2>1. F # <<>>
    OBVIOUS
  <2>2. G = F /\ m = Len(F) /\ U[1 + i] = H[i]
    BY <2>1, <1>5, <1>11, <1>13
  <2> QED
    BY <2>2, <1>7
<1>16. F = <<>> => U[2] = Line(Blank, e)
  <2> SUFFICES ASSUME F = <<>> PROVE U[2] = Line(Blank, e)
    OBVIOUS
  <2>1. m = 1 /\ G[1] = NoLine
    BY <1>5, <1>14
  <2>2. U[2] = H[1]
    <3>1. 1 \in 1 .. m /\ 1 + 1 = 2
      BY <2>1
    <3> QED
      BY <3>1, <1>11
  <2>3. H[1].body = Blank /\ H[1].bom = FALSE /\ H[1].cr = e
    <3>1. NoLine.body = Blank /\ NoLine.bom = FALSE
      BY DEF NoLine, Line
    <3> QED
      BY <3>1, <2>1, <1>7
  <2>4. H[1] \in LineSet /\ Line(Blank, e) \in LineSet
    <3>1. 1 \in 1 .. Len(H)
      BY <2>1, <1>7
    <3>2. H[1] \in LineSet
      BY <3>1, <1>7, TextLines
    <3> QED
      BY <3>2, BlankIsABody, ALine
  <2>5. Line(Blank, e).body = Blank /\ Line(Blank, e).bom = FALSE /\ Line(Blank, e).cr = e
    BY DEF Line
  <2>6. H[1] = Line(Blank, e)
    BY <2>3, <2>4, <2>5, LinesAreEqual
  <2> QED
    BY <2>2, <2>6
<1>17. U # <<>>
  <2>1. Len(U) # 0
    BY <1>1, <1>2, <1>5, <1>11
  <2> QED
    BY <2>1, <1>11, EmptySeq
<1>18. m = IF F = <<>> THEN 1 ELSE Len(F)
  BY DEF m
<1> QED
  BY <1>4, <1>11, <1>12, <1>15, <1>16, <1>17, <1>18 DEF Refitted, Notes, n, j

\* The lines kept are those without the key, in their order.
Kept(K, ls, k, idx) ==
  /\ Lists(idx, {i \in 1 .. Len(ls) : ~HasKey(ls[i], k)})
  /\ K \in Seq(LineSet) /\ Len(K) = Len(idx)
  /\ \A i \in 1 .. Len(K) : K[i] = ls[idx[i]]

LEMMA WithoutIs ==
  ASSUME NEW ls \in Seq(LineSet), NEW k
  PROVE  \E idx : Kept(Without(ls, k), ls, k, idx)
<1> DEFINE n == Len(ls)
           L == Seq(LineSet)
           step == [i \in 1 .. n |->
                     [K \in L |-> IF HasKey(ls[i], k) THEN K ELSE Append(K, ls[i])]]
           kept == CHOOSE kept : kept = [i \in 0 .. Len(ls) |->
             IF i = 0 THEN <<>>
             ELSE IF HasKey(ls[i], k) THEN kept[i - 1] ELSE Append(kept[i - 1], ls[i])]
<1>1. n \in Nat /\ \A i \in 1 .. n : ls[i] \in LineSet
  OBVIOUS
<1>2. Without(ls, k) = kept[n]
  BY DEF Without
<1>3. step \in Steps(0, n, L)
  <2>1. \A i \in 1 .. n : \A K \in L : Append(K, ls[i]) \in L
    BY <1>1
  <2>2. 0 + 1 = 1
    OBVIOUS
  <2> HIDE DEF L, n
  <2>3. step \in [1 .. n -> [L -> L]]
    BY <2>1
  <2> QED
    BY <2>2, <2>3 DEF Steps
<1>4. PICK f : Follows(f, 0, n, L, <<>>, step)
  <2>1. <<>> \in L /\ 0 \in Nat /\ 0 <= n
    BY <1>1
  <2> HIDE DEF L, step, n
  <2> QED
    BY <1>1, <1>3, <2>1, Recursion
<1>5. /\ f \in [0 .. n -> L] /\ f[0] = <<>>
      /\ \A i \in 1 .. n : f[i] = IF HasKey(ls[i], k) THEN f[i - 1]
                                  ELSE Append(f[i - 1], ls[i])
  <2>1. f \in [0 .. n -> L] /\ f[0] = <<>>
        /\ \A i \in 0 + 1 .. n : f[i] = step[i][f[i - 1]]
    BY <1>4 DEF Follows
  <2>2. ASSUME NEW i \in 1 .. n
        PROVE  f[i] = IF HasKey(ls[i], k) THEN f[i - 1] ELSE Append(f[i - 1], ls[i])
    <3>1. i \in 0 + 1 .. n /\ i - 1 \in 0 .. n
      BY <1>1
    <3>2. f[i - 1] \in L
      BY <2>1, <3>1
    <3>3. f[i] = step[i][f[i - 1]]
      BY <2>1, <3>1
    <3> HIDE DEF L
    <3> QED
      BY <3>2, <3>3
  <2> QED
    BY <2>1, <2>2
<1>6. f = [i \in 0 .. n |-> IF i = 0 THEN <<>>
             ELSE IF HasKey(ls[i], k) THEN f[i - 1] ELSE Append(f[i - 1], ls[i])]
  <2> HIDE DEF L
  <2>1. f = [i \in 0 .. n |-> f[i]]
    BY <1>5
  <2>2. \A i \in 0 .. n : f[i] = IF i = 0 THEN <<>>
             ELSE IF HasKey(ls[i], k) THEN f[i - 1] ELSE Append(f[i - 1], ls[i])
    <3> TAKE i \in 0 .. n
    <3>1. i = 0 \/ i \in 1 .. n
      BY <1>1
    <3> QED
      BY <3>1, <1>5
  <2> QED
    BY <2>1, <2>2
<1>7. kept = [i \in 0 .. n |-> IF i = 0 THEN <<>>
             ELSE IF HasKey(ls[i], k) THEN kept[i - 1] ELSE Append(kept[i - 1], ls[i])]
  BY <1>6
<1> HIDE DEF kept
<1> DEFINE S(i) == {x \in 1 .. i : ~HasKey(ls[x], k)}
           G == {i \in 0 .. n : \E idx :
                  /\ Lists(idx, S(i)) /\ kept[i] \in L /\ Len(kept[i]) = Len(idx)
                  /\ \A x \in 1 .. Len(kept[i]) : kept[i][x] = ls[idx[x]]}
<1>8. 0 \in G
  <2>1. kept[0] = <<>> /\ 0 \in 0 .. n
    BY <1>1, <1>7
  <2>2. Lists(<<>>, S(0)) /\ Len(<<>>) = 0 /\ <<>> \in L
    BY DEF Lists
  <2> HIDE DEF S, kept, L
  <2> QED
    BY <2>1, <2>2
<1>9. ASSUME NEW i \in 1 .. n, i - 1 \in G
      PROVE  i \in G
  <2>1. PICK idx : /\ Lists(idx, S(i - 1)) /\ kept[i - 1] \in L
                   /\ Len(kept[i - 1]) = Len(idx)
                   /\ \A x \in 1 .. Len(kept[i - 1]) : kept[i - 1][x] = ls[idx[x]]
    BY <1>9
  <2>2. i \in 0 .. n /\ i # 0
    BY <1>1
  <2>3. kept[i] = IF HasKey(ls[i], k) THEN kept[i - 1] ELSE Append(kept[i - 1], ls[i])
    BY <2>2, <1>7
  <2>4. CASE HasKey(ls[i], k)
    <3>1. S(i) = S(i - 1)
      BY <2>4, <1>1
    <3>2. kept[i] = kept[i - 1]
      BY <2>3, <2>4
    <3> HIDE DEF S, L
    <3> QED
      BY <2>1, <2>2, <3>1, <3>2
  <2>5. CASE ~HasKey(ls[i], k)
    <3>1. S(i) = S(i - 1) \cup {i}
      BY <2>5, <1>1
    <3>2. kept[i] = Append(kept[i - 1], ls[i])
      BY <2>3, <2>5
    <3>3. Lists(Append(idx, i), S(i - 1) \cup {i})
      <4>1. i \in Nat /\ \A x \in S(i - 1) : x < i
        BY <1>1
      <4> HIDE DEF S
      <4> QED
        BY <2>1, <4>1, ListsMore
    <3>4. idx \in Seq(Nat) /\ i \in Nat
      BY <2>1 DEF Lists
    <3> DEFINE jdx == Append(idx, i)
               K == kept[i - 1]
    <3>5. /\ Len(jdx) = Len(idx) + 1 /\ jdx[Len(idx) + 1] = i
          /\ \A x \in 1 .. Len(idx) : jdx[x] = idx[x]
      BY <3>4, AppendProperties
    <3>6. /\ Append(K, ls[i]) \in L /\ Len(Append(K, ls[i])) = Len(K) + 1
          /\ Append(K, ls[i])[Len(K) + 1] = ls[i]
          /\ \A x \in 1 .. Len(K) : Append(K, ls[i])[x] = K[x]
      BY <1>1, <2>1, AppendProperties
    <3>7. Len(K) = Len(idx) /\ Len(idx) \in Nat
      BY <2>1, <3>4
    <3> HIDE DEF jdx, S, L
    <3>8. \A x \in 1 .. Len(kept[i]) : kept[i][x] = ls[jdx[x]]
      <4> TAKE x \in 1 .. Len(kept[i])
      <4>1. Len(kept[i]) = Len(K) + 1
        BY <3>2, <3>6
      <4>2. CASE x = Len(K) + 1
        BY <4>2, <3>2, <3>5, <3>6, <3>7
      <4>3. CASE x # Len(K) + 1
        <5>1. x \in 1 .. Len(K)
          BY <4>1, <4>3, <3>7
        <5> QED
          BY <5>1, <2>1, <3>2, <3>5, <3>6, <3>7
      <4> QED
        BY <4>2, <4>3
    <3>9. Lists(jdx, S(i))
      BY <3>1, <3>3 DEF jdx
    <3>10. kept[i] \in L /\ Len(kept[i]) = Len(jdx)
      BY <3>2, <3>5, <3>6, <3>7
    <3> QED
      BY <2>2, <3>8, <3>9, <3>10
  <2> QED
    BY <2>4, <2>5
<1>10. n \in G
  <2> HIDE DEF G
  <2>3. 0 + 1 = 1
    OBVIOUS
  <2>1. \A i \in 0 + 1 .. n : i - 1 \in G => i \in G
    BY <1>9, <2>3
  <2>2. \A i \in 0 .. n : i \in G
    BY <1>1, <1>8, <2>1, StepByStep
  <2> QED
    BY <2>2, <1>1
<1> QED
  BY <1>2, <1>10 DEF Kept

\* The lines of the frontmatter of T, as _fm_parts gives them.
FmLines(T, fm, j) ==
  /\ fm \in Seq(LineSet) /\ Len(fm) = j - 2 /\ fm # <<>>
  /\ \A i \in 1 .. j - 2 : /\ fm[i].body = T[i + 1].body /\ fm[i].bom = T[i + 1].bom
                           /\ \A k : HasKey(fm[i], k) <=> HasKey(T[i + 1], k)
                           /\ i # j - 2 => fm[i] = T[i + 1]
  /\ fm[j - 2].cr = FALSE

LEMMA FmPartsAre ==
  ASSUME NEW T \in Notes, HasFm(T)
  PROVE  /\ FmLines(T, FmParts(T).fm, FmEnd(T))
         /\ FmParts(T).eol2 = T[FmEnd(T) - 1].cr /\ FmParts(T).eol2 \in BOOLEAN
         /\ FmEnd(T) \in 3 .. Len(T)
<1> DEFINE n == Len(T)
           j == FmEnd(T)
           fm == FmParts(T).fm
           x == SubSeq(T, 2, j - 1)
<1>1. T \in Seq(LineSet) /\ T # <<>> /\ n \in Nat \ {0}
  BY EmptySeq DEF Notes
<1>2. j \in 3 .. n
  BY <1>1, FmEndIs DEF HasFm
<1>3. fm = SetCr(x, j - 2, FALSE) /\ FmParts(T).eol2 = T[j - 1].cr
  BY DEF FmParts
<1>4. x \in Seq(LineSet) /\ Len(x) = j - 2 /\ \A i \in 1 .. j - 2 : x[i] = T[1 + i]
  <2>1. /\ 1 \in Nat /\ j - 1 \in Nat /\ 1 <= j - 1 /\ j - 1 <= Len(T) /\ (j - 1) - 1 = j - 2
        /\ 1 + 1 = 2
    BY <1>1, <1>2
  <2> DEFINE b == j - 1
             a == 1
  <2>2. a \in Nat /\ b \in Nat /\ a <= b /\ b <= Len(T)
    BY <2>1
  <2>5. SubSeq(T, a + 1, b) = x /\ b - a = j - 2
    BY <2>1
  <2> HIDE DEF a, b
  <2>3. /\ SubSeq(T, a + 1, b) \in Seq(LineSet)
        /\ Len(SubSeq(T, a + 1, b)) = b - a
        /\ \A i \in 1 .. b - a : SubSeq(T, a + 1, b)[i] = T[a + i]
    BY <1>1, <2>2, SliceIs
  <2> HIDE DEF x
  <2>4. a = 1
    BY DEF a
  <2> QED
    BY <2>3, <2>4, <2>5
<1> HIDE DEF x, fm
<1>5. PICK c \in BOOLEAN : c = FALSE
  OBVIOUS
<1>6. Recoded(fm, x, j - 2, c)
  <2>1. j - 2 \in 1 .. Len(x)
    BY <1>1, <1>2, <1>4
  <2>2. Recoded(SetCr(x, j - 2, c), x, j - 2, c)
    BY <2>1, <1>4, SetCrIs
  <2> QED
    BY <2>2, <1>3, <1>5
<1>7. /\ fm \in Seq(LineSet) /\ Len(fm) = j - 2
      /\ \A i \in 1 .. j - 2 : i # j - 2 => fm[i] = x[i]
      /\ fm[j - 2].body = x[j - 2].body /\ fm[j - 2].bom = x[j - 2].bom /\ fm[j - 2].cr = FALSE
  BY <1>4, <1>5, <1>6 DEF Recoded
<1>8. ASSUME NEW i \in 1 .. j - 2
      PROVE  /\ fm[i].body = T[i + 1].body /\ fm[i].bom = T[i + 1].bom
             /\ i # j - 2 => fm[i] = T[i + 1]
  <2>1. x[i] = T[1 + i] /\ 1 + i = i + 1
    BY <1>4
  <2>2. x[i] = T[i + 1]
    BY <2>1
  <2>3. i = j - 2 \/ fm[i] = x[i]
    BY <1>7
  <2> QED
    BY <2>2, <2>3, <1>7
<1>9. \A i \in 1 .. j - 2 : \A k : HasKey(fm[i], k) <=> HasKey(T[i + 1], k)
  BY <1>8 DEF HasKey, IsKind
<1>10. T[j - 1].cr \in BOOLEAN
  <2>1. j - 1 \in 1 .. Len(T)
    BY <1>1, <1>2
  <2> QED
    BY <2>1, <1>1, TextLines
<1>11. fm # <<>>
  <2>1. Len(fm) # 0
    BY <1>2, <1>7, <1>1
  <2> QED
    BY <2>1, EmptySeq
<1>12. FmLines(T, fm, j)
  BY <1>7, <1>8, <1>9, <1>11 DEF FmLines
<1> QED
  BY <1>2, <1>3, <1>10, <1>12 DEF fm

LEMMA PropIsABody ==
  ASSUME NEW k \in STRING, NEW v \in Seq(Signs)
  PROVE  Prop(k, v) \in Bodies /\ Prop(k, v).kind = "prop" /\ Prop(k, v).key = k
         /\ Prop(k, v).val = v
BY DEF Prop, Bodies

LEMMA FirstWithIs ==
  ASSUME NEW ls \in Seq(LineSet), NEW k
  PROVE  LET i == FirstWith(ls, k) IN
         /\ i \in Nat
         /\ i <= Len(ls) => /\ i \in 1 .. Len(ls) /\ HasKey(ls[i], k)
                            /\ \A x \in 1 .. i - 1 : ~HasKey(ls[x], k)
         /\ ~(i <= Len(ls)) => \A x \in 1 .. Len(ls) : ~HasKey(ls[x], k)
<1> DEFINE S == {i \in DOMAIN ls : HasKey(ls[i], k)} \cup {Len(ls) + 1}
           m == Min(S)
<1>1. Len(ls) \in Nat /\ DOMAIN ls = 1 .. Len(ls)
  BY SeqIsFunction
<1>2. S \in SUBSET Nat /\ S # {}
  BY <1>1
<1>3. m \in S /\ \A x \in S : m <= x
  <2> HIDE DEF S
  <2> QED
    BY <1>2, MinIs
<1>4. FirstWith(ls, k) = m
  BY DEF FirstWith
<1> HIDE DEF m
<1>5. m \in Nat /\ m <= Len(ls) + 1
  BY <1>1, <1>2, <1>3
<1>6. m <= Len(ls) => m \in 1 .. Len(ls) /\ HasKey(ls[m], k)
  BY <1>1, <1>3
<1>7. \A x \in 1 .. Len(ls) : HasKey(ls[x], k) => m <= x
  BY <1>1, <1>3
<1>8. m <= Len(ls) => \A x \in 1 .. m - 1 : ~HasKey(ls[x], k)
  BY <1>1, <1>5, <1>7
<1>9. ~(m <= Len(ls)) => \A x \in 1 .. Len(ls) : ~HasKey(ls[x], k)
  BY <1>1, <1>5, <1>7
<1> QED
  BY <1>4, <1>5, <1>6, <1>8, <1>9

\* U is T with another property on line x.
SetLine(T, U, x, c) ==
  /\ U \in Notes /\ Len(U) = Len(T)
  /\ \A i \in 1 .. Len(T) : i # x => U[i] = T[i]
  /\ U[x].body = c /\ U[x].bom = T[x].bom /\ U[x].cr = T[x].cr

\* U is T with one line more, at j.
NewLine(T, U, j, l) ==
  /\ U \in Notes /\ Len(U) = Len(T) + 1
  /\ \A i \in 1 .. j - 1 : U[i] = T[i]
  /\ U[j] = l
  /\ \A i \in j .. Len(T) : U[i + 1] = T[i]

LEMMA WithKeyIs ==
  ASSUME NEW T \in Notes, HasFm(T), NEW k \in STRING, NEW v \in Seq(Signs)
  PROVE  NewLine(T, WithKey(T, k, v), FmEnd(T), Line(Prop(k, v), T[FmEnd(T) - 1].cr))
<1> DEFINE n == Len(T)
           j == FmEnd(T)
           P == FmParts(T)
           fm == P.fm
           e == P.eol2
           c == Line(Prop(k, v), FALSE)
           G == SetCr(fm, Len(fm), e)
           F == Append(G, c)
           Q == [P EXCEPT !.fm = F]
           U == FmJoin(Q)
<1>1. T \in Seq(LineSet) /\ T # <<>> /\ n \in Nat \ {0}
  BY EmptySeq DEF Notes
<1>2. /\ FmLines(T, fm, j) /\ e = T[j - 1].cr /\ e \in BOOLEAN /\ j \in 3 .. n
  BY FmPartsAre
<1>3. WithKey(T, k, v) = U
  BY DEF WithKey
<1>4. Q.open = P.open /\ Q.tail = P.tail /\ Q.eol = P.eol /\ Q.body = P.body
      /\ Q.fm = F /\ Q.eol2 = e
  BY DEF FmParts
<1>5. c \in LineSet /\ c.body = Prop(k, v) /\ c.bom = FALSE
  <2>1. PICK f \in BOOLEAN : f = FALSE
    OBVIOUS
  <2>2. Line(Prop(k, v), f) \in LineSet /\ Line(Prop(k, v), f).body = Prop(k, v)
        /\ Line(Prop(k, v), f).bom = FALSE
    BY PropIsABody, ALine
  <2> QED
    BY <2>1, <2>2
<1> HIDE DEF c
<1>6. /\ G \in Seq(LineSet) /\ Len(G) = j - 2
      /\ \A i \in 1 .. j - 2 : G[i] = T[i + 1]
  <2> HIDE DEF fm, e, j
  <2>1. fm \in Seq(LineSet) /\ Len(fm) = j - 2 /\ j - 2 \in 1 .. Len(fm)
    BY <1>2, <1>1 DEF FmLines
  <2>2. Recoded(SetCr(fm, j - 2, e), fm, j - 2, e)
    BY <2>1, <1>2, SetCrIs
  <2>3. /\ G \in Seq(LineSet) /\ Len(G) = j - 2
        /\ \A i \in 1 .. j - 2 : i # j - 2 => G[i] = fm[i]
        /\ G[j - 2].body = fm[j - 2].body /\ G[j - 2].bom = fm[j - 2].bom
        /\ G[j - 2].cr = e
    BY <2>1, <2>2 DEF Recoded
  <2> HIDE DEF G
  <2>4. \A i \in 1 .. j - 2 : G[i] = T[i + 1]
    <3> TAKE i \in 1 .. j - 2
    <3>1. /\ fm[i].body = T[i + 1].body /\ fm[i].bom = T[i + 1].bom
          /\ i # j - 2 => fm[i] = T[i + 1]
      BY <1>2 DEF FmLines
    <3>2. CASE i # j - 2
      BY <3>1, <3>2, <2>3
    <3>3. CASE i = j - 2
      <4>1. i + 1 = j - 1
        BY <3>3, <1>2
      <4>2. G[i].body = T[i + 1].body /\ G[i].bom = T[i + 1].bom /\ G[i].cr = T[i + 1].cr
        BY <4>1, <3>1, <3>3, <2>3, <1>2
      <4>3. i \in 1 .. Len(G) /\ i + 1 \in 1 .. Len(T)
        BY <4>1, <3>3, <2>1, <2>3, <1>1, <1>2
      <4>4. G[i] \in LineSet /\ T[i + 1] \in LineSet
        BY <4>3, <2>3, <1>1, TextLines
      <4> QED
        BY <4>2, <4>4, LinesAreEqual
    <3> QED
      BY <3>2, <3>3
  <2> QED
    BY <2>3, <2>4
<1> HIDE DEF G
<1>7. /\ F \in Seq(LineSet) /\ Len(F) = j - 1 /\ F[j - 1] = c
      /\ \A i \in 1 .. j - 2 : F[i] = T[i + 1]
      /\ F # <<>>
  <2>1. /\ F \in Seq(LineSet) /\ Len(F) = Len(G) + 1 /\ F[Len(G) + 1] = c /\ F # <<>>
        /\ \A i \in 1 .. Len(G) : F[i] = G[i]
    BY <1>5, <1>6, AppendProperties
  <2>2. Len(G) + 1 = j - 1
    BY <1>2, <1>6
  <2> QED
    BY <2>1, <2>2, <1>6
<1> HIDE DEF F, e, Q
<1>8. Refitted(T, U, F, e)
  BY <1>2, <1>4, <1>7, FmJoinIs
<1> HIDE DEF U, j, n
<1>9. /\ U \in Notes /\ Len(U) = 1 + Len(F) + (n - j + 1)
      /\ U[1] = T[1]
      /\ \A i \in 1 .. Len(F) : /\ U[1 + i].body = F[i].body /\ U[1 + i].bom = F[i].bom
                                /\ U[1 + i].cr = IF i = Len(F) THEN e ELSE F[i].cr
      /\ \A i \in j .. n : U[2 + Len(F) + (i - j)] = T[i]
  BY <1>7, <1>8 DEF Refitted, j, n
<1>10. U \in Seq(LineSet) /\ Len(U) = n + 1
  BY <1>1, <1>2, <1>7, <1>9 DEF Notes
<1>11. \A i \in 1 .. j - 1 : U[i] = T[i]
  <2> TAKE i \in 1 .. j - 1
  <2>1. CASE i = 1
    BY <2>1, <1>9
  <2>2. CASE i # 1
    <3> DEFINE x == i - 1
    <3>1. x \in 1 .. j - 2 /\ x \in 1 .. Len(F) /\ x # Len(F) /\ 1 + x = i /\ x + 1 = i
      BY <2>2, <1>2, <1>7
    <3> HIDE DEF x
    <3>2. F[x] = T[i]
      BY <3>1, <1>7
    <3>3. U[i].body = T[i].body /\ U[i].bom = T[i].bom /\ U[i].cr = T[i].cr
      BY <3>1, <3>2, <1>9
    <3>4. i \in 1 .. Len(U) /\ i \in 1 .. Len(T)
      BY <1>2, <1>10, <1>1 DEF n
    <3>5. U[i] \in LineSet /\ T[i] \in LineSet
      BY <3>4, <1>1, <1>10, TextLines
    <3> QED
      BY <3>3, <3>5, LinesAreEqual
  <2> QED
    BY <2>1, <2>2
<1>12. U[j] = Line(Prop(k, v), e)
  <2>1. j - 1 \in 1 .. Len(F) /\ 1 + (j - 1) = j /\ j - 1 = Len(F)
    BY <1>2, <1>7
  <2>2. U[j].body = Prop(k, v) /\ U[j].bom = FALSE /\ U[j].cr = e
    BY <2>1, <1>5, <1>7, <1>9
  <2>3. j \in 1 .. Len(U)
    BY <1>2, <1>10, <1>1
  <2>4. U[j] \in LineSet
    BY <2>3, <1>10, TextLines
  <2>5. /\ Line(Prop(k, v), e) \in LineSet /\ Line(Prop(k, v), e).body = Prop(k, v)
        /\ Line(Prop(k, v), e).bom = FALSE /\ Line(Prop(k, v), e).cr = e
    <3>1. Prop(k, v) \in Bodies
      BY PropIsABody
    <3>2. e \in BOOLEAN
      BY <1>2
    <3> QED
      BY <3>1, <3>2, ALine
  <2> QED
    BY <2>2, <2>4, <2>5, LinesAreEqual
<1>13. \A i \in j .. n : U[i + 1] = T[i]
  <2> TAKE i \in j .. n
  <2>1. 2 + Len(F) + (i - j) = i + 1
    BY <1>2, <1>7
  <2> QED
    BY <2>1, <1>9
<1>14. NewLine(T, U, j, Line(Prop(k, v), e))
  BY <1>9, <1>10, <1>11, <1>12, <1>13 DEF NewLine, n
<1> QED
  BY <1>2, <1>3, <1>14 DEF j

\* The lines of the key k in the frontmatter of T.
KeyLines(T, k) == {i \in 2 .. FmEnd(T) - 1 : HasKey(T[i], k)}

LEMMA AssignedIs ==
  ASSUME NEW T \in Notes, HasFm(T), NEW k \in STRING, NEW v \in Seq(Signs)
  PROVE  LET U == Assigned(T, k, v)
             j == FmEnd(T) IN
         \/ \E x \in KeyLines(T, k) :
              /\ \A y \in KeyLines(T, k) : x <= y
              /\ SetLine(T, U, x, Prop(k, v))
         \/ KeyLines(T, k) = {} /\ NewLine(T, U, j, Line(Prop(k, v), T[j - 1].cr))
<1> DEFINE n == Len(T)
           j == FmEnd(T)
           P == FmParts(T)
           fm == P.fm
           e == P.eol2
           c == Prop(k, v)
           i == FirstWith(fm, k)
           F == [fm EXCEPT ![i].body = c]
           Q == [P EXCEPT !.fm[i].body = c]
           U == FmJoin(Q)
<1>1. T \in Seq(LineSet) /\ T # <<>> /\ n \in Nat \ {0}
  BY EmptySeq DEF Notes
<1>2. /\ FmLines(T, fm, j) /\ e = T[j - 1].cr /\ e \in BOOLEAN /\ j \in 3 .. n
  BY FmPartsAre
<1>3. /\ fm \in Seq(LineSet) /\ Len(fm) = j - 2 /\ fm # <<>>
      /\ \A x \in 1 .. j - 2 : /\ fm[x].body = T[x + 1].body /\ fm[x].bom = T[x + 1].bom
                               /\ HasKey(fm[x], k) <=> HasKey(T[x + 1], k)
                               /\ x # j - 2 => fm[x] = T[x + 1]
  BY <1>2 DEF FmLines
<1>4. Assigned(T, k, v) = IF i <= Len(fm) THEN U ELSE WithKey(T, k, v)
  BY DEF Assigned
<1>5. Q.open = P.open /\ Q.tail = P.tail /\ Q.eol = P.eol /\ Q.body = P.body
      /\ Q.fm = F /\ Q.eol2 = e
  BY DEF FmParts
<1>6. /\ i \in Nat
      /\ i <= Len(fm) => /\ i \in 1 .. Len(fm) /\ HasKey(fm[i], k)
                         /\ \A x \in 1 .. i - 1 : ~HasKey(fm[x], k)
      /\ ~(i <= Len(fm)) => \A x \in 1 .. Len(fm) : ~HasKey(fm[x], k)
  <2> HIDE DEF fm
  <2> QED
    BY <1>3, FirstWithIs
<1> HIDE DEF i, j, n, fm, e
<1>7. \A y \in KeyLines(T, k) : y - 1 \in 1 .. j - 2 /\ HasKey(fm[y - 1], k) /\ y \in Nat
  <2> TAKE y \in KeyLines(T, k)
  <2>1. y \in 2 .. j - 1 /\ HasKey(T[y], k)
    BY DEF KeyLines, j
  <2>2. y - 1 \in 1 .. j - 2 /\ (y - 1) + 1 = y /\ y \in Nat
    BY <2>1, <1>2
  <2>3. HasKey(fm[y - 1], k) <=> HasKey(T[(y - 1) + 1], k)
    BY <2>2, <1>3
  <2> QED
    BY <2>1, <2>2, <2>3
<1>8. CASE ~(i <= Len(fm))
  <2>1. KeyLines(T, k) = {}
    BY <1>3, <1>6, <1>7, <1>8
  <2>2. Assigned(T, k, v) = WithKey(T, k, v)
    BY <1>4, <1>8
  <2>3. NewLine(T, WithKey(T, k, v), FmEnd(T), Line(Prop(k, v), T[FmEnd(T) - 1].cr))
    BY WithKeyIs
  <2> QED
    BY <2>1, <2>2, <2>3
<1>9. CASE i <= Len(fm)
  <2>1. i \in 1 .. j - 2 /\ HasKey(fm[i], k) /\ \A x \in 1 .. i - 1 : ~HasKey(fm[x], k)
    BY <1>3, <1>6, <1>9
  <2> DEFINE x == i + 1
             l == [fm[i] EXCEPT !.body = c]
  <2>2. x \in KeyLines(T, k)
    <3>1. x \in 2 .. j - 1 /\ HasKey(T[i + 1], k)
      BY <2>1, <1>2, <1>3
    <3> QED
      BY <3>1 DEF KeyLines, j
  <2>3. \A y \in KeyLines(T, k) : x <= y
    <3> TAKE y \in KeyLines(T, k)
    <3>1. y - 1 \in 1 .. j - 2 /\ HasKey(fm[y - 1], k) /\ y \in Nat
      BY <1>7
    <3>2. ~(y - 1 \in 1 .. i - 1)
      BY <3>1, <2>1
    <3> QED
      BY <3>1, <3>2, <2>1, <1>2
  <2>4. i \in 1 .. Len(fm) /\ fm[i] \in LineSet
    BY <2>1, <1>3
  <2>5. l \in LineSet /\ l.body = c /\ l.bom = fm[i].bom /\ l.cr = fm[i].cr
    <3>1. c \in Bodies
      BY PropIsABody
    <3> HIDE DEF c
    <3> QED
      BY <3>1, <2>4 DEF LineSet
  <2> HIDE DEF l
  <2>6. F = [fm EXCEPT ![i] = l]
    BY DEF l
  <2> HIDE DEF F, c
  <2>7. /\ F \in Seq(LineSet) /\ Len(F) = j - 2 /\ F[i] = l
        /\ \A y \in 1 .. j - 2 : y # i => F[y] = fm[y]
    BY <1>3, <2>4, <2>5, <2>6, ExceptSeq
  <2>8. Refitted(T, U, F, e)
    <3>1. e \in BOOLEAN /\ Q.open = FmParts(T).open /\ Q.tail = FmParts(T).tail
          /\ Q.eol = FmParts(T).eol
          /\ Q.body = FmParts(T).body /\ Q.fm = F /\ Q.eol2 = e /\ F \in Seq(LineSet)
      BY <1>2, <1>5, <2>7
    <3> HIDE DEF Q, P
    <3> QED
      BY <3>1, FmJoinIs
  <2> HIDE DEF U, Q
  <2>9. F # <<>>
    <3>1. Len(F) # 0
      BY <2>7, <1>2
    <3> QED
      BY <3>1, EmptySeq
  <2>10. /\ U \in Notes /\ Len(U) = 1 + Len(F) + (n - j + 1)
         /\ U[1] = T[1]
         /\ \A y \in 1 .. Len(F) : /\ U[1 + y].body = F[y].body /\ U[1 + y].bom = F[y].bom
                                   /\ U[1 + y].cr = IF y = Len(F) THEN e ELSE F[y].cr
         /\ \A y \in j .. n : U[2 + Len(F) + (y - j)] = T[y]
    BY <2>8, <2>9 DEF Refitted, j, n
  <2>11. U \in Seq(LineSet) /\ Len(U) = n
    BY <2>10, <2>7, <1>1, <1>2 DEF Notes
  <2>12. \A y \in 1 .. j - 2 : U[1 + y].cr = T[1 + y].cr /\ U[1 + y].bom = T[1 + y].bom
    <3> TAKE y \in 1 .. j - 2
    <3>1. F[y].bom = fm[y].bom /\ F[y].cr = fm[y].cr
      BY <2>5, <2>7
    <3>2. fm[y].bom = T[y + 1].bom /\ y + 1 = 1 + y
      BY <1>3
    <3>3. CASE y = j - 2
      <4>1. U[1 + y].cr = e /\ e = T[1 + y].cr
        <5>1. 1 + y = j - 1
          BY <3>3, <1>2
        <5> QED
          BY <5>1, <3>3, <2>7, <2>10, <1>2
      <4> QED
        BY <4>1, <3>1, <3>2, <2>7, <2>10
    <3>4. CASE y # j - 2
      <4>1. fm[y] = T[1 + y]
        BY <3>2, <3>4, <1>3
      <4> QED
        BY <4>1, <3>1, <3>4, <2>7, <2>10
    <3> QED
      BY <3>3, <3>4
  <2>13. \A y \in 1 .. n : y # x => U[y] = T[y]
    <3> SUFFICES ASSUME NEW y \in 1 .. n, y # x PROVE U[y] = T[y]
      OBVIOUS
    <3>1. CASE y = 1
      BY <3>1, <2>10
    <3>2. CASE y \in 2 .. j - 1
      <4> DEFINE z == y - 1
      <4>1. z \in 1 .. j - 2 /\ 1 + z = y /\ z + 1 = y /\ z # i
        BY <3>2, <1>2, <2>1
      <4> HIDE DEF z
      <4>2. F[z] = fm[z] /\ fm[z].body = T[y].body
        BY <4>1, <2>7, <1>3
      <4>3. U[y].body = T[y].body /\ U[y].bom = T[y].bom /\ U[y].cr = T[y].cr
        BY <4>1, <4>2, <2>7, <2>10, <2>12
      <4>4. y \in 1 .. Len(U) /\ y \in 1 .. Len(T)
        BY <2>11 DEF n
      <4>5. U[y] \in LineSet /\ T[y] \in LineSet
        BY <4>4, <1>1, <2>11, TextLines
      <4> QED
        BY <4>3, <4>5, LinesAreEqual
    <3>3. CASE y \in j .. n
      <4>1. 2 + Len(F) + (y - j) = y
        BY <3>3, <2>7, <1>2, <1>1
      <4> QED
        BY <4>1, <3>3, <2>10
    <3>4. y = 1 \/ y \in 2 .. j - 1 \/ y \in j .. n
      BY <1>1, <1>2
    <3> QED
      BY <3>1, <3>2, <3>3, <3>4
  <2>14. U[x].body = c /\ U[x].bom = T[x].bom /\ U[x].cr = T[x].cr
    <3>1. x = 1 + i
      BY <2>1
    <3>2. U[1 + i].body = c
      BY <2>1, <2>5, <2>7, <2>10
    <3> QED
      BY <3>1, <3>2, <2>1, <2>12
  <2>15. SetLine(T, U, x, c)
    BY <2>10, <2>11, <2>13, <2>14 DEF SetLine, n
  <2>16. Assigned(T, k, v) = U
    BY <1>4, <1>9
  <2> QED
    BY <2>2, <2>3, <2>15, <2>16 DEF c
<1> QED
  BY <1>8, <1>9

\* U is T without the lines of the key k: idx lists those that stay.  A
\* frontmatter of which none stays has an empty line.
Cleared(T, U, k, idx) ==
  LET j == FmEnd(T)
      m == IF Len(idx) = 0 THEN 1 ELSE Len(idx) IN
  /\ Lists(idx, {i \in 1 .. j - 2 : ~HasKey(T[i + 1], k)})
  /\ U \in Notes /\ Len(U) = 1 + m + (Len(T) - j + 1)
  /\ U[1] = T[1]
  /\ Len(idx) = 0 => U[2] = Line(Blank, T[j - 1].cr)
  /\ \A i \in 1 .. Len(idx) : U[1 + i] = T[1 + idx[i]]
  /\ \A i \in j .. Len(T) : U[2 + m + (i - j)] = T[i]

LEMMA UnassignedIs ==
  ASSUME NEW T \in Notes, HasFm(T), NEW k
  PROVE  \E idx : Cleared(T, Unassigned(T, k), k, idx)
<1> DEFINE n == Len(T)
           j == FmEnd(T)
           P == FmParts(T)
           fm == P.fm
           K == Without(fm, k)
           C == K # <<>> /\ HasKey(Last(fm), k)
           F == IF C THEN SetCr(K, Len(K), FALSE) ELSE K
           e == IF C THEN Last(K).cr ELSE P.eol2
           Q == IF C THEN [P EXCEPT !.fm = SetCr(K, Len(K), FALSE), !.eol2 = Last(K).cr]
                ELSE [P EXCEPT !.fm = K]
           U == FmJoin(Q)
<1>1. T \in Seq(LineSet) /\ T # <<>> /\ n \in Nat \ {0}
  BY EmptySeq DEF Notes
<1>2. /\ FmLines(T, fm, j) /\ P.eol2 = T[j - 1].cr /\ P.eol2 \in BOOLEAN /\ j \in 3 .. n
  BY FmPartsAre
<1>3. /\ fm \in Seq(LineSet) /\ Len(fm) = j - 2 /\ fm # <<>>
      /\ \A x \in 1 .. j - 2 : /\ fm[x].body = T[x + 1].body /\ fm[x].bom = T[x + 1].bom
                               /\ HasKey(fm[x], k) <=> HasKey(T[x + 1], k)
                               /\ x # j - 2 => fm[x] = T[x + 1]
  BY <1>2 DEF FmLines
<1>4. Unassigned(T, k) = U
  BY DEF Unassigned
<1>5. Q.open = P.open /\ Q.tail = P.tail /\ Q.eol = P.eol /\ Q.body = P.body
      /\ Q.fm = F /\ Q.eol2 = e
  BY DEF FmParts
<1>6. PICK idx : Kept(K, fm, k, idx)
  <2> HIDE DEF fm
  <2> QED
    BY <1>3, WithoutIs
<1>17. Last(fm) = fm[j - 2]
  BY <1>3, LastAndFront
<1>18. C <=> (K # <<>> /\ HasKey(fm[j - 2], k))
  BY <1>17
<1>19. /\ F = IF C THEN SetCr(K, Len(K), FALSE) ELSE K
       /\ e = IF C THEN Last(K).cr ELSE P.eol2
  OBVIOUS
<1> HIDE DEF K, fm, F, e, Q, C
<1> DEFINE S == {i \in 1 .. Len(fm) : ~HasKey(fm[i], k)}
           S2 == {i \in 1 .. j - 2 : ~HasKey(T[i + 1], k)}
<1>7. S = S2
  BY <1>3
<1>8. /\ Lists(idx, S) /\ K \in Seq(LineSet) /\ Len(K) = Len(idx)
      /\ \A i \in 1 .. Len(K) : K[i] = fm[idx[i]]
  BY <1>6 DEF Kept
<1>9. /\ idx \in Seq(Nat) /\ Len(idx) \in Nat
      /\ \A a, b \in 1 .. Len(idx) : a < b => idx[a] < idx[b]
      /\ \A x : x \in S <=> \E i \in 1 .. Len(idx) : idx[i] = x
  <2> HIDE DEF S
  <2>1. /\ idx \in Seq(Nat)
        /\ \A a, b \in 1 .. Len(idx) : a < b => idx[a] < idx[b]
        /\ \A x : x \in S <=> \E i \in 1 .. Len(idx) : idx[i] = x
    BY <1>8 DEF Lists
  <2>2. Len(idx) \in Nat
    BY <2>1, SeqIsFunction
  <2> QED
    BY <2>1, <2>2
<1>10. \A i \in 1 .. Len(idx) : idx[i] \in S2 /\ idx[i] \in 1 .. j - 2
  <2>1. \A i \in 1 .. Len(idx) : idx[i] \in S2
    BY <1>7, <1>9
  <2> QED
    BY <2>1
<1> HIDE DEF j, n, P
<1>11. \A i \in 1 .. Len(idx) : i # Len(idx) => idx[i] # j - 2
  <2> SUFFICES ASSUME NEW i \in 1 .. Len(idx), i # Len(idx), idx[i] = j - 2 PROVE FALSE
    OBVIOUS
  <2>1. Len(idx) \in 1 .. Len(idx) /\ i < Len(idx)
    BY <1>9
  <2>2. idx[i] < idx[Len(idx)] /\ idx[Len(idx)] \in 1 .. j - 2
    BY <2>1, <1>9, <1>10
  <2> QED
    BY <2>2, <1>2
<1>12. /\ F \in Seq(LineSet) /\ e \in BOOLEAN /\ Len(F) = Len(idx)
       /\ \A i \in 1 .. Len(idx) : /\ F[i].body = K[i].body /\ F[i].bom = K[i].bom
                                   /\ i # Len(idx) => F[i].cr = K[i].cr
       /\ Len(idx) > 0 => e = T[1 + idx[Len(idx)]].cr
       /\ Len(idx) = 0 => e = T[j - 1].cr
  <2>1. CASE C
    <3>1. K # <<>> /\ HasKey(fm[j - 2], k)
      BY <2>1, <1>18
    <3>2. Len(K) \in 1 .. Len(K) /\ Len(idx) > 0 /\ Last(K) = K[Len(K)]
      <4>1. K \in Seq(LineSet) /\ Len(K) = Len(idx)
        BY <1>8
      <4>2. Len(K) \in Nat \ {0} /\ Last(K) = K[Len(K)]
        BY <3>1, <4>1, LastAndFront
      <4>3. Len(K) > 0
        BY <4>2
      <4> QED
        BY <4>1, <4>2, <4>3
    <3>0. PICK c \in BOOLEAN : c = FALSE
      OBVIOUS
    <3>3. Recoded(SetCr(K, Len(K), c), K, Len(K), c)
      BY <3>2, <1>8, SetCrIs
    <3>4. F = SetCr(K, Len(K), c) /\ e = Last(K).cr
      BY <2>1, <3>0, <1>19
    <3>5. /\ F \in Seq(LineSet) /\ Len(F) = Len(idx)
          /\ \A i \in 1 .. Len(idx) : i # Len(idx) => F[i] = K[i]
          /\ F[Len(idx)].body = K[Len(idx)].body /\ F[Len(idx)].bom = K[Len(idx)].bom
      BY <3>3, <3>4, <1>8 DEF Recoded
    <3>6. e = T[1 + idx[Len(idx)]].cr /\ e \in BOOLEAN
      <4> DEFINE q == idx[Len(idx)]
      <4>1. q \in S2 /\ q \in 1 .. j - 2 /\ Len(idx) \in 1 .. Len(idx)
        BY <3>2, <1>8, <1>10
      <4>2. q # j - 2
        <5>1. ~HasKey(fm[q], k)
          BY <4>1, <1>3
        <5> QED
          BY <5>1, <3>1
      <4> HIDE DEF q
      <4>3. fm[q] = T[q + 1] /\ q + 1 = 1 + q
        BY <4>1, <4>2, <1>3
      <4>4. K[Len(idx)] = fm[q]
        BY <4>1, <1>8 DEF q
      <4>5. e = T[1 + q].cr
        BY <4>3, <4>4, <3>2, <3>4, <1>8
      <4>6. 1 + q \in 1 .. Len(T)
        BY <4>1, <1>1, <1>2 DEF n
      <4>7. T[1 + q].cr \in BOOLEAN
        BY <4>6, <1>1, TextLines
      <4> QED
        BY <4>5, <4>7 DEF q
    <3>7. \A i \in 1 .. Len(idx) : /\ F[i].body = K[i].body /\ F[i].bom = K[i].bom
                                   /\ i # Len(idx) => F[i].cr = K[i].cr
      BY <3>5
    <3> QED
      BY <3>2, <3>5, <3>6, <3>7
  <2>2. CASE ~C
    <3>1. F = K /\ e = P.eol2
      BY <2>2, <1>19
    <3>2. Len(idx) > 0 => e = T[1 + idx[Len(idx)]].cr
      <4> SUFFICES ASSUME Len(idx) > 0 PROVE e = T[1 + idx[Len(idx)]].cr
        OBVIOUS
      <4>1. K # <<>>
        BY <1>8
      <4>2. ~HasKey(fm[j - 2], k)
        BY <4>1, <2>2, <1>18
      <4>3. j - 2 \in S
        BY <4>2, <1>2, <1>3
      <4>4. PICK i \in 1 .. Len(idx) : idx[i] = j - 2
        BY <4>3, <1>9
      <4>5. i = Len(idx)
        BY <4>4, <1>11
      <4>6. 1 + idx[Len(idx)] = j - 1
        BY <4>4, <4>5, <1>2
      <4> QED
        BY <4>6, <3>1, <1>2
    <3> QED
      BY <3>1, <3>2, <1>2, <1>8
  <2> QED
    BY <2>1, <2>2
<1>13. Refitted(T, U, F, e)
  <2>1. /\ Q.open = FmParts(T).open /\ Q.tail = FmParts(T).tail
        /\ Q.eol = FmParts(T).eol
        /\ Q.body = FmParts(T).body /\ Q.fm = F /\ Q.eol2 = e
    BY <1>5 DEF P
  <2> QED
    BY <2>1, <1>12, FmJoinIs
<1> HIDE DEF U
<1> DEFINE m == IF Len(idx) = 0 THEN 1 ELSE Len(idx)
<1>14. F = <<>> <=> Len(idx) = 0
  BY <1>12, EmptySeq
<1>15. /\ U \in Notes /\ Len(U) = 1 + m + (n - j + 1)
       /\ U[1] = T[1]
       /\ Len(idx) = 0 => U[2] = Line(Blank, T[j - 1].cr)
       /\ \A i \in 1 .. Len(F) : /\ U[1 + i].body = F[i].body /\ U[1 + i].bom = F[i].bom
                                 /\ U[1 + i].cr = IF i = Len(F) THEN e ELSE F[i].cr
       /\ \A i \in j .. n : U[2 + m + (i - j)] = T[i]
  <2>1. m = IF F = <<>> THEN 1 ELSE Len(F)
    BY <1>12, <1>14
  <2> HIDE DEF m
  <2> QED
    BY <2>1, <1>12, <1>13, <1>14 DEF Refitted, j, n
<1>20. m \in Nat \ {0} /\ m >= Len(idx)
  BY <1>9
<1> HIDE DEF m
<1>16. \A i \in 1 .. Len(idx) : U[1 + i] = T[1 + idx[i]]
  <2> TAKE i \in 1 .. Len(idx)
  <2>1. idx[i] \in 1 .. j - 2 /\ idx[i] + 1 = 1 + idx[i]
    BY <1>10
  <2>2. K[i] = fm[idx[i]]
    BY <1>8
  <2>3. fm[idx[i]].body = T[1 + idx[i]].body /\ fm[idx[i]].bom = T[1 + idx[i]].bom
    BY <2>1, <1>3
  <2>4. U[1 + i].cr = T[1 + idx[i]].cr
    <3>1. CASE i = Len(idx)
      BY <3>1, <1>12, <1>15, <1>9
    <3>2. CASE i # Len(idx)
      <4>1. fm[idx[i]] = T[1 + idx[i]]
        BY <3>2, <2>1, <1>3, <1>11
      <4> QED
        BY <4>1, <3>2, <2>2, <1>12, <1>15
    <3> QED
      BY <3>1, <3>2
  <2>5. U[1 + i].body = T[1 + idx[i]].body /\ U[1 + i].bom = T[1 + idx[i]].bom
    BY <2>2, <2>3, <1>12, <1>15
  <2>6. 1 + i \in 1 .. Len(U) /\ 1 + idx[i] \in 1 .. Len(T)
    <3>1. i <= m /\ i \in Nat /\ m \in Nat /\ n - j + 1 \in Nat
      BY <1>1, <1>2, <1>9, <1>20 DEF n
    <3>2. 1 + i \in 1 .. Len(U)
      BY <3>1, <1>15
    <3>3. 1 + idx[i] \in 1 .. Len(T)
      BY <2>1, <1>1, <1>2 DEF n
    <3> QED
      BY <3>2, <3>3
  <2>7. U[1 + i] \in LineSet /\ T[1 + idx[i]] \in LineSet
    BY <2>6, <1>1, <1>15, TextLines DEF Notes
  <2> QED
    BY <2>4, <2>5, <2>7, LinesAreEqual
<1>21. Cleared(T, U, k, idx)
  <2>1. Lists(idx, S2)
    BY <1>7, <1>8
  <2>2. m = IF Len(idx) = 0 THEN 1 ELSE Len(idx)
    BY DEF m
  <2> QED
    BY <2>1, <2>2, <1>15, <1>16 DEF Cleared, j, n
<1> QED
  BY <1>4, <1>21

----------------------------------------------------------------------------
(* The steps of the system.                                                *)

LEMMA FoundIs ==
  ASSUME NEW T, NEW w, NEW h, Found(T, w, h)
  PROVE  FindSec(T, w, h) \in ToSet(Parse(T))
<1> DEFINE secs == ToSet(Parse(T))
           t == Tiers(T, w, h, secs)
           hits == {i \in DOMAIN t : t[i] # {}}
<1>1. DOMAIN t = 1 .. 5 /\ \A i \in 1 .. 5 : t[i] \subseteq secs
  <2>1. DOMAIN t = 1 .. 5
    BY DEF Tiers
  <2>2. /\ t[1] \subseteq secs /\ t[2] \subseteq secs /\ t[3] \subseteq secs
        /\ t[4] \subseteq secs
    BY DEF Tiers
  <2>3. t[5] \subseteq secs
    <3> DEFINE a == {s \in secs : s.title \in w.prefix}
               b == {s \in secs : s.title \in w.prefix \cap w.whole}
    <3>1. AtBreak(a, b) \subseteq secs
      BY DEF AtBreak
    <3>2. t[5] = IF h THEN {} ELSE AtBreak(a, b)
      BY DEF Tiers
    <3> HIDE DEF a, b, t
    <3> QED
      BY <3>1, <3>2
  <2> HIDE DEF t
  <2>4. \A i \in 1 .. 5 : i = 1 \/ i = 2 \/ i = 3 \/ i = 4 \/ i = 5
    OBVIOUS
  <2> QED
    BY <2>1, <2>2, <2>3, <2>4
<1>2. Named(T, w, h) = IF hits = {} THEN {} ELSE t[Min(hits)]
  BY DEF Named
<1> HIDE DEF t, secs
<1>3. Named(T, w, h) # {}
  <2>1. Cardinality(Named(T, w, h)) = 1
    BY DEF Found
  <2>2. Cardinality({}) = 0
    BY FS_EmptySet
  <2> QED
    BY <2>1, <2>2
<1>4. hits # {} /\ hits \in SUBSET Nat /\ hits \subseteq 1 .. 5
  BY <1>1, <1>2, <1>3
<1>5. Min(hits) \in hits
  <2> HIDE DEF hits
  <2> QED
    BY <1>4, MinIs
<1>6. Named(T, w, h) \subseteq secs
  <2>1. Min(hits) \in 1 .. 5
    BY <1>4, <1>5
  <2>2. t[Min(hits)] \subseteq secs
    BY <1>1, <2>1
  <2>3. Named(T, w, h) = t[Min(hits)]
    BY <1>2, <1>4
  <2> QED
    BY <2>2, <2>3
<1>7. FindSec(T, w, h) \in Named(T, w, h)
  BY <1>3 DEF FindSec, TheOnly
<1> QED
  BY <1>6, <1>7 DEF secs

----------------------------------------------------------------------------
(* What yaml_scalar writes.                                                *)

Flattening(s) ==
  LET flatten[i \in 1 .. Len(s)] == IF i = 1 THEN s[i] ELSE flatten[i - 1] \o s[i]
  IN flatten

LEMMA FlatteningIs ==
  ASSUME NEW X, NEW s \in Seq(Seq(X)), s # <<>>
  PROVE  /\ FlattenSeq(s) = Flattening(s)[Len(s)]
         /\ Flattening(s) \in [1 .. Len(s) -> Seq(X)]
         /\ Flattening(s)[1] = s[1]
         /\ \A i \in 2 .. Len(s) : Flattening(s)[i] = Flattening(s)[i - 1] \o s[i]
<1> DEFINE n == Len(s)
           step == [i \in 1 + 1 .. n |-> [w \in Seq(X) |-> w \o s[i]]]
<1>1. n \in Nat \ {0} /\ \A i \in 1 .. n : s[i] \in Seq(X)
  BY EmptySeq
<1>2. step \in Steps(1, n, Seq(X))
  <2>1. \A i \in 1 + 1 .. n : \A w \in Seq(X) : w \o s[i] \in Seq(X)
    <3>1. ASSUME NEW i \in 1 + 1 .. n, NEW w \in Seq(X) PROVE w \o s[i] \in Seq(X)
      <4>1. s[i] \in Seq(X)
        BY <1>1
      <4> QED
        BY <4>1, ConcatProperties
    <3> QED
      BY <3>1
  <2> QED
    BY <2>1 DEF Steps
<1>3. PICK f : Follows(f, 1, n, Seq(X), s[1], step)
  <2>1. s[1] \in Seq(X) /\ 1 \in Nat /\ n \in Nat /\ 1 <= n
    BY <1>1
  <2> HIDE DEF step, n
  <2> QED
    BY <1>2, <2>1, Recursion
<1>4. f = [i \in 1 .. n |-> IF i = 1 THEN s[i] ELSE f[i - 1] \o s[i]]
  <2>1. ASSUME NEW i \in 1 .. n, i # 1 PROVE f[i] = f[i - 1] \o s[i]
    <3>1. i \in 1 + 1 .. n /\ i - 1 \in 1 .. n
      BY <2>1
    <3>2. f[i] = step[i][f[i - 1]] /\ f[i - 1] \in Seq(X)
      BY <3>1, <1>3 DEF Follows
    <3> QED
      BY <3>1, <3>2
  <2> QED
    BY <1>3, <2>1 DEF Follows
<1> DEFINE o == Flattening(s)
<1>5. o = [i \in 1 .. n |-> IF i = 1 THEN s[i] ELSE o[i - 1] \o s[i]]
  BY <1>4 DEF Flattening
<1> HIDE DEF o
<1>6. ASSUME NEW i \in 2 .. n PROVE o[i] = o[i - 1] \o s[i]
  <2>1. i \in 1 .. n /\ i # 1
    OBVIOUS
  <2> QED
    BY <1>5, <2>1
<1>7. o[1] = s[1] /\ DOMAIN o = 1 .. n
  <2>1. 1 \in 1 .. n
    BY <1>1
  <2> QED
    BY <1>5, <2>1
<1>8. \A i \in 1 .. n : o[i] \in Seq(X)
  <2> DEFINE G == {i \in 1 .. n : o[i] \in Seq(X)}
  <2>1. 1 \in G
    BY <1>1, <1>7
  <2>2. ASSUME NEW i \in 1 + 1 .. n, i - 1 \in G PROVE i \in G
    <3>1. i \in 2 .. n /\ i \in 1 .. n /\ o[i - 1] \in Seq(X) /\ s[i] \in Seq(X)
      BY <1>1, <2>2
    <3>2. o[i - 1] \o s[i] \in Seq(X)
      BY <3>1, ConcatProperties
    <3>3. o[i] \in Seq(X)
      BY <3>1, <3>2, <1>6
    <3> QED
      BY <3>1, <3>3
  <2> HIDE DEF G
  <2>3. \A i \in 1 .. n : i \in G
    BY <1>1, <2>1, <2>2, StepByStep
  <2> QED
    BY <2>3 DEF G
<1>9. o \in [1 .. n -> Seq(X)]
  BY <1>5, <1>8
<1>10. FlattenSeq(s) = o[n]
  BY <1>1 DEF FlattenSeq, Flattening, o
<1> QED
  BY <1>6, <1>7, <1>9, <1>10 DEF o, n

\* Where the parts end.
Offsets(p, s, n) ==
  /\ p \in [0 .. n -> Nat] /\ p[0] = 0
  /\ \A i \in 1 .. n : p[i] = p[i - 1] + Len(s[i])
PartsAt(e, s, p, n) == \A i \in 1 .. n : \A k \in 1 .. Len(s[i]) : e[p[i - 1] + k] = s[i][k]

\* w is made of the parts of s.
IsMadeOf(w, s) ==
  \E p : /\ Offsets(p, s, Len(s)) /\ PartsAt(w, s, p, Len(s))
         /\ Len(w) = p[Len(s)] /\ \A j \in 0 .. Len(s) : p[j] <= p[Len(s)]

LEMMA FlattenedIs ==
  ASSUME NEW X, NEW s \in Seq(Seq(X)), s # <<>>
  PROVE  FlattenSeq(s) \in Seq(X) /\ IsMadeOf(FlattenSeq(s), s)
<1> DEFINE n == Len(s)
           o == Flattening(s)
           p == [i \in 0 .. n |-> IF i = 0 THEN 0 ELSE Len(o[i])]
           G == {i \in 1 .. n : /\ \A j \in 0 .. i : p[j] <= p[i]
                                /\ PartsAt(o[i], s, p, i)}
<1>1. n \in Nat \ {0} /\ \A i \in 1 .. n : s[i] \in Seq(X) /\ Len(s[i]) \in Nat
  BY EmptySeq
<1>2. /\ o \in [1 .. n -> Seq(X)] /\ o[1] = s[1] /\ FlattenSeq(s) = o[n]
      /\ \A i \in 2 .. n : o[i] = o[i - 1] \o s[i]
  BY FlatteningIs
<1> HIDE DEF o
<1>3. ASSUME NEW i \in 2 .. n
      PROVE  /\ Len(o[i]) = Len(o[i - 1]) + Len(s[i])
             /\ \A k \in 1 .. Len(o[i - 1]) : o[i][k] = o[i - 1][k]
             /\ \A k \in 1 .. Len(s[i]) : o[i][Len(o[i - 1]) + k] = s[i][k]
             /\ Len(o[i - 1]) \in Nat /\ Len(s[i]) \in Nat
  <2>1. o[i - 1] \in Seq(X) /\ s[i] \in Seq(X) /\ o[i] = o[i - 1] \o s[i]
    <3>1. i - 1 \in 1 .. n /\ i \in 1 .. n
      BY <1>1
    <3> QED
      BY <3>1, <1>1, <1>2
  <2> DEFINE a == o[i - 1]
             b == s[i]
  <2> HIDE DEF a, b
  <2>2. a \in Seq(X) /\ b \in Seq(X) /\ o[i] = a \o b
    BY <2>1 DEF a, b
  <2>3. /\ Len(a \o b) = Len(a) + Len(b)
        /\ \A k \in 1 .. Len(a) + Len(b) : (a \o b)[k] = IF k <= Len(a) THEN a[k] ELSE b[k - Len(a)]
        /\ Len(a) \in Nat /\ Len(b) \in Nat
    BY <2>2, ConcatProperties
  <2>4. \A k \in 1 .. Len(a) : (a \o b)[k] = a[k]
    BY <2>3
  <2>5. \A k \in 1 .. Len(b) : (a \o b)[Len(a) + k] = b[k]
    <3>1. ASSUME NEW k \in 1 .. Len(b) PROVE (a \o b)[Len(a) + k] = b[k]
      <4>1. /\ Len(a) + k \in 1 .. Len(a) + Len(b) /\ ~(Len(a) + k <= Len(a))
            /\ (Len(a) + k) - Len(a) = k
        BY <2>3
      <4> QED
        BY <4>1, <2>3
    <3> QED
      BY <3>1
  <2> QED
    BY <2>2, <2>3, <2>4, <2>5 DEF a, b
<1>4. Offsets(p, s, n)
  <2>1. p[0] = 0 /\ \A i \in 1 .. n : p[i] = Len(o[i])
    BY <1>1
  <2>2. p \in [0 .. n -> Nat]
    <3>1. \A i \in 1 .. n : Len(o[i]) \in Nat
      BY <1>2
    <3> QED
      BY <3>1
  <2> HIDE DEF p
  <2>3. ASSUME NEW i \in 1 .. n PROVE p[i] = p[i - 1] + Len(s[i])
    <3>1. CASE i = 1
      BY <3>1, <2>1, <1>1, <1>2
    <3>2. CASE i # 1
      <4>1. i \in 2 .. n /\ i - 1 \in 1 .. n
        BY <3>2, <1>1
      <4> QED
        BY <4>1, <1>3, <2>1
    <3> QED
      BY <3>1, <3>2
  <2> QED
    BY <2>1, <2>2, <2>3 DEF Offsets
<1>5. p[0] = 0 /\ \A i \in 1 .. n : p[i] = Len(o[i])
  BY <1>1
<1> HIDE DEF p
<1>6. 1 \in G
  <2>1. p[1] = p[0] + Len(s[1]) /\ p[0] \in Nat /\ p[1] \in Nat /\ 1 \in 1 .. n
    BY <1>1, <1>4 DEF Offsets
  <2>2. \A j \in 0 .. 1 : p[j] <= p[1]
    <3>1. \A j \in 0 .. 1 : j = 0 \/ j = 1
      OBVIOUS
    <3> QED
      BY <3>1, <2>1, <1>1
  <2>3. PartsAt(o[1], s, p, 1)
    <3>1. \A i \in 1 .. 1 : i = 1
      OBVIOUS
    <3>2. \A k \in 1 .. Len(s[1]) : o[1][p[0] + k] = s[1][k]
      BY <1>2, <1>5
    <3>3. 1 - 1 = 0
      OBVIOUS
    <3> QED
      BY <3>1, <3>2, <3>3 DEF PartsAt
  <2> QED
    BY <2>1, <2>2, <2>3
<1>7. ASSUME NEW i \in 1 + 1 .. n, i - 1 \in G PROVE i \in G
  <2>1. i \in 2 .. n /\ i \in 1 .. n /\ i - 1 \in 1 .. n
    BY <1>1
  <2>2. /\ \A j \in 0 .. i - 1 : p[j] <= p[i - 1]
        /\ PartsAt(o[i - 1], s, p, i - 1)
    BY <1>7
  <2>3. p \in [0 .. n -> Nat] /\ \A j \in 1 .. n : p[j] = p[j - 1] + Len(s[j])
    BY <1>4 DEF Offsets
  <2>4. p[i] = p[i - 1] + Len(s[i]) /\ p[i - 1] \in Nat /\ p[i] \in Nat /\ Len(s[i]) \in Nat
    <3>1. i \in 0 .. n /\ i - 1 \in 0 .. n
      BY <2>1, <1>1
    <3>2. Len(s[i]) \in Nat
      BY <2>1, <1>1
    <3> HIDE DEF n
    <3>3. p[i - 1] \in Nat /\ p[i] \in Nat
      BY <3>1, <2>3
    <3>4. p[i] = p[i - 1] + Len(s[i])
      BY <2>1, <2>3
    <3> QED
      BY <3>2, <3>3, <3>4
  <2>5. ASSUME NEW j \in 0 .. i PROVE p[j] <= p[i]
    <3>1. CASE j = i
      BY <3>1, <2>4
    <3>2. CASE j # i
      <4>1. j \in 0 .. i - 1 /\ j \in 0 .. n
        BY <3>2, <2>1
      <4>2. p[j] <= p[i - 1] /\ p[j] \in Nat
        BY <4>1, <2>2, <2>3
      <4> QED
        BY <4>2, <2>4, SMTT(30)
    <3> QED
      BY <3>1, <3>2
  <2>6. ASSUME NEW j \in 1 .. i, NEW k \in 1 .. Len(s[j])
        PROVE  o[i][p[j - 1] + k] = s[j][k]
    <3>1. CASE j = i
      BY <3>1, <2>1, <1>3, <1>5
    <3>2. CASE j # i
      <4>1. j \in 1 .. i - 1 /\ j \in 1 .. n /\ j - 1 \in 0 .. n /\ j \in 0 .. i - 1
        BY <3>2, <2>1
      <4>2. o[i - 1][p[j - 1] + k] = s[j][k]
        BY <4>1, <2>2 DEF PartsAt
      <4>3. p[j - 1] + k \in 1 .. Len(o[i - 1])
        <5>1. /\ p[j] <= p[i - 1] /\ p[j] = p[j - 1] + Len(s[j]) /\ p[j - 1] \in Nat
              /\ p[i - 1] = Len(o[i - 1]) /\ p[i - 1] \in Nat /\ Len(s[j]) \in Nat
          BY <4>1, <2>1, <2>2, <2>3, <2>4, <1>1, <1>5
        <5> DEFINE b == p[j - 1]
                   c == p[i - 1]
                   l == Len(s[j])
        <5>2. p[j] <= c /\ p[j] = b + l /\ b \in Nat /\ l \in Nat /\ c \in Nat /\ k \in 1 .. l
          BY <5>1
        <5>3. c = Len(o[i - 1])
          BY <5>1
        <5> HIDE DEF b, c, l, n
        <5>4. b + k \in 1 .. c
          BY <5>2
        <5> QED
          BY <5>3, <5>4 DEF b
      <4> QED
        BY <4>2, <4>3, <2>1, <1>3
    <3> QED
      BY <3>1, <3>2
  <2> QED
    BY <2>1, <2>5, <2>6 DEF PartsAt
<1> HIDE DEF G
<1>8. \A i \in 1 .. n : i \in G
  BY <1>1, <1>6, <1>7, StepByStep
<1>9. n \in 1 .. n /\ n \in G
  BY <1>1, <1>8
<1>10. PartsAt(FlattenSeq(s), s, p, n) /\ Len(FlattenSeq(s)) = p[n] /\ FlattenSeq(s) \in Seq(X)
  BY <1>2, <1>5, <1>9 DEF G
<1>11. \A j \in 0 .. n : p[j] <= p[n]
  BY <1>9 DEF G
<1> QED
  BY <1>4, <1>10, <1>11 DEF IsMadeOf

Special == {"nl", "bs", "dq"}

LEMMA EscapeIs ==
  ASSUME NEW c \in Signs
  PROVE  /\ Escape(c) \in Seq(Signs)
         /\ c \in Special => /\ Len(Escape(c)) = 2 /\ Escape(c)[1] = "bs"
                             /\ Escape(c)[2] = IF c = "nl" THEN "n" ELSE c
         /\ c \notin Special => Len(Escape(c)) = 1 /\ Escape(c)[1] = c
<1>1. CASE c = "nl"
  <2>1. Escape(c) = <<"bs", "n">>
    BY <1>1 DEF Escape
  <2>2. "bs" \in Signs /\ "n" \in Signs /\ c \in Special
    BY <1>1 DEF Signs, Special
  <2>3. /\ <<"bs", "n">> \in Seq(Signs) /\ Len(<<"bs", "n">>) = 2
        /\ <<"bs", "n">>[1] = "bs" /\ <<"bs", "n">>[2] = "n"
    BY <2>2
  <2> QED
    BY <1>1, <2>1, <2>2, <2>3
<1>2. CASE c \in {"bs", "dq"}
  <2>1. Escape(c) = <<"bs", c>> /\ c # "nl"
    BY <1>2 DEF Escape
  <2>2. "bs" \in Signs /\ c \in Special
    BY <1>2 DEF Signs, Special
  <2> QED
    BY <2>1, <2>2
<1>3. CASE c \notin Special
  <2>1. Escape(c) = <<c>>
    BY <1>3 DEF Escape, Special
  <2> QED
    BY <1>3, <2>1
<1> QED
  BY <1>1, <1>2, <1>3 DEF Special

\* e is v between quotes; what v[i] becomes ends p[i] characters after the first.
Layout(v, e, p) ==
  /\ p \in [0 .. Len(v) -> Nat] /\ p[0] = 0
  /\ \A i \in 0 .. Len(v) : p[i] <= p[Len(v)]
  /\ e \in Seq(Signs) /\ Len(e) = p[Len(v)] + 2
  /\ e[1] = "dq" /\ e[Len(e)] = "dq"
  /\ \A i \in 1 .. Len(v) :
       /\ v[i] \in Special => /\ p[i] = p[i - 1] + 2 /\ e[p[i - 1] + 2] = "bs"
                              /\ e[p[i - 1] + 3] = IF v[i] = "nl" THEN "n" ELSE v[i]
       /\ v[i] \notin Special => p[i] = p[i - 1] + 1 /\ e[p[i - 1] + 2] = v[i]

LEMMA QuotedIs ==
  ASSUME NEW a \in Seq(Signs)
  PROVE  LET e == <<"dq">> \o a \o <<"dq">> IN
         /\ e \in Seq(Signs) /\ Len(e) = Len(a) + 2
         /\ e[1] = "dq" /\ e[Len(e)] = "dq"
         /\ \A j \in 1 .. Len(a) : e[j + 1] = a[j]
<1> DEFINE q == <<"dq">>
           b == q \o a
           e == b \o q
<1>1. q \in Seq(Signs) /\ Len(q) = 1 /\ q[1] = "dq"
  BY DEF Signs
<1> HIDE DEF q
<1>2. /\ b \in Seq(Signs) /\ Len(b) = Len(a) + 1 /\ Len(a) \in Nat
      /\ \A i \in 1 .. 1 + Len(a) : b[i] = IF i <= 1 THEN q[i] ELSE a[i - 1]
  <2>1. /\ b \in Seq(Signs) /\ Len(b) = Len(q) + Len(a)
        /\ \A i \in 1 .. Len(q) + Len(a) : b[i] = IF i <= Len(q) THEN q[i] ELSE a[i - Len(q)]
    BY <1>1, ConcatProperties
  <2>2. Len(a) \in Nat
    BY LenProperties
  <2> HIDE DEF b
  <2> QED
    BY <1>1, <2>1, <2>2
<1> HIDE DEF b
<1>3. /\ e \in Seq(Signs) /\ Len(e) = Len(b) + 1
      /\ \A i \in 1 .. Len(b) + 1 : e[i] = IF i <= Len(b) THEN b[i] ELSE q[i - Len(b)]
  <2>1. /\ e \in Seq(Signs) /\ Len(e) = Len(b) + Len(q)
        /\ \A i \in 1 .. Len(b) + Len(q) : e[i] = IF i <= Len(b) THEN b[i] ELSE q[i - Len(b)]
    BY <1>1, <1>2, ConcatProperties
  <2> HIDE DEF e
  <2> QED
    BY <1>1, <2>1
<1> HIDE DEF e
<1>4. ASSUME NEW j \in 1 .. Len(a) PROVE e[j + 1] = a[j]
  <2>1. j + 1 \in 1 .. Len(b) + 1 /\ j + 1 <= Len(b) /\ ~(j + 1 <= 1) /\ (j + 1) - 1 = j
    BY <1>2
  <2> QED
    BY <2>1, <1>2, <1>3
<1>5. e[1] = "dq"
  BY <1>1, <1>2, <1>3
<1>6. e[Len(e)] = "dq"
  <2>1. Len(e) \in 1 .. Len(b) + 1 /\ ~(Len(e) <= Len(b)) /\ Len(e) - Len(b) = 1
    BY <1>2, <1>3
  <2> QED
    BY <2>1, <1>1, <1>3
<1>7. Len(e) = Len(a) + 2
  BY <1>2, <1>3
<1> QED
  BY <1>3, <1>4, <1>5, <1>6, <1>7 DEF e, b, q

LEMMA EscapedIs ==
  ASSUME NEW v \in Seq(Signs), v # <<>>
  PROVE  \E p : Layout(v, <<"dq">> \o Escaped(v) \o <<"dq">>, p)
<1> DEFINE s == [i \in DOMAIN v |-> Escape(v[i])]
           n == Len(v)
           a == Escaped(v)
           e == <<"dq">> \o a \o <<"dq">>
<1>1. n \in Nat \ {0} /\ DOMAIN v = 1 .. n /\ \A i \in 1 .. n : v[i] \in Signs
  BY EmptySeq, LenProperties
<1>2. s \in Seq(Seq(Signs)) /\ Len(s) = n /\ s # <<>> /\ \A i \in 1 .. n : s[i] = Escape(v[i])
  <2>1. \A i \in 1 .. n : Escape(v[i]) \in Seq(Signs)
    BY <1>1, EscapeIs
  <2>2. s \in [1 .. n -> Seq(Signs)]
    BY <1>1, <2>1
  <2>3. s \in Seq(Seq(Signs)) /\ Len(s) = n
    <3> HIDE DEF s, n
    <3> QED
      BY <1>1, <2>2
  <2>4. s # <<>>
    <3> HIDE DEF s, n
    <3> QED
      BY <1>1, <2>3
  <2> QED
    BY <1>1, <2>3, <2>4
<1>3. PICK p : /\ Offsets(p, s, n) /\ PartsAt(FlattenSeq(s), s, p, n)
               /\ Len(FlattenSeq(s)) = p[n] /\ FlattenSeq(s) \in Seq(Signs)
               /\ \A j \in 0 .. n : p[j] <= p[n]
  <2>1. FlattenSeq(s) \in Seq(Signs) /\ IsMadeOf(FlattenSeq(s), s)
    <3>1. s \in Seq(Seq(Signs)) /\ s # <<>>
      BY <1>2
    <3> HIDE DEF s, n
    <3> QED
      BY <3>1, FlattenedIs
  <2>2. Len(s) = n
    BY <1>2
  <2> HIDE DEF s, n
  <2> QED
    BY <2>1, <2>2 DEF IsMadeOf
<1>4. /\ a \in Seq(Signs) /\ Len(a) = p[n]
      /\ \A i \in 1 .. n : \A k \in 1 .. Len(s[i]) : a[p[i - 1] + k] = s[i][k]
  BY <1>3 DEF Escaped, PartsAt
<1>5. /\ p \in [0 .. n -> Nat] /\ p[0] = 0
      /\ \A i \in 1 .. n : p[i] = p[i - 1] + Len(s[i])
  BY <1>3 DEF Offsets
<1> HIDE DEF s, a
<1>6. /\ e \in Seq(Signs) /\ Len(e) = Len(a) + 2
      /\ e[1] = "dq" /\ e[Len(e)] = "dq"
      /\ \A j \in 1 .. Len(a) : e[j + 1] = a[j]
  BY <1>4, QuotedIs
<1> HIDE DEF e
<1>7. ASSUME NEW i \in 1 .. n
      PROVE  /\ v[i] \in Special => /\ p[i] = p[i - 1] + 2 /\ e[p[i - 1] + 2] = "bs"
                                    /\ e[p[i - 1] + 3] = IF v[i] = "nl" THEN "n" ELSE v[i]
             /\ v[i] \notin Special => p[i] = p[i - 1] + 1 /\ e[p[i - 1] + 2] = v[i]
  <2> DEFINE b == p[i - 1]
             c == p[n]
  <2>1. b \in Nat /\ c \in Nat /\ p[i] = b + Len(s[i]) /\ p[i] <= c
    <3>1. i - 1 \in 0 .. n /\ i \in 0 .. n /\ n \in 0 .. n
      BY <1>1
    <3> HIDE DEF n
    <3> QED
      BY <3>1, <1>3, <1>5
  <2>2. \A k \in 1 .. Len(s[i]) : a[b + k] = s[i][k]
    BY <1>4
  <2>3. s[i] = Escape(v[i]) /\ v[i] \in Signs
    BY <1>1, <1>2
  <2>4. Len(a) = c /\ \A j \in 1 .. c : e[j + 1] = a[j]
    BY <1>4, <1>6
  <2> HIDE DEF b, c, n
  <2>5. CASE v[i] \in Special
    <3>1. /\ Len(s[i]) = 2 /\ s[i][1] = "bs"
          /\ s[i][2] = IF v[i] = "nl" THEN "n" ELSE v[i]
      BY <2>3, <2>5, EscapeIs
    <3>2. a[b + 1] = s[i][1] /\ a[b + 2] = s[i][2] /\ p[i] = b + 2
      BY <3>1, <2>1, <2>2
    <3>3. b + 1 \in 1 .. c /\ b + 2 \in 1 .. c /\ (b + 1) + 1 = b + 2 /\ (b + 2) + 1 = b + 3
      BY <3>2, <2>1
    <3>4. e[b + 2] = a[b + 1] /\ e[b + 3] = a[b + 2]
      BY <3>3, <2>4
    <3> QED
      BY <2>5, <3>1, <3>2, <3>4 DEF b
  <2>6. CASE v[i] \notin Special
    <3>1. Len(s[i]) = 1 /\ s[i][1] = v[i]
      BY <2>3, <2>6, EscapeIs
    <3>2. a[b + 1] = s[i][1] /\ p[i] = b + 1
      BY <3>1, <2>1, <2>2
    <3>3. b + 1 \in 1 .. c /\ (b + 1) + 1 = b + 2
      BY <3>2, <2>1
    <3>4. e[b + 2] = a[b + 1]
      BY <3>3, <2>4
    <3> QED
      BY <2>6, <3>1, <3>2, <3>4 DEF b
  <2> QED
    BY <2>5, <2>6
<1>8. Layout(v, e, p)
  BY <1>3, <1>4, <1>5, <1>6, <1>7 DEF Layout
<1> QED
  BY <1>8 DEF e, a

LEMMA EmptyQuotes == Layout(<<>>, <<"dq", "dq">>, [i \in 0 .. 0 |-> 0])
<1> DEFINE e == <<"dq", "dq">>
           p == [i \in 0 .. 0 |-> 0]
<1>1. e \in Seq(Signs) /\ Len(e) = 2 /\ e[1] = "dq" /\ e[2] = "dq"
  BY DEF Signs
<1>2. Len(<<>>) = 0 /\ p \in [0 .. 0 -> Nat] /\ p[0] = 0 /\ \A i \in 0 .. 0 : p[i] = 0
  OBVIOUS
<1>3. \A i \in 1 .. 0 : FALSE
  OBVIOUS
<1> HIDE DEF e, p
<1>4. Layout(<<>>, e, p)
  BY <1>1, <1>2, <1>3 DEF Layout
<1> QED
  BY <1>4 DEF e, p

LEMMA ScalarIsText ==
  ASSUME NEW v \in Seq(STRING)
  PROVE  Scalar(v) \in Seq(Signs)
<1>1. v \in Seq(Signs)
  BY DEF Signs
<1>2. CASE v = <<>>
  BY <1>2, EmptyQuotes DEF Scalar, Layout
<1>3. CASE v # <<>> /\ Scalar(v) = v
  BY <1>1, <1>3
<1>4. CASE v # <<>> /\ Scalar(v) = <<"dq">> \o Escaped(v) \o <<"dq">>
  BY <1>1, <1>4, EscapedIs DEF Layout
<1> QED
  BY <1>2, <1>3, <1>4 DEF Scalar

\* The values as they are written.
Forms == {Scalar(v) : v \in Values}

LEMMA FormsAreText == Forms \subseteq Seq(Signs)
<1>1. \A v \in Values : v \in Seq(STRING)
  BY NotesAssumption
<1> QED
  BY <1>1, ScalarIsText DEF Forms

----------------------------------------------------------------------------
(* The forms that a step of the note can take.                             *)

\* What a command makes of a note.
Edits(T, U) ==
  \/ \E s \in ToSet(Parse(T)), p \in Payloads :
       U = Patched(T, s, p) \/ U = Appended(T, s, p, s.end)
  \/ \E p \in Payloads : U = AtEof(T, p) \/ U = Below(T, p) \/ U = AppendedToday(T, p)
  \/ \E k \in Keys : \/ HasFm(T) /\ U = Unassigned(T, k)
                     \/ \E v \in Forms : U = Assigned(T, k, v)

LEMMA NextEdits ==
  ASSUME Next, note # Absent
  PROVE  Edits(note, note')
<1>1. ASSUME NEW w, NEW p \in Payloads, NEW x, Patch(w, x, p)
      PROVE  Edits(note, note')
  <2>1. /\ FindSec(note, w, FALSE) \in ToSet(Parse(note))
        /\ note' = Patched(note, FindSec(note, w, FALSE), p)
    BY <1>1, FoundIs DEF Patch
  <2> QED
    BY <2>1 DEF Edits
<1>2. ASSUME NEW w, NEW p \in Payloads, AppendSec(w, p)
      PROVE  Edits(note, note')
  <2> DEFINE sec == FindSec(note, w, FALSE)
  <2>1. /\ sec \in ToSet(Parse(note))
        /\ note' = Appended(note, sec, p, sec.end)
    BY <1>2, FoundIs DEF AppendSec
  <2> HIDE DEF sec
  <2> QED
    BY <2>1 DEF Edits
<1>3. ASSUME NEW p \in Payloads, AppendText(p) \/ Prepend(p) \/ DailyAppend(p)
      PROVE  Edits(note, note')
  BY <1>3 DEF Edits, AppendText, Prepend, DailyAppend
<1>4. ASSUME NEW k \in Keys, Unset(k) \/ \E v \in Values : Set(k, v)
      PROVE  Edits(note, note')
  BY <1>4 DEF Edits, Unset, Set, Forms
<1>5. ASSUME NEW T, NEW k, NEW v, New(T, k, v)
      PROVE  FALSE
  BY <1>5 DEF New
<1>6. \/ \E w \in Addresses, p \in Payloads :
           \/ \E s \in ToSet(Parse(note)) : Patch(w, Hash(note, s), p)
           \/ AppendSec(w, p)
      \/ \E p \in Payloads : AppendText(p) \/ Prepend(p) \/ DailyAppend(p)
      \/ \E k \in Keys : Unset(k) \/ \E v \in Values : Set(k, v)
      \/ \E T \in Templates, k \in Keys, v \in Values : New(T, k, v)
  BY DEF Next
<1> QED
  BY <1>1, <1>2, <1>3, <1>4, <1>5, <1>6

LEMMA PropBlockIs ==
  ASSUME NEW k \in STRING, NEW v \in Seq(Signs), NEW eol \in BOOLEAN
  PROVE  /\ PropBlock(k, v, eol) \in Notes /\ Len(PropBlock(k, v, eol)) = 3
         /\ PropBlock(k, v, eol)[1] = Line(Rule, eol)
         /\ PropBlock(k, v, eol)[2] = Line(Prop(k, v), eol)
         /\ PropBlock(k, v, eol)[3] = Line(Rule, eol)
<1>1. Line(Rule, eol) \in LineSet
  BY RuleIsABody, ALine
<1>2. Line(Prop(k, v), eol) \in LineSet
  <2>1. Prop(k, v) \in Bodies
    BY PropIsABody
  <2> QED
    BY <2>1, ALine
<1> DEFINE r == Line(Rule, eol)
           l == Line(Prop(k, v), eol)
<1>3. PropBlock(k, v, eol) = <<r, l, r>>
  BY DEF PropBlock
<1> HIDE DEF r, l
<1>4. r \in LineSet /\ l \in LineSet
  BY <1>1, <1>2 DEF r, l
<1>5. <<r, l, r>> \in Seq(LineSet) /\ Len(<<r, l, r>>) = 3 /\ <<r, l, r>> # <<>>
      /\ <<r, l, r>>[1] = r /\ <<r, l, r>>[2] = l /\ <<r, l, r>>[3] = r
  BY <1>4
<1> QED
  BY <1>3, <1>5 DEF Notes, r, l

LEMMA FirstEolIs ==
  ASSUME NEW T \in Notes
  PROVE  FirstEol(T) \in BOOLEAN
<1>1. T \in Seq(LineSet) /\ 1 \in 1 .. Len(T)
  BY EmptySeq DEF Notes
<1>2. T[1].cr \in BOOLEAN
  BY <1>1, TextLines
<1> QED
  BY <1>2 DEF FirstEol

LEMMA PatchedIs ==
  ASSUME NEW T \in Notes, NEW s \in ToSet(Parse(T)), NEW p \in Seq(Bodies), p # <<>>
  PROVE  /\ Replaced(T, Patched(T, s, p), s.start, s.end, Written(T, s.end, PatchBody(s, p)))
         /\ PatchBody(s, p) \in Seq(Bodies)
         /\ s.start \in Nat /\ s.end \in Nat /\ s.start <= s.end /\ s.end <= Len(T)
         /\ s.start < Len(T)
<1>1. T \in Seq(LineSet) /\ T # <<>>
  BY DEF Notes
<1>2. /\ s.start \in Nat /\ s.end \in Nat /\ s.start <= s.end /\ s.end <= Len(T)
      /\ s.start < Len(T)
  BY <1>1, SectionIs
<1>3. PatchBody(s, p) \in Seq(Bodies)
  BY PatchBodyIs
<1> DEFINE body == PatchBody(s, p)
           a == s.start
           b == s.end
<1>4. body \in Seq(Bodies) /\ a \in Nat /\ b \in Nat /\ a <= b /\ b <= Len(T)
  BY <1>2, <1>3
<1> HIDE DEF body, a, b
<1>5. Replaced(T, Splice(T, a, b, body), a, b, Written(T, b, body))
  BY <1>4, ReplacedIs
<1> QED
  BY <1>2, <1>3, <1>5 DEF Patched, body, a, b

LEMMA EditsNotes ==
  ASSUME NEW T \in Notes, NEW U, Edits(T, U)
  PROVE  U \in Notes
<1>0. \A p \in Payloads : p \in Seq(Bodies) /\ p # <<>>
  BY NotesAssumption
<1>9. T \in Seq(LineSet) /\ T # <<>>
  BY DEF Notes
<1>10. Keys \subseteq STRING /\ Forms \subseteq Seq(Signs)
  BY NotesAssumption, FormsAreText
<1>1. ASSUME NEW s \in ToSet(Parse(T)), NEW p \in Payloads
      PROVE  Patched(T, s, p) \in Notes
  BY <1>0, PatchedIs DEF Replaced
<1>2. ASSUME NEW s \in ToSet(Parse(T)), NEW p \in Payloads
      PROVE  Appended(T, s, p, s.end) \in Notes
  <2>1. s.end \in Nat /\ s.start <= s.end /\ s.end <= Len(T)
    BY <1>9, SectionIs
  <2>2. p \in Seq(Bodies) /\ p # <<>>
    BY <1>0
  <2>3. PICK q, i : Inserting(T, Appended(T, s, p, s.end), q, i)
    BY <2>1, <2>2, AppendedInserts
  <2> QED
    BY <2>3 DEF Inserting
<1>3. ASSUME NEW p \in Payloads
      PROVE  AtEof(T, p) \in Notes
  <2>1. PICK m : AtEnd(T, AtEof(T, p), p, m, LastEol(T))
    BY <1>0, AtEofIs
  <2> QED
    BY <2>1 DEF AtEnd
<1>4. ASSUME NEW p \in Payloads
      PROVE  Below(T, p) \in Notes
  <2>1. CASE HasFm(T)
    <3>1. PICK eol \in BOOLEAN : Split(T, Below(T, p), p, FmEnd(T), eol)
      BY <1>0, <2>1, BelowIs
    <3> QED
      BY <3>1 DEF Split
  <2>2. CASE ~HasFm(T)
    <3>1. Below(T, p) = OnTop(T, Lines(p, FirstEol(T)))
      BY <2>2 DEF Below
    <3>2. FirstEol(T) \in BOOLEAN
      BY FirstEolIs
    <3> DEFINE b == Lines(p, FirstEol(T))
    <3>3. b \in Seq(LineSet) /\ Len(b) = Len(p)
      BY <1>0, <3>2, LinesIs
    <3>4. Len(p) # 0
      BY <1>0, EmptySeq
    <3> HIDE DEF b
    <3>5. b \in Notes
      BY <3>3, <3>4, EmptySeq DEF Notes
    <3>6. Topped(T, OnTop(T, b), b)
      BY <3>5, OnTopIs
    <3> QED
      BY <3>1, <3>6 DEF Topped, b
  <2> QED
    BY <2>1, <2>2
<1>5. ASSUME NEW p \in Payloads
      PROVE  AppendedToday(T, p) \in Notes
  <2>1. CASE Todays(T) = {}
    BY <2>1, <1>3 DEF AppendedToday
  <2>2. CASE Todays(T) # {}
    <3> DEFINE sec == TheOnly(Todays(T))
               end == TodayEnd(T, sec)
    <3>1. /\ sec \in ToSet(Parse(T)) /\ IsKind(T[sec.start + 1], "heading")
          /\ end \in sec.start + 1 .. Len(T)
      BY <2>2, TodayEndIs
    <3>2. AppendedToday(T, p) = Appended(T, sec, p, end)
      BY <2>2 DEF AppendedToday
    <3> HIDE DEF sec, end
    <3>3. sec.start \in Nat /\ Len(T) \in Nat
      BY <1>9, <3>1, SectionIs
    <3>4. end \in Nat /\ sec.start <= end /\ end <= Len(T)
      BY <3>1, <3>3
    <3>5. PICK q, i : Inserting(T, Appended(T, sec, p, end), q, i)
      BY <1>0, <3>1, <3>4, AppendedInserts
    <3> QED
      BY <3>2, <3>5 DEF Inserting
  <2> QED
    BY <2>1, <2>2
<1>6. ASSUME NEW k \in Keys, HasFm(T)
      PROVE  Unassigned(T, k) \in Notes
  <2>1. PICK idx : Cleared(T, Unassigned(T, k), k, idx)
    BY <1>6, UnassignedIs
  <2> QED
    BY <2>1 DEF Cleared
<1>7. ASSUME NEW k \in Keys, NEW v \in Forms
      PROVE  Assigned(T, k, v) \in Notes
  <2>0. k \in STRING /\ v \in Seq(Signs)
    BY <1>10
  <2>1. CASE HasFm(T)
    BY <2>0, <2>1, AssignedIs DEF SetLine, NewLine
  <2>2. CASE ~HasFm(T)
    <3> DEFINE b == PropBlock(k, v, FirstEol(T))
    <3>1. Assigned(T, k, v) = OnTop(T, b)
      BY <2>2 DEF Assigned
    <3>2. b \in Notes
      <4>1. FirstEol(T) \in BOOLEAN
        BY FirstEolIs
      <4> QED
        BY <4>1, <2>0, PropBlockIs
    <3> HIDE DEF b
    <3>3. Topped(T, OnTop(T, b), b)
      BY <3>2, OnTopIs
    <3> QED
      BY <3>1, <3>3 DEF Topped
  <2> QED
    BY <2>1, <2>2
<1> QED
  BY <1>1, <1>2, <1>3, <1>4, <1>5, <1>6, <1>7 DEF Edits

LEMMA NewIs ==
  ASSUME NEW T \in Templates, NEW k \in Keys, NEW v \in Values, New(T, k, v)
  PROVE  note' \in Notes
<1>1. T \in Notes /\ k \in STRING /\ v \in Seq(Signs)
  <2>1. v \in Seq(STRING) /\ k \in STRING /\ T \in Notes
    BY NotesAssumption DEF Notes
  <2> QED
    BY <2>1 DEF Signs
<1> DEFINE i == FirstWith(T, k)
           c == Prop(k, v)
           U == Filled(T, k, v)
<1>2. U = IF i <= Len(T) THEN [T EXCEPT ![i].body = c]
          ELSE IF HasFm(T) THEN WithKey(T, k, v) ELSE T
  BY DEF Filled
<1>3. T \in Seq(LineSet) /\ T # <<>> /\ Len(T) \in Nat
  BY <1>1 DEF Notes
<1>4. i \in Nat /\ (i <= Len(T) => i \in 1 .. Len(T))
  BY <1>3, FirstWithIs
<1> HIDE DEF i
<1>5. ASSUME i <= Len(T) PROVE U \in Notes
  <2> DEFINE l == [T[i] EXCEPT !.body = c]
  <2>1. i \in 1 .. Len(T) /\ T[i] \in LineSet
    BY <1>3, <1>4, <1>5
  <2>2. l \in LineSet
    <3>1. c \in Bodies
      BY <1>1, PropIsABody
    <3> HIDE DEF c
    <3> QED
      BY <2>1, <3>1 DEF LineSet
  <2>3. U = [T EXCEPT ![i] = l]
    BY <1>2, <1>5
  <2> HIDE DEF l
  <2>4. [T EXCEPT ![i] = l] \in Seq(LineSet) /\ Len([T EXCEPT ![i] = l]) = Len(T)
    BY <1>3, <2>1, <2>2, ExceptSeq
  <2>5. Len(T) # 0
    BY <1>3, EmptySeq
  <2> QED
    BY <2>3, <2>4, <2>5, EmptySeq DEF Notes
<1>6. ASSUME ~(i <= Len(T)), HasFm(T) PROVE U \in Notes
  <2>1. U = WithKey(T, k, v)
    BY <1>2, <1>6
  <2> QED
    BY <2>1, <1>1, <1>6, WithKeyIs DEF NewLine
<1>7. U \in Notes
  BY <1>1, <1>2, <1>5, <1>6
<1>8. note' = IF T[1].body.kind = "dashes" THEN U ELSE PropBlock(k, v, FALSE) \o U
  BY DEF New
<1> HIDE DEF U
<1>9. PropBlock(k, v, FALSE) \o U \in Notes
  <2>1. PICK f \in BOOLEAN : f = FALSE
    OBVIOUS
  <2> DEFINE b == PropBlock(k, v, f)
  <2>2. b \in Seq(LineSet) /\ Len(b) \in Nat
    <3>1. b \in Notes /\ Len(b) = 3
      <4>1. k \in STRING /\ v \in Seq(Signs)
        BY <1>1
      <4> QED
        BY <4>1, PropBlockIs
    <3> HIDE DEF b
    <3> QED
      BY <3>1 DEF Notes
  <2>3. U \in Seq(LineSet) /\ U # <<>> /\ Len(U) \in Nat
    BY <1>7 DEF Notes
  <2>4. PropBlock(k, v, FALSE) = b
    BY <2>1
  <2> HIDE DEF b
  <2>5. IsConcat(b \o U, b, U, LineSet)
    BY <2>2, <2>3, ConcatIs
  <2>6. Len(U) # 0
    BY <2>3, EmptySeq
  <2>7. b \o U \in Seq(LineSet) /\ Len(b \o U) # 0
    BY <2>2, <2>3, <2>5, <2>6 DEF IsConcat
  <2> QED
    BY <2>4, <2>7, EmptySeq DEF Notes
<1> QED
  BY <1>7, <1>8, <1>9

\* The note is absent or a text.
NoteIsText == note \in Notes \cup {Absent}

LEMMA TypeHolds == Spec => []NoteIsText
<1>1. Init => NoteIsText
  BY NotesAssumption DEF Init, NoteIsText, Notes
<1>2. NoteIsText /\ [Next]_vars => NoteIsText'
  <2> SUFFICES ASSUME NoteIsText, [Next]_vars PROVE NoteIsText'
    OBVIOUS
  <2>1. CASE UNCHANGED vars
    BY <2>1 DEF vars, NoteIsText
  <2>2. CASE Next
    <3>1. CASE note = Absent
      <4>1. PICK T \in Templates, k \in Keys, v \in Values : New(T, k, v)
        BY <2>2, <3>1 DEF Next, Exists
      <4>2. note' \in Notes
        BY <4>1, NewIs
      <4> QED
        BY <4>2 DEF NoteIsText
    <3>2. CASE note # Absent
      <4>1. Edits(note, note') /\ note \in Notes
        BY <2>2, <3>2, NextEdits DEF NoteIsText
      <4>2. note' \in Notes
        BY <4>1, EditsNotes
      <4> QED
        BY <4>2 DEF NoteIsText
    <3> QED
      BY <3>1, <3>2
  <2> QED
    BY <2>1, <2>2
<1> QED
  BY <1>1, <1>2, PTL DEF Spec

LEMMA ExistsIsNote == NoteIsText /\ Exists => note \in Notes
BY DEF NoteIsText, Exists

\* patch leaves every byte outside its section as it was, in any note.
THEOREM PatchKeepsTheRestHolds == Spec => []PatchKeepsTheRest
<1>1. NoteIsText => PatchKeepsTheRest
  <2> SUFFICES ASSUME NoteIsText, Exists, NEW s \in ToSet(Parse(note)), NEW p \in Payloads
               PROVE  LET U == Patched(note, s, p) IN
                      \/ Framed(note, U, s.start, s.end)
                      \/ /\ s.end = Len(note) /\ ~EndsInNewline(note)
                         /\ U = SetCr(SubSeq(note, 1, s.start), s.start, FALSE)
    BY DEF PatchKeepsTheRest
  <2>1. note \in Notes
    BY ExistsIsNote
  <2> QED
    BY <2>1, PatchKeeps
<1> QED
  BY <1>1, TypeHolds, PTL

\* The commands that insert leave every byte of the note where it was.
THEOREM InsertionsOnlyInsertHolds == Spec => []InsertionsOnlyInsert
<1>1. NoteIsText => InsertionsOnlyInsert
  <2> SUFFICES ASSUME NoteIsText, Exists, Regular(note), NEW p \in Payloads
               PROVE  /\ \A s \in ToSet(Parse(note)) :
                           Inserted(note, Appended(note, s, p, s.end), p)
                      /\ Inserted(note, AppendedToday(note, p), p)
                      /\ Inserted(note, AtEof(note, p), p)
                      /\ ~SplitsALine(note) => Inserted(note, Below(note, p), p)
    BY DEF InsertionsOnlyInsert
  <2>1. note \in Notes
    BY ExistsIsNote
  <2> QED
    BY <2>1, InsertionsInsert
<1> QED
  BY <1>1, TypeHolds, PTL

----------------------------------------------------------------------------
(* The forms an edit takes, and the style of line ends.                    *)

\* The forms an edit takes.
Replacing(T, U) ==
  \E a, b \in Nat : \E new \in Seq(Bodies) :
    a <= b /\ b <= Len(T) /\ Replaced(T, U, a, b, Written(T, b, new))
Ending(T, U) == \E p \in Seq(Bodies) : \E m : AtEnd(T, U, p, m, LastEol(T))
Splitting(T, U) ==
  HasFm(T) /\ \E p \in Seq(Bodies), eol \in BOOLEAN : Split(T, U, p, FmEnd(T), eol)
Topping(T, U) ==
  \E block \in Notes :
    Topped(T, U, block) /\ \A i \in 1 .. Len(block) : block[i].cr = FirstEol(T)
Setting(T, U) == HasFm(T) /\ \E k, c : \E x \in KeyLines(T, k) : SetLine(T, U, x, c)
Adding(T, U) ==
  HasFm(T) /\ \E c : NewLine(T, U, FmEnd(T), Line(c, T[FmEnd(T) - 1].cr))
Clearing(T, U) == HasFm(T) /\ \E k, idx : Cleared(T, U, k, idx)

Formed(T, U) ==
  \/ Replacing(T, U) \/ Ending(T, U) \/ Splitting(T, U) \/ Topping(T, U)
  \/ Setting(T, U) \/ Adding(T, U) \/ Clearing(T, U)

LEMMA AppendedReplaces ==
  ASSUME NEW T \in Notes, NEW s \in ToSet(Parse(T)), NEW p \in Seq(Bodies),
         NEW end \in Nat, s.start <= end, end <= Len(T)
  PROVE  Replacing(T, Appended(T, s, p, end))
<1> DEFINE at == InsertionPoint(T, s.start, end)
<1>1. T \in Seq(LineSet) /\ T # <<>>
  BY DEF Notes
<1>2. s.start \in Nat
  BY <1>1, SectionIs
<1>3. at \in s.start .. end
  BY <1>2, InsertionPointIs
<1>4. Appended(T, s, p, end) = Splice(T, at, at, p)
  BY DEF Appended
<1> HIDE DEF at
<1>5. at \in Nat /\ at <= at /\ at <= Len(T)
  BY <1>2, <1>3, <1>1
<1>6. Replaced(T, Splice(T, at, at, p), at, at, Written(T, at, p))
  BY <1>5, ReplacedIs
<1> QED
  BY <1>4, <1>5, <1>6 DEF Replacing

LEMMA TopsWith ==
  ASSUME NEW T \in Notes, NEW b \in Notes, \A i \in 1 .. Len(b) : b[i].cr = FirstEol(T)
  PROVE  Topping(T, OnTop(T, b))
BY OnTopIs DEF Topping

LEMMA EditForms ==
  ASSUME NEW T \in Notes, NEW U, Edits(T, U)
  PROVE  Formed(T, U)
<1>0. \A p \in Payloads : p \in Seq(Bodies) /\ p # <<>>
  BY NotesAssumption
<1>9. T \in Seq(LineSet) /\ T # <<>> /\ FirstEol(T) \in BOOLEAN
  BY FirstEolIs DEF Notes
<1>10. Keys \subseteq STRING /\ Forms \subseteq Seq(Signs)
  BY NotesAssumption, FormsAreText
<1>1. ASSUME NEW s \in ToSet(Parse(T)), NEW p \in Payloads
      PROVE  Replacing(T, Patched(T, s, p))
  <2>1. p \in Seq(Bodies) /\ p # <<>>
    BY <1>0
  <2>2. /\ Replaced(T, Patched(T, s, p), s.start, s.end, Written(T, s.end, PatchBody(s, p)))
        /\ PatchBody(s, p) \in Seq(Bodies)
        /\ s.start \in Nat /\ s.end \in Nat /\ s.start <= s.end /\ s.end <= Len(T)
    BY <2>1, PatchedIs
  <2> QED
    BY <2>2 DEF Replacing
<1>2. ASSUME NEW s \in ToSet(Parse(T)), NEW p \in Payloads
      PROVE  Replacing(T, Appended(T, s, p, s.end))
  <2>1. s.end \in Nat /\ s.start <= s.end /\ s.end <= Len(T)
    BY <1>9, SectionIs
  <2> QED
    BY <1>0, <2>1, AppendedReplaces
<1>3. ASSUME NEW p \in Payloads
      PROVE  Ending(T, AtEof(T, p))
  BY <1>0, AtEofIs DEF Ending
<1>4. ASSUME NEW p \in Payloads
      PROVE  Splitting(T, Below(T, p)) \/ Topping(T, Below(T, p))
  <2>1. CASE HasFm(T)
    BY <1>0, <2>1, BelowIs DEF Splitting
  <2>2. CASE ~HasFm(T)
    <3> DEFINE b == Lines(p, FirstEol(T))
    <3>1. Below(T, p) = OnTop(T, b)
      BY <2>2 DEF Below
    <3>3. /\ b \in Seq(LineSet) /\ Len(b) = Len(p)
          /\ \A i \in 1 .. Len(p) : b[i] = Line(p[i], FirstEol(T))
      BY <1>0, <1>9, LinesIs
    <3>4. Len(p) # 0
      BY <1>0, EmptySeq
    <3> HIDE DEF b
    <3>5. b \in Notes
      BY <3>3, <3>4, EmptySeq DEF Notes
    <3>6. \A i \in 1 .. Len(b) : b[i].cr = FirstEol(T)
      <4> TAKE i \in 1 .. Len(b)
      <4>1. i \in 1 .. Len(p) /\ Line(p[i], FirstEol(T)).cr = FirstEol(T)
        BY <3>3 DEF Line
      <4> QED
        BY <4>1, <3>3
    <3> QED
      BY <3>1, <3>5, <3>6, TopsWith
  <2> QED
    BY <2>1, <2>2
<1>5. ASSUME NEW p \in Payloads
      PROVE  Ending(T, AppendedToday(T, p)) \/ Replacing(T, AppendedToday(T, p))
  <2>1. CASE Todays(T) = {}
    BY <2>1, <1>3 DEF AppendedToday
  <2>2. CASE Todays(T) # {}
    <3> DEFINE sec == TheOnly(Todays(T))
               end == TodayEnd(T, sec)
    <3>1. /\ sec \in ToSet(Parse(T)) /\ IsKind(T[sec.start + 1], "heading")
          /\ end \in sec.start + 1 .. Len(T)
      BY <2>2, TodayEndIs
    <3>2. AppendedToday(T, p) = Appended(T, sec, p, end)
      BY <2>2 DEF AppendedToday
    <3> HIDE DEF sec, end
    <3>3. sec.start \in Nat /\ Len(T) \in Nat
      BY <1>9, <3>1, SectionIs
    <3>4. end \in Nat /\ sec.start <= end /\ end <= Len(T)
      BY <3>1, <3>3
    <3>5. Replacing(T, Appended(T, sec, p, end))
      BY <1>0, <3>1, <3>4, AppendedReplaces
    <3> QED
      BY <3>2, <3>5
  <2> QED
    BY <2>1, <2>2
<1>6. ASSUME NEW k \in Keys, HasFm(T)
      PROVE  Clearing(T, Unassigned(T, k))
  BY <1>6, UnassignedIs DEF Clearing
<1>7. ASSUME NEW k \in Keys, NEW v \in Forms
      PROVE  \/ Setting(T, Assigned(T, k, v)) \/ Adding(T, Assigned(T, k, v))
             \/ Topping(T, Assigned(T, k, v))
  <2>0. k \in STRING /\ v \in Seq(Signs)
    BY <1>10
  <2>1. CASE HasFm(T)
    BY <2>0, <2>1, AssignedIs DEF Setting, Adding
  <2>2. CASE ~HasFm(T)
    <3> DEFINE b == PropBlock(k, v, FirstEol(T))
    <3>1. Assigned(T, k, v) = OnTop(T, b)
      BY <2>2 DEF Assigned
    <3>2. /\ b \in Notes /\ Len(b) = 3
          /\ b[1] = Line(Rule, FirstEol(T)) /\ b[2] = Line(Prop(k, v), FirstEol(T))
          /\ b[3] = Line(Rule, FirstEol(T))
      BY <1>9, <2>0, PropBlockIs
    <3> HIDE DEF b
    <3>3. b[1].cr = FirstEol(T) /\ b[2].cr = FirstEol(T) /\ b[3].cr = FirstEol(T)
      BY <3>2 DEF Line
    <3>4. \A i \in 1 .. 3 : b[i].cr = FirstEol(T)
      BY <3>3
    <3>5. \A i \in 1 .. Len(b) : b[i].cr = FirstEol(T)
      BY <3>2, <3>4
    <3> QED
      BY <3>1, <3>2, <3>5, TopsWith
  <2> QED
    BY <2>1, <2>2
<1> QED
  BY <1>1, <1>2, <1>3, <1>4, <1>5, <1>6, <1>7 DEF Edits, Formed

LEMMA ReplacingKeepsStyle ==
  ASSUME NEW T \in Notes, Len(T) > 1, Regular(T), NEW cr \in BOOLEAN, OfStyle(T, cr),
         NEW U, Replacing(T, U)
  PROVE  OfStyle(U, cr) \/ Overruns(T, U)
<1> DEFINE n == Len(T)
<1>1. PICK a \in Nat, b \in Nat, new \in Seq(Bodies) :
        a <= b /\ b <= Len(T) /\ Replaced(T, U, a, b, Written(T, b, new))
  BY DEF Replacing
<1> DEFINE body == Written(T, b, new)
<1>2. /\ T \in Seq(LineSet) /\ T # <<>> /\ n \in Nat /\ T[n].cr = FALSE /\ T[n] = Last(T)
      /\ U \in Seq(LineSet) /\ Len(U) \in Nat
      /\ body \in Seq(Bodies)
  <2>1. T \in Seq(LineSet) /\ T # <<>> /\ n \in Nat /\ U \in Seq(LineSet) /\ Len(U) \in Nat
        /\ body \in Seq(Bodies)
    BY <1>1 DEF Notes, Replaced
  <2>2. T[n] = Last(T) /\ T[n].cr \in BOOLEAN
    BY LastLine
  <2> QED
    BY <2>1, <2>2 DEF Regular
<1> HIDE DEF body
<1>3. CASE a + Len(body) + (n - b) = 0
  <2>1. U = <<NoLine>>
    BY <1>1, <1>3 DEF Replaced, body
  <2> QED
    BY <2>1 DEF OfStyle
<1>4. CASE a + Len(body) + (n - b) > 0
  <2>1. PICK p, s, c : Spliced(T, U, a, b, body, p, s, c)
    BY <1>1, <1>4 DEF Replaced, body
  <2> DEFINE N == a + Len(body) + (n - b)
  <2>2. /\ p \in Nat /\ s \in Nat /\ p + s <= b - a /\ p + s <= Len(body) /\ Len(U) = N
        /\ c = Terminator(T, a + p, p < b - a - s)
        /\ \A i \in 1 .. a + p :
             /\ U[i].body = T[i].body /\ U[i].bom = T[i].bom
             /\ \/ U[i].cr = T[i].cr
                \/ i = n /\ ClosesLast(T, a, body, p, s) /\ InsertCr(T, n - 1)
                \/ (i = N /\ OpensLast(T, a, b, body, p, s))
        /\ \A i \in a + p + 1 .. a + Len(body) - s :
             U[i].cr = c \/ (i = N /\ OpensLast(T, a, b, body, p, s))
        /\ \A i \in a + Len(body) - s + 1 .. N : U[i] = T[i - Len(body) - a + b]
        /\ ClosesLast(T, a, body, p, s) /\ InsertCr(T, n - 1) => U[n].cr
    BY <2>1 DEF Spliced
  <2>3. a + p \in 0 .. n /\ n - 1 \in 0 .. n
    BY <1>1, <1>2, <2>2
  <2>4. /\ c = cr
        /\ InsertCr(T, n - 1) = cr
    <3>0. (p < b - a - s) \in BOOLEAN
      OBVIOUS
    <3>1. PICK x \in BOOLEAN : x = (p < b - a - s)
      BY <3>0
    <3>2. Terminator(T, a + p, x) = cr /\ InsertCr(T, n - 1) = cr
      BY <1>2, <2>3, StyleTerminators
    <3> QED
      BY <2>2, <3>1, <3>2
  <2>5. \A i \in 1 .. n - 1 : T[i].cr = cr
    BY DEF OfStyle
  <2>6. \A i \in 1 .. N : i <= n => U[i].cr \in BOOLEAN /\ T[i].cr \in BOOLEAN /\ T[i] \in LineSet /\ U[i] \in LineSet
    <3>1. \A i \in 1 .. n : T[i] \in LineSet /\ T[i].cr \in BOOLEAN
      BY <1>2, TextLines
    <3>2. \A i \in 1 .. Len(U) : U[i] \in LineSet /\ U[i].cr \in BOOLEAN
      BY <1>2, TextLines
    <3> QED
      BY <3>1, <3>2, <2>2
  <2>7. Len(body) \in Nat /\ N \in Nat
    BY <1>2, <1>1
  <2>8. CASE a + p = n /\ n < N
    <3>1. b = n /\ s = 0 /\ p + s < Len(body)
      BY <2>8, <2>2, <2>7, <1>1, <1>2
    <3>2. CASE EndsInNewline(T)
      <4>1. ~ClosesLast(T, a, body, p, s)
        BY <3>2 DEF ClosesLast
      <4>2. \A i \in 1 .. n : U[i].body = T[i].body /\ U[i].bom = T[i].bom /\ U[i].cr = T[i].cr
        BY <4>1, <2>2, <2>8, <2>7, <1>2
      <4>3. \A i \in 1 .. n : U[i] = T[i]
        <5> TAKE i \in 1 .. n
        <5>1. i \in 1 .. N /\ i <= n
          BY <2>8, <2>7, <1>2
        <5>2. U[i] \in LineSet /\ T[i] \in LineSet
          BY <5>1, <2>6
        <5> QED
          BY <5>2, <4>2, LinesAreEqual
      <4>4. SubSeq(U, 1, n) = T
        <5>1. n <= Len(U)
          BY <2>8, <2>2, <2>7, <1>2
        <5>2. /\ SubSeq(U, 1, n) \in Seq(LineSet) /\ Len(SubSeq(U, 1, n)) = n
              /\ \A i \in 1 .. n : SubSeq(U, 1, n)[i] = U[i]
          BY <5>1, <1>2, PrefixIs
        <5> HIDE DEF n
        <5>3. Len(SubSeq(U, 1, n)) = Len(T) /\ \A i \in 1 .. Len(T) : SubSeq(U, 1, n)[i] = T[i]
          BY <5>2, <4>3 DEF n
        <5> QED
          BY <5>2, <5>3, <1>2, SameLines
      <4> QED
        BY <3>2, <4>4, <2>8, <2>2 DEF Overruns
    <3>3. CASE ~EndsInNewline(T)
      <4>1. ClosesLast(T, a, body, p, s)
        BY <3>1, <3>3, <2>8 DEF ClosesLast
      <4>2. U[n].cr = cr
        <5>1. CASE cr
          BY <5>1, <4>1, <2>2, <2>4, <2>6, <2>8, <2>7, <1>2
        <5>2. CASE ~cr
          <6>1. n \in 1 .. a + p
            BY <2>8, <1>2
          <6>3. ~InsertCr(T, n - 1)
            BY <5>2, <2>4
          <6>4. n # N
            BY <2>8, <2>7, <1>2
          <6>2. U[n].cr = T[n].cr
            BY <6>1, <6>3, <6>4, <2>2
          <6> QED
            BY <6>2, <1>2, <5>2
        <5> QED
          BY <5>1, <5>2
      <4>3. \A i \in 1 .. N - 1 : U[i].cr = cr
        <5> TAKE i \in 1 .. N - 1
        <5>1. CASE i < n
          <6>1. i \in 1 .. a + p /\ i # n /\ i # N /\ i \in 1 .. n - 1
            BY <5>1, <2>8, <2>7, <1>2
          <6> QED
            BY <6>1, <2>2, <2>5
        <5>2. CASE i = n
          BY <5>2, <4>2
        <5>3. CASE i > n
          <6>1. i \in a + p + 1 .. a + Len(body) - s /\ i # N
            <7>1. a + Len(body) - s = N
              BY <3>1, <2>7, <1>2
            <7> QED
              BY <7>1, <5>3, <2>8, <2>7, <1>2
          <6> QED
            BY <6>1, <2>2, <2>4
        <5> QED
          BY <5>1, <5>2, <5>3, <1>2, <2>7
      <4> QED
        BY <4>3, <2>2 DEF OfStyle
    <3> QED
      BY <3>2, <3>3
  <2>9. CASE ~(a + p = n /\ n < N)
    <3>1. \A i \in 1 .. N - 1 : U[i].cr = cr
      <4> TAKE i \in 1 .. N - 1
      <4>1. CASE i <= a + p
        <5>1. i \in 1 .. a + p /\ i # n /\ i # N /\ i \in 1 .. n - 1
          BY <4>1, <2>9, <2>3, <2>7, <1>2, <2>2, SMTT(30)
        <5> QED
          BY <5>1, <2>2, <2>5
      <4>2. CASE a + p < i /\ i <= a + Len(body) - s
        <5>1. i \in a + p + 1 .. a + Len(body) - s /\ i # N
          BY <4>2, <2>7, <2>2, <1>1, <1>2
        <5> QED
          BY <5>1, <2>2, <2>4
      <4>3. CASE a + Len(body) - s < i
        <5>1. i \in a + Len(body) - s + 1 .. N
          BY <4>3, <2>7, <2>2, <1>1
        <5>2. i - Len(body) - a + b \in 1 .. n - 1
          BY <4>3, <2>7, <2>2, <1>1, <1>2
        <5> QED
          BY <5>1, <5>2, <2>2, <2>5
      <4> QED
        BY <4>1, <4>2, <4>3, <2>7, <2>2, <1>1
    <3> QED
      BY <3>1, <2>2 DEF OfStyle
  <2> QED
    BY <2>8, <2>9
<1>5. Len(body) \in Nat
  BY <1>2
<1>6. a + Len(body) + (n - b) = 0 \/ a + Len(body) + (n - b) > 0
  BY <1>1, <1>2, <1>5
<1> QED
  BY <1>3, <1>4, <1>6

\* The other forms keep the style of a note.
LEMMA OthersKeepStyle ==
  ASSUME NEW T \in Notes, Len(T) > 1, NEW cr \in BOOLEAN, OfStyle(T, cr), NEW U
  PROVE  /\ Ending(T, U) => OfStyle(U, cr)
         /\ Splitting(T, U) => OfStyle(U, cr)
         /\ Topping(T, U) => OfStyle(U, cr)
         /\ Setting(T, U) => OfStyle(U, cr)
         /\ Adding(T, U) => OfStyle(U, cr)
         /\ Clearing(T, U) => OfStyle(U, cr)
<1> DEFINE n == Len(T)
<1>1. /\ n \in Nat /\ n > 1 /\ T \in Seq(LineSet) /\ T # <<>>
      /\ \A i \in 1 .. n : T[i].cr \in BOOLEAN
      /\ \A i \in 1 .. n - 1 : T[i].cr = cr
  BY TextLines DEF Notes, OfStyle
<1>2. LastEol(T) = cr
  <2>1. 0 \in 0 .. n
    BY <1>1
  <2>2. PICK x \in BOOLEAN : x = TRUE
    OBVIOUS
  <2> QED
    BY <1>1, <2>1, <2>2, StyleTerminators
<1>3. FirstEol(T) = cr
  <2>1. FirstEol(T) \in BOOLEAN
    BY FirstEolIs
  <2>2. T[1].cr = cr
    BY <1>1
  <2> QED
    BY <2>1, <2>2, <1>1 DEF FirstEol
<1>4. HasFm(T) => FmEnd(T) \in 3 .. n
  BY <1>1, FmEndIs DEF HasFm
<1>5. \A c : Line(c, cr).cr = cr
  BY DEF Line
<1> HIDE DEF n
<1>6. ASSUME Ending(T, U) PROVE OfStyle(U, cr)
  <2>0. PICK p \in Seq(Bodies) : \E m : AtEnd(T, U, p, m, LastEol(T))
    BY <1>6 DEF Ending
  <2>1. PICK m : AtEnd(T, U, p, m, LastEol(T))
    BY <2>0
  <2> DEFINE k == Len(p)
  <2>2. /\ \A i \in 1 .. n - 1 : U[i] = T[i]
        /\ m = n => U[m].cr = cr
        /\ \A i \in 1 .. k : U[m + i] = Line(p[i], cr)
    BY <2>1, <1>2 DEF AtEnd, n
  <2>3. m \in Nat /\ k \in Nat /\ Len(U) = m + k + 1 /\ (m = n - 1 \/ m = n)
    BY <2>1, <1>1 DEF AtEnd, n
  <2> HIDE DEF k
  <2>4. ASSUME NEW i \in 1 .. Len(U) - 1 PROVE U[i].cr = cr
    <3>1. CASE i <= n - 1
      <4>1. i \in 1 .. n - 1
        BY <3>1, <1>1, <2>3
      <4> QED
        BY <4>1, <2>2, <1>1
    <3>2. CASE i > n - 1 /\ i <= m
      <4>1. i = m /\ m = n
        BY <3>2, <2>3, <1>1
      <4> QED
        BY <4>1, <2>2
    <3>3. CASE i > m
      <4>1. i - m \in 1 .. k /\ m + (i - m) = i
        BY <3>3, <2>3
      <4>2. U[m + (i - m)] = Line(p[i - m], cr)
        BY <4>1, <2>2
      <4> QED
        BY <4>1, <4>2, <1>5
    <3> QED
      BY <3>1, <3>2, <3>3, <2>3, <1>1
  <2> QED
    BY <2>4 DEF OfStyle
<1>7. ASSUME Splitting(T, U) PROVE OfStyle(U, cr)
  <2> DEFINE j == FmEnd(T)
  <2>1. HasFm(T)
    BY <1>7 DEF Splitting
  <2>2. PICK p \in Seq(Bodies), eol \in BOOLEAN : Split(T, U, p, j, eol)
    BY <1>7 DEF Splitting
  <2>3. j \in 3 .. n
    BY <2>1, <1>4
  <2> DEFINE k == Len(p)
  <2> HIDE DEF j
  <2>4. k \in Nat
    OBVIOUS
  <2> HIDE DEF k
  <2>5. eol = cr
    <3>1. IsRule(T[j]) /\ j < n => T[j].cr = cr
      BY <2>3, <1>1
    <3> QED
      BY <2>2, <3>1, <1>2 DEF Split, n
  <2>6. PICK d \in 0 .. 1 :
          /\ d = IF IsRule(T[j]) /\ j < n THEN 0 ELSE 1
          /\ Len(U) = n + k + d
          /\ \A i \in 1 .. j - 1 : U[i] = T[i]
          /\ U[j] = Line(Rule, cr)
          /\ \A i \in 1 .. k : U[j + i] = Line(p[i], cr)
          /\ d = 0 => \A i \in j + 1 .. n : U[k + i] = T[i]
          /\ d = 1 => /\ U[k + 1 + j] = Undashed(T[j])
                      /\ \A i \in j + 1 .. n : U[k + 1 + i] = T[i]
    <3>1. CASE IsRule(T[j]) /\ j < n
      BY <3>1, <2>2, <2>5 DEF Split, n, k
    <3>2. CASE ~(IsRule(T[j]) /\ j < n)
      BY <3>2, <2>2, <2>5 DEF Split, n, k
    <3> QED
      BY <3>1, <3>2
  <2>7. j < n => Undashed(T[j]).cr = cr
    <3>1. T[j] \in LineSet
      BY <2>3, <1>1 DEF n
    <3>2. IsKind(T[j], "dashes")
      BY <2>1, FmEndIs, <1>1 DEF HasFm, j
    <3>3. Undashed(T[j]).cr = T[j].cr
      BY <3>1, <3>2, UndashedIs DEF IsKind
    <3> QED
      BY <3>3, <2>3, <1>1
  <2>8. ASSUME NEW i \in 1 .. Len(U) - 1 PROVE U[i].cr = cr
    <3>0. i \in 1 .. n + k + d - 1 /\ n \in Nat /\ k \in Nat /\ j \in 3 .. n
      BY <2>6, <1>1, <2>4, <2>3
    <3>1. CASE i <= j - 1
      <4>1. i \in 1 .. j - 1 /\ i \in 1 .. n - 1
        BY <3>0, <3>1
      <4> QED
        BY <4>1, <2>6, <1>1
    <3>2. CASE i = j
      BY <3>2, <2>6, <1>5
    <3>3. CASE j < i /\ i <= j + k
      <4>1. i - j \in 1 .. k /\ j + (i - j) = i
        BY <3>0, <3>3
      <4>2. U[j + (i - j)] = Line(p[i - j], cr)
        BY <4>1, <2>6
      <4> QED
        BY <4>1, <4>2, <1>5
    <3>4. CASE j + k < i /\ d = 0
      <4>1. i - k \in j + 1 .. n /\ i - k \in 1 .. n - 1 /\ k + (i - k) = i
        BY <3>0, <3>4
      <4>2. U[k + (i - k)] = T[i - k]
        BY <4>1, <2>6, <3>4
      <4> QED
        BY <4>1, <4>2, <1>1
    <3>5. CASE i = j + k + 1 /\ d = 1
      <4>1. j < n
        BY <3>0, <3>5
      <4>2. i = k + 1 + j
        BY <3>0, <3>5
      <4> QED
        BY <4>1, <4>2, <3>5, <2>6, <2>7
    <3>6. CASE j + k + 1 < i /\ d = 1
      <4>1. i - k - 1 \in j + 1 .. n /\ i - k - 1 \in 1 .. n - 1 /\ k + 1 + (i - k - 1) = i
        BY <3>0, <3>6
      <4>2. U[k + 1 + (i - k - 1)] = T[i - k - 1]
        BY <4>1, <2>6, <3>6
      <4> QED
        BY <4>1, <4>2, <1>1
    <3>7. d = 0 \/ d = 1
      OBVIOUS
    <3>8. i <= j - 1 \/ i = j \/ (j < i /\ i <= j + k) \/ i = j + k + 1 \/ j + k + 1 < i
      BY <3>0
    <3>9. i = j + k + 1 \/ j + k + 1 < i => j + k < i
      BY <3>0
    <3> QED
      BY <3>1, <3>2, <3>3, <3>4, <3>5, <3>6, <3>7, <3>8, <3>9
  <2> QED
    BY <2>8 DEF OfStyle
<1>8. ASSUME Topping(T, U) PROVE OfStyle(U, cr)
  <2>1. PICK b \in Notes : Topped(T, U, b) /\ \A i \in 1 .. Len(b) : b[i].cr = cr
    BY <1>8, <1>3 DEF Topping
  <2> DEFINE k == Len(b)
  <2>2. k \in Nat \ {0}
    BY LastLine
  <2>3. /\ Len(U) = k + n /\ U[1].cr = b[1].cr
        /\ \A i \in 2 .. k : U[i] = b[i]
        /\ U[k + 1].cr = T[1].cr
        /\ \A i \in 2 .. n : U[k + i] = T[i]
    BY <2>1 DEF Topped, n
  <2>4. \A i \in 1 .. k : b[i].cr = cr
    BY <2>1
  <2> HIDE DEF k
  <2>5. ASSUME NEW i \in 1 .. Len(U) - 1 PROVE U[i].cr = cr
    <3>0. i \in 1 .. k + n - 1
      BY <2>3, <2>2, <1>1
    <3>1. CASE i = 1
      <4>1. 1 \in 1 .. k
        BY <2>2
      <4> QED
        BY <3>1, <2>3, <4>1, <2>4
    <3>2. CASE i > 1 /\ i <= k
      <4>1. i \in 2 .. k /\ i \in 1 .. k
        BY <3>0, <3>2, <2>2
      <4> QED
        BY <4>1, <2>3, <2>4
    <3>3. CASE i = k + 1
      BY <3>3, <2>3, <1>1
    <3>4. CASE i > k + 1
      <4>1. i - k \in 2 .. n /\ i - k \in 1 .. n - 1 /\ k + (i - k) = i
        BY <3>0, <3>4, <2>2, <1>1
      <4>2. U[k + (i - k)] = T[i - k]
        BY <4>1, <2>3
      <4> QED
        BY <4>1, <4>2, <1>1
    <3> QED
      BY <3>0, <3>1, <3>2, <3>3, <3>4, <2>2, <1>1
  <2> QED
    BY <2>5 DEF OfStyle
<1>9. ASSUME Setting(T, U) PROVE OfStyle(U, cr)
  <2>1. PICK k, c : \E x \in KeyLines(T, k) : SetLine(T, U, x, c)
    BY <1>9 DEF Setting
  <2>2. PICK x \in KeyLines(T, k) : SetLine(T, U, x, c)
    BY <2>1
  <2>3. /\ Len(U) = n /\ U[x].cr = T[x].cr
        /\ \A i \in 1 .. n : i # x => U[i] = T[i]
    BY <2>2 DEF SetLine, n
  <2>4. \A i \in 1 .. Len(U) - 1 : U[i].cr = cr
    <3> TAKE i \in 1 .. Len(U) - 1
    <3>1. i \in 1 .. n - 1 /\ i \in 1 .. n
      BY <2>3, <1>1
    <3> QED
      BY <3>1, <2>3, <1>1
  <2> QED
    BY <2>4 DEF OfStyle
<1>10. ASSUME Adding(T, U) PROVE OfStyle(U, cr)
  <2> DEFINE j == FmEnd(T)
  <2>1. PICK c : NewLine(T, U, j, Line(c, T[j - 1].cr))
    BY <1>10 DEF Adding
  <2>2. j \in 3 .. n
    BY <1>10, <1>4 DEF Adding
  <2> HIDE DEF j
  <2>3. T[j - 1].cr = cr
    BY <2>2, <1>1
  <2>4. /\ Len(U) = n + 1 /\ U[j] = Line(c, cr)
        /\ \A i \in 1 .. j - 1 : U[i] = T[i]
        /\ \A i \in j .. n : U[i + 1] = T[i]
    BY <2>1, <2>3 DEF NewLine, n
  <2>5. ASSUME NEW i \in 1 .. Len(U) - 1 PROVE U[i].cr = cr
    <3>0. i \in 1 .. n
      BY <2>4, <1>1
    <3>1. CASE i < j
      <4>1. i \in 1 .. j - 1 /\ i \in 1 .. n - 1
        BY <3>0, <3>1, <2>2, <1>1
      <4> QED
        BY <4>1, <2>4, <1>1
    <3>2. CASE i = j
      BY <3>2, <2>4, <1>5
    <3>3. CASE i > j
      <4>1. i - 1 \in j .. n /\ i - 1 \in 1 .. n - 1 /\ (i - 1) + 1 = i
        BY <3>0, <3>3, <2>2, <1>1
      <4>2. U[(i - 1) + 1] = T[i - 1]
        BY <4>1, <2>4
      <4> QED
        BY <4>1, <4>2, <1>1
    <3> QED
      BY <3>0, <3>1, <3>2, <3>3, <2>2
  <2> QED
    BY <2>5 DEF OfStyle
<1>11. ASSUME Clearing(T, U) PROVE OfStyle(U, cr)
  <2> DEFINE j == FmEnd(T)
  <2>1. PICK k, idx : Cleared(T, U, k, idx)
    BY <1>11 DEF Clearing
  <2>2. j \in 3 .. n
    BY <1>11, <1>4 DEF Clearing
  <2> DEFINE S == {i \in 1 .. j - 2 : ~HasKey(T[i + 1], k)}
             m == IF Len(idx) = 0 THEN 1 ELSE Len(idx)
  <2>3. /\ Lists(idx, S) /\ Len(U) = 1 + m + (n - j + 1) /\ U[1] = T[1]
        /\ Len(idx) = 0 => U[2] = Line(Blank, T[j - 1].cr)
        /\ \A i \in 1 .. Len(idx) : U[1 + i] = T[1 + idx[i]]
        /\ \A i \in j .. n : U[2 + m + (i - j)] = T[i]
    BY <2>1 DEF Cleared, n, j
  <2>4. Len(idx) \in Nat /\ \A i \in 1 .. Len(idx) : idx[i] \in S
    BY <2>3 DEF Lists
  <2>5. \A i \in 1 .. Len(idx) : idx[i] \in 1 .. j - 2
    BY <2>4
  <2> HIDE DEF j, S
  <2>6. m \in Nat \ {0} /\ (Len(idx) = 0 => m = 1) /\ (Len(idx) # 0 => m = Len(idx))
    BY <2>4
  <2> HIDE DEF m
  <2>7. ASSUME NEW i \in 1 .. Len(U) - 1 PROVE U[i].cr = cr
    <3>0. i \in 1 .. 1 + m + (n - j)
      BY <2>3, <1>1, <2>2, <2>6
    <3>1. CASE i = 1
      BY <3>1, <2>3, <1>1
    <3>2. CASE i > 1 /\ i <= 1 + m /\ Len(idx) = 0
      <4>1. i = 2 /\ T[j - 1].cr = cr
        BY <3>0, <3>2, <2>6, <2>2, <1>1
      <4> QED
        BY <4>1, <3>2, <2>3, <1>5
    <3>3. CASE i > 1 /\ i <= 1 + m /\ Len(idx) # 0
      <4>1. i - 1 \in 1 .. Len(idx) /\ 1 + (i - 1) = i
        BY <3>0, <3>3, <2>6, <2>4
      <4>2. idx[i - 1] \in 1 .. j - 2
        BY <4>1, <2>5
      <4>3. 1 + idx[i - 1] \in 1 .. n - 1
        BY <4>2, <2>2, <1>1
      <4>4. U[1 + (i - 1)] = T[1 + idx[i - 1]]
        BY <4>1, <2>3
      <4> QED
        BY <4>1, <4>3, <4>4, <1>1
    <3>4. CASE i > 1 + m
      <4> DEFINE x == i - 2 - m + j
      <4>1. x \in j .. n /\ x \in 1 .. n - 1 /\ 2 + m + (x - j) = i
        BY <3>0, <3>4, <2>6, <2>2, <1>1
      <4>2. U[2 + m + (x - j)] = T[x]
        BY <4>1, <2>3
      <4> QED
        BY <4>1, <4>2, <1>1
    <3>5. i = 1 \/ (i > 1 /\ i <= 1 + m) \/ i > 1 + m
      BY <3>0, <2>6
    <3> QED
      BY <3>1, <3>2, <3>3, <3>4, <3>5
  <2> QED
    BY <2>7 DEF OfStyle
<1> QED
  BY <1>6, <1>7, <1>8, <1>9, <1>10, <1>11

\* A note with one style of line ends keeps it, whatever command edits it,
\* but where patch overruns the end.
THEOREM OneStyleStaysHolds == Spec => OneStyleStays
<1>1. NoteIsText /\ [Next]_vars =>
        [note # Absent /\ Len(note) > 1 /\ Regular(note) =>
          \A cr \in BOOLEAN :
            OfStyle(note, cr) => OfStyle(note', cr) \/ Overruns(note, note')]_note
  <2> SUFFICES ASSUME NoteIsText, [Next]_vars, note' # note, note # Absent,
                      Len(note) > 1, Regular(note), NEW cr \in BOOLEAN,
                      OfStyle(note, cr)
               PROVE  OfStyle(note', cr) \/ Overruns(note, note')
    OBVIOUS
  <2>1. note \in Notes
    BY DEF NoteIsText
  <2>2. Next
    BY DEF vars
  <2>3. Formed(note, note')
    BY <2>1, <2>2, NextEdits, EditForms
  <2>4. Replacing(note, note') => OfStyle(note', cr) \/ Overruns(note, note')
    BY <2>1, ReplacingKeepsStyle
  <2> QED
    BY <2>1, <2>3, <2>4, OthersKeepStyle DEF Formed
<1> QED
  BY <1>1, TypeHolds, PTL DEF Spec, OneStyleStays

----------------------------------------------------------------------------
(* The final newline.                                                      *)

LEMMA ReplacingEndsInNewline ==
  ASSUME NEW T \in Notes, EndsInNewline(T), OfStyle(T, FALSE), NEW U, Replacing(T, U)
  PROVE  EndsInNewline(U)
<1> DEFINE n == Len(T)
<1>1. PICK a \in Nat, b \in Nat, new \in Seq(Bodies) :
        a <= b /\ b <= Len(T) /\ Replaced(T, U, a, b, Written(T, b, new))
  BY DEF Replacing
<1> DEFINE body == Written(T, b, new)
<1>2. /\ T \in Seq(LineSet) /\ T # <<>> /\ n \in Nat \ {0} /\ T[n] = NoLine
      /\ U \in Notes /\ U \in Seq(LineSet) /\ Len(U) \in Nat \ {0} /\ Last(U) = U[Len(U)]
      /\ U[Len(U)] \in LineSet
      /\ body \in Seq(Bodies) /\ Len(body) \in Nat
  <2>1. T \in Seq(LineSet) /\ T # <<>> /\ U \in Notes /\ U \in Seq(LineSet)
        /\ body \in Seq(Bodies) /\ Len(body) \in Nat
    BY <1>1 DEF Notes, Replaced
  <2>2. /\ n \in Nat \ {0} /\ T[n] = Last(T)
        /\ Len(U) \in Nat \ {0} /\ Last(U) = U[Len(U)] /\ U[Len(U)] \in LineSet
    BY <2>1, LastLine
  <2> QED
    BY <2>1, <2>2 DEF EndsInNewline
<1>3. b >= n => body # <<>> /\ Last(body) = Blank
  BY <1>2, EndAsIs DEF Written
<1>20. b >= n => Len(body) > 0 /\ body[Len(body)] = Blank
  <2> HIDE DEF body
  <2> SUFFICES ASSUME b >= n PROVE Len(body) > 0 /\ body[Len(body)] = Blank
    OBVIOUS
  <2>1. body # <<>> /\ Last(body) = Blank /\ body \in Seq(Bodies)
    BY <1>2, <1>3
  <2>2. Len(body) \in Nat \ {0} /\ Last(body) = body[Len(body)]
    BY <2>1, LastAndFront
  <2> QED
    BY <2>1, <2>2
<1> HIDE DEF body
<1>4. CASE a + Len(body) + (n - b) = 0
  <2>1. U = <<NoLine>>
    BY <1>1, <1>4 DEF Replaced, body
  <2> QED
    BY <2>1, <1>2 DEF EndsInNewline
<1>5. CASE a + Len(body) + (n - b) > 0
  <2>1. PICK p, s, c : Spliced(T, U, a, b, body, p, s, c)
    BY <1>1, <1>5 DEF Replaced, body
  <2> DEFINE N == a + Len(body) + (n - b)
  <2>0. ~OpensLast(T, a, b, body, p, s) /\ ~ClosesLast(T, a, body, p, s)
    BY DEF OpensLast, ClosesLast
  <2>2. /\ p \in Nat /\ s \in Nat /\ p + s <= b - a /\ p + s <= Len(body) /\ Len(U) = N
        /\ c = Terminator(T, a + p, p < b - a - s)
        /\ \A i \in 1 .. p : SameContent(T[a + i], body[i])
        /\ \A i \in 1 .. a + p :
             /\ U[i].body = T[i].body /\ U[i].bom = T[i].bom
             /\ U[i].cr = T[i].cr
        /\ \A i \in a + p + 1 .. a + Len(body) - s :
             U[i].body = body[i - a] /\ U[i].bom = FALSE /\ U[i].cr = c
        /\ \A i \in a + Len(body) - s + 1 .. N : U[i] = T[i - Len(body) - a + b]
    BY <2>1, <2>0 DEF Spliced
  <2>3. a + p \in 0 .. n
    BY <1>1, <1>2, <2>2
  <2>4. c = FALSE
    <3>0. (p < b - a - s) \in BOOLEAN
      OBVIOUS
    <3>1. PICK x \in BOOLEAN : x = (p < b - a - s)
      BY <3>0
    <3>3. PICK f \in BOOLEAN : f = FALSE
      OBVIOUS
    <3>2. Terminator(T, a + p, x) = FALSE
      <4>1. CASE n = 1
        BY <4>1, <1>2, <2>3, StyleTerminators
      <4>2. CASE n > 1
        <5>1. OfStyle(T, f)
          BY <3>3
        <5>2. Terminator(T, a + p, x) = f
          BY <4>2, <5>1, <1>2, <2>3, StyleTerminators
        <5> QED
          BY <5>2, <3>3
      <4>3. n = 1 \/ n > 1
        <5> HIDE DEF n
        <5> QED
          BY <1>2
      <4> QED
        BY <4>1, <4>2, <4>3
    <3> QED
      BY <2>2, <3>1, <3>2
  <2>5. NoLine.body = Blank /\ NoLine.bom = FALSE /\ NoLine.cr = FALSE /\ NoLine \in LineSet
    BY BlankIsABody DEF NoLine, Line
  <2>6. CASE b < n \/ s > 0
    <3>1. N \in a + Len(body) - s + 1 .. N /\ N - Len(body) - a + b = n
      BY <2>6, <1>1, <1>2, <2>2
    <3>2. U[N] = T[n]
      BY <3>1, <2>2
    <3> QED
      BY <3>2, <2>2, <1>2 DEF EndsInNewline
  <2>7. CASE b = n /\ s = 0 /\ p < Len(body)
    <3>1. N \in a + p + 1 .. a + Len(body) - s /\ N - a = Len(body)
      <4>1. /\ a \in Nat /\ p \in Nat /\ Len(body) \in Nat /\ p < Len(body)
            /\ s = 0 /\ b = n /\ n \in Nat
        BY <2>7, <1>1, <1>2, <2>2
      <4> HIDE DEF n
      <4>2. N = a + Len(body)
        BY <4>1
      <4> HIDE DEF N
      <4> QED
        BY <4>1, <4>2
    <3>2. U[N].body = body[Len(body)] /\ U[N].bom = FALSE /\ U[N].cr = FALSE
      BY <3>1, <2>2, <2>4
    <3>3. U[N] = NoLine
      <4>1. U[N] \in LineSet /\ U[N].body = Blank
        BY <3>2, <1>2, <2>2, <1>20, <2>7
      <4> QED
        BY <4>1, <3>2, <2>5, LinesAreEqual
    <3> QED
      BY <3>3, <2>2, <1>2 DEF EndsInNewline
  <2>8. CASE b = n /\ s = 0 /\ p = Len(body)
    <3>1. N \in 1 .. a + p /\ N = a + p /\ N <= n /\ p \in 1 .. p
      BY <2>8, <1>1, <1>2, <2>2, <1>20, <2>3
    <3>2. U[N].body = T[N].body /\ U[N].bom = T[N].bom /\ U[N].cr = T[N].cr
      BY <3>1, <2>2
    <3>3. SameContent(T[a + p], body[p])
      BY <3>1, <2>2
    <3>4. T[N].body = Blank /\ T[N].bom = FALSE
      <4>0. N \in 1 .. n
        BY <3>1, <1>2
      <4>1. T[N] \in LineSet /\ T[N].bom \in BOOLEAN
        BY <4>0, <1>2, TextLines
      <4> QED
        BY <4>1, <3>1, <3>3, <2>8, <1>20 DEF SameContent
    <3>5. T[N].cr = FALSE
      <4>1. CASE N = n
        BY <4>1, <1>2, <2>5
      <4>2. CASE N < n
        <5>1. N \in 1 .. Len(T) - 1
          BY <4>2, <3>1, <1>2
        <5>2. \A i \in 1 .. Len(T) - 1 : T[i].cr = FALSE
          BY DEF OfStyle
        <5> QED
          BY <5>1, <5>2
      <4>3. N = n \/ N < n
        <5>1. N \in Nat /\ N <= n
          BY <3>1, <1>1, <1>2
        <5> HIDE DEF N, n
        <5> QED
          BY <5>1, <1>2
      <4> QED
        BY <4>1, <4>2, <4>3
    <3>6. U[N] = NoLine
      <4>1. U[N] \in LineSet
        BY <1>2, <2>2
      <4> QED
        BY <4>1, <3>2, <3>4, <3>5, <2>5, LinesAreEqual
    <3> QED
      BY <3>6, <2>2, <1>2 DEF EndsInNewline
  <2> QED
    BY <2>6, <2>7, <2>8, <2>2, <1>1, <1>2
<1>6. a + Len(body) + (n - b) = 0 \/ a + Len(body) + (n - b) > 0
  BY <1>1, <1>2
<1> QED
  BY <1>4, <1>5, <1>6

LEMMA OthersEndInNewline ==
  ASSUME NEW T \in Notes, EndsInNewline(T), NEW U
  PROVE  /\ Ending(T, U) => EndsInNewline(U)
         /\ Splitting(T, U) => EndsInNewline(U)
         /\ Topping(T, U) => EndsInNewline(U)
         /\ Setting(T, U) => EndsInNewline(U)
         /\ Adding(T, U) => EndsInNewline(U)
         /\ Clearing(T, U) => EndsInNewline(U)
<1> DEFINE n == Len(T)
<1>1. /\ n \in Nat \ {0} /\ T \in Seq(LineSet) /\ T # <<>> /\ T[n] = NoLine
  BY LastLine DEF Notes, EndsInNewline
<1>2. U \in Notes => Last(U) = U[Len(U)] /\ Len(U) \in Nat \ {0} /\ U[Len(U)] \in LineSet
  BY LastLine
<1>3. U \in Notes /\ U[Len(U)] = NoLine => EndsInNewline(U)
  BY <1>2 DEF EndsInNewline
<1>4. HasFm(T) => FmEnd(T) \in 3 .. n - 1
  <2> SUFFICES ASSUME HasFm(T) PROVE FmEnd(T) \in 3 .. n - 1
    OBVIOUS
  <2>1. FmEnd(T) \in 3 .. n /\ IsKind(T[FmEnd(T)], "dashes")
    BY <1>1, FmEndIs DEF HasFm
  <2>2. ~IsKind(NoLine, "dashes")
    BY DEF IsKind, NoLine, Line, Blank
  <2> QED
    BY <2>1, <2>2, <1>1
<1> HIDE DEF n
<1>6. ASSUME Ending(T, U) PROVE EndsInNewline(U)
  <2>0. PICK p \in Seq(Bodies) : \E m : AtEnd(T, U, p, m, LastEol(T))
    BY <1>6 DEF Ending
  <2>1. PICK m : AtEnd(T, U, p, m, LastEol(T))
    BY <2>0
  <2> QED
    BY <2>1, <1>3 DEF AtEnd
<1>7. ASSUME Splitting(T, U) PROVE EndsInNewline(U)
  <2> DEFINE j == FmEnd(T)
  <2>2. PICK p \in Seq(Bodies), eol \in BOOLEAN : Split(T, U, p, j, eol)
    BY <1>7 DEF Splitting
  <2>3. j \in 3 .. n - 1
    BY <1>7, <1>4 DEF Splitting
  <2> HIDE DEF j
  <2> DEFINE k == Len(p)
  <2>4. k \in Nat
    OBVIOUS
  <2> HIDE DEF k
  <2>5. n \in j + 1 .. n
    BY <2>3, <1>1
  <2>6. CASE IsRule(T[j]) /\ j < n
    <3>1. Len(U) = n + k + 0 /\ U[k + n] = T[n] /\ U \in Notes
      BY <2>6, <2>2, <2>5 DEF Split, n, k
    <3>2. Len(U) = k + n
      BY <3>1, <2>4, <1>1
    <3> QED
      BY <3>1, <3>2, <1>1, <1>3
  <2>7. CASE ~(IsRule(T[j]) /\ j < n)
    <3>1. Len(U) = n + k + 1 /\ U[k + 1 + n] = T[n] /\ U \in Notes
      BY <2>7, <2>2, <2>5 DEF Split, n, k
    <3>2. Len(U) = k + 1 + n
      BY <3>1, <2>4, <1>1
    <3> QED
      BY <3>1, <3>2, <1>1, <1>3
  <2> QED
    BY <2>6, <2>7
<1>8. ASSUME Topping(T, U) PROVE EndsInNewline(U)
  <2>1. PICK b \in Notes : Topped(T, U, b)
    BY <1>8 DEF Topping
  <2> DEFINE k == Len(b)
  <2>2. k \in Nat \ {0}
    BY LastLine
  <2>3. /\ Len(U) = k + n /\ U \in Notes
        /\ U[k + 1].body = T[1].body /\ U[k + 1].cr = T[1].cr /\ U[k + 1].bom = FALSE
        /\ \A i \in 2 .. n : U[k + i] = T[i]
    BY <2>1 DEF Topped, n
  <2> HIDE DEF k
  <2>4. CASE n = 1
    <3>1. NoLine.body = Blank /\ NoLine.bom = FALSE /\ NoLine.cr = FALSE /\ NoLine \in LineSet
      BY BlankIsABody DEF NoLine, Line
    <3>2. U[k + 1] \in LineSet
      BY <2>3, <2>4, <1>2
    <3>3. U[k + 1] = NoLine
      BY <3>1, <3>2, <2>3, <2>4, <1>1, LinesAreEqual
    <3> QED
      BY <3>3, <2>3, <2>4, <1>3
  <2>5. CASE n # 1
    <3>1. n \in 2 .. n
      BY <2>5, <1>1
    <3> QED
      BY <3>1, <2>3, <1>1, <1>3
  <2> QED
    BY <2>4, <2>5
<1>9. ASSUME Setting(T, U) PROVE EndsInNewline(U)
  <2>1. PICK k, c : \E x \in KeyLines(T, k) : SetLine(T, U, x, c)
    BY <1>9 DEF Setting
  <2>2. PICK x \in KeyLines(T, k) : SetLine(T, U, x, c)
    BY <2>1
  <2>3. x # n /\ n \in 1 .. n
    BY <1>9, <1>4, <1>1 DEF Setting, KeyLines
  <2>4. U \in Notes /\ Len(U) = n /\ U[n] = T[n]
    BY <2>2, <2>3 DEF SetLine, n
  <2> QED
    BY <2>4, <1>1, <1>3
<1>10. ASSUME Adding(T, U) PROVE EndsInNewline(U)
  <2> DEFINE j == FmEnd(T)
  <2>1. PICK c : NewLine(T, U, j, Line(c, T[j - 1].cr))
    BY <1>10 DEF Adding
  <2>2. n \in j .. n
    BY <1>10, <1>4, <1>1 DEF Adding
  <2>4. U \in Notes /\ Len(U) = n + 1 /\ U[n + 1] = T[n]
    BY <2>1, <2>2 DEF NewLine, n
  <2> QED
    BY <2>4, <1>1, <1>3
<1>11. ASSUME Clearing(T, U) PROVE EndsInNewline(U)
  <2> DEFINE j == FmEnd(T)
  <2>1. PICK k, idx : Cleared(T, U, k, idx)
    BY <1>11 DEF Clearing
  <2>2. j \in 3 .. n - 1 /\ n \in j .. n
    BY <1>11, <1>4, <1>1 DEF Clearing
  <2> DEFINE m == IF Len(idx) = 0 THEN 1 ELSE Len(idx)
  <2>3. /\ U \in Notes /\ Len(U) = 1 + m + (n - j + 1)
        /\ U[2 + m + (n - j)] = T[n]
        /\ \E S : Lists(idx, S)
    BY <2>1, <2>2 DEF Cleared, n
  <2>4. m \in Nat
    BY <2>3 DEF Lists
  <2> HIDE DEF m, j
  <2>5. 2 + m + (n - j) = Len(U)
    BY <2>2, <2>3, <2>4, <1>1
  <2> QED
    BY <2>3, <2>5, <1>1, <1>3
<1> QED
  BY <1>6, <1>7, <1>8, <1>9, <1>10, <1>11

\* A note without a \r that ends in a newline ends in one after any command.
THEOREM FinalLfStaysHolds == Spec => FinalLfStays
<1>1. NoteIsText /\ [Next]_vars =>
        [note # Absent /\ EndsInNewline(note) /\ OfStyle(note, FALSE) =>
          EndsInNewline(note')]_note
  <2> SUFFICES ASSUME NoteIsText, [Next]_vars, note' # note, note # Absent,
                      EndsInNewline(note), OfStyle(note, FALSE)
               PROVE  EndsInNewline(note')
    OBVIOUS
  <2>1. note \in Notes
    BY DEF NoteIsText
  <2>2. Next
    BY DEF vars
  <2>3. Formed(note, note')
    BY <2>1, <2>2, NextEdits, EditForms
  <2>4. Replacing(note, note') => EndsInNewline(note')
    BY <2>1, ReplacingEndsInNewline
  <2> QED
    BY <2>1, <2>3, <2>4, OthersEndInNewline DEF Formed
<1> QED
  BY <1>1, TypeHolds, PTL DEF Spec, FinalLfStays

----------------------------------------------------------------------------
(* What is in the place of a section, and the frontmatter under patch.     *)

\* U is T with body in the place of the lines a + 1 .. b.
Holding(T, U, a, b, body) ==
  /\ U \in Notes /\ Len(U) = a + Len(body) + (Len(T) - b)
  /\ \A i \in 1 .. a : U[i].body = T[i].body /\ U[i].bom = T[i].bom
  /\ \A i \in 1 .. Len(body) : U[a + i].body = body[i] /\ U[a + i].bom = FALSE
  /\ \A i \in b + 1 .. Len(T) : U[i - b + a + Len(body)] = T[i]

LEMMA ReplacedHolds ==
  ASSUME NEW T \in Notes, NEW U, NEW a \in Nat, NEW b \in Nat, a <= b, b <= Len(T),
         NEW body, Replaced(T, U, a, b, body)
  PROVE  \/ Holding(T, U, a, b, body)
         \/ a = 0 /\ b = Len(T) /\ body = <<>> /\ U = <<NoLine>>
<1> DEFINE n == Len(T)
           k == Len(body)
<1>1. /\ T \in Seq(LineSet) /\ n \in Nat \ {0} /\ U \in Notes /\ U \in Seq(LineSet)
      /\ body \in Seq(Bodies) /\ k \in Nat
  BY LastLine DEF Notes, Replaced
<1>2. CASE a + k + (n - b) = 0
  <2>1. a = 0 /\ b = n /\ k = 0
    <3> HIDE DEF n, k
    <3> QED
      BY <1>1, <1>2 DEF n
  <2>2. body = <<>>
    BY <2>1, <1>1, EmptySeq
  <2> QED
    BY <1>2, <2>1, <2>2 DEF Replaced
<1>3. CASE a + k + (n - b) > 0
  <2>1. PICK p, s, c : Spliced(T, U, a, b, body, p, s, c)
    BY <1>3 DEF Replaced
  <2> DEFINE N == a + k + (n - b)
  <2>2. /\ p \in Nat /\ s \in Nat /\ p + s <= b - a /\ p + s <= k /\ Len(U) = N
        /\ \A i \in 1 .. p : SameContent(T[a + i], body[i])
        /\ \A i \in 0 .. s - 1 : SameContent(T[b - i], body[k - i])
        /\ \A i \in 1 .. a + p : U[i].body = T[i].body /\ U[i].bom = T[i].bom
        /\ \A i \in a + p + 1 .. a + k - s : U[i].body = body[i - a] /\ U[i].bom = FALSE
        /\ \A i \in a + k - s + 1 .. N : U[i] = T[i - k - a + b]
    BY <2>1 DEF Spliced
  <2> HIDE DEF k
  <2>3. \A i \in 1 .. a : U[i].body = T[i].body /\ U[i].bom = T[i].bom
    BY <2>2
  <2>4. ASSUME NEW i \in 1 .. k
        PROVE  U[a + i].body = body[i] /\ U[a + i].bom = FALSE
    <3>1. CASE i <= p
      <4>1. i \in 1 .. p /\ a + i \in 1 .. a + p /\ a + i \in 1 .. n
        <5> HIDE DEF n
        <5> QED
          BY <3>1, <2>2, <1>1 DEF n
      <4>2. T[a + i].body = body[i] /\ ~T[a + i].bom /\ T[a + i].bom \in BOOLEAN
        BY <4>1, <2>2, <1>1, TextLines DEF SameContent
      <4>3. T[a + i].bom = FALSE
        BY <4>2
      <4>4. U[a + i].body = T[a + i].body /\ U[a + i].bom = T[a + i].bom
        BY <4>1, <2>2
      <4> QED
        BY <4>2, <4>3, <4>4
    <3>2. CASE p < i /\ i <= k - s
      <4>1. a + i \in a + p + 1 .. a + k - s /\ (a + i) - a = i
        BY <3>2, <2>2, <1>1
      <4> QED
        BY <4>1, <2>2
    <3>3. CASE k - s < i
      <4>1. /\ a + i \in a + k - s + 1 .. N /\ (a + i) - k - a + b = b - (k - i)
            /\ k - i \in 0 .. s - 1 /\ k - (k - i) = i
            /\ b - (k - i) \in 1 .. n
        <5> HIDE DEF n
        <5> QED
          BY <3>3, <2>2, <1>1 DEF n
      <4>2. U[a + i] = T[b - (k - i)]
        BY <4>1, <2>2
      <4>3. SameContent(T[b - (k - i)], body[k - (k - i)])
        BY <4>1, <2>2
      <4>4. T[b - (k - i)].bom \in BOOLEAN
        BY <4>1, <1>1, TextLines
      <4> QED
        BY <4>1, <4>2, <4>3, <4>4 DEF SameContent
    <3>4. i <= p \/ (p < i /\ i <= k - s) \/ k - s < i
      BY <2>2, <1>1 DEF k
    <3> QED
      BY <3>1, <3>2, <3>3, <3>4
  <2>5. ASSUME NEW i \in b + 1 .. n
        PROVE  U[i - b + a + k] = T[i]
    <3>1. i - b + a + k \in a + k - s + 1 .. N /\ (i - b + a + k) - k - a + b = i
      <4> HIDE DEF n
      <4> QED
        BY <2>2, <1>1
    <3> QED
      BY <3>1, <2>2
  <2> QED
    BY <2>2, <2>3, <2>4, <2>5, <1>1 DEF Holding, k
<1> QED
  <2>1. a + k + (n - b) = 0 \/ a + k + (n - b) > 0
    <3> HIDE DEF n, k
    <3> QED
      BY <1>1 DEF n
  <2> QED
    BY <2>1, <1>2, <1>3

\* A section ends where the next heading is.
LEMMA SectionEnds ==
  ASSUME NEW T \in Seq(LineSet), T # <<>>, NEW s \in ToSet(Parse(T)), s.end < Len(T)
  PROVE  s.id + 1 \in 1 .. Len(Heads(T)) /\ Heads(T)[s.id + 1] = s.end + 1
         /\ s.end + 1 \in HeadSet(T) /\ IsKind(T[s.end + 1], "heading")
<1> DEFINE h == Heads(T)
<1>1. Lists(h, HeadSet(T))
  BY HeadsAre
<1>2. s.id \in 0 .. Len(h) /\ s = Section(T, h, s.id) /\ s.end \in Nat
  BY SectionIs
<1>3. s.end = SectionEnd(T, h, s.id)
  BY <1>2 DEF Section
<1> HIDE DEF h
<1>4. Len(h) \in Nat /\ \A i \in 1 .. Len(h) : h[i] \in HeadSet(T)
  BY <1>1 DEF Lists
<1>5. s.id < Len(h) /\ s.end = h[s.id + 1] - 1
  BY <1>3 DEF SectionEnd
<1>6. s.id + 1 \in 1 .. Len(h)
  BY <1>2, <1>4, <1>5
<1>7. h[s.id + 1] \in HeadSet(T)
  BY <1>4, <1>6
<1>8. h[s.id + 1] \in Int /\ IsKind(T[h[s.id + 1]], "heading")
  <2>1. FmBounds(T) \in Nat /\ Len(T) \in Nat
    BY FmBoundsIs
  <2> QED
    BY <1>7, <2>1 DEF HeadSet
<1>9. h[s.id + 1] = s.end + 1
  BY <1>5, <1>8
<1> QED
  BY <1>6, <1>7, <1>8, <1>9 DEF h

\* What patch writes for lines of which none begins with dashes.
LEMMA WritesNoDashes ==
  ASSUME NEW T \in Notes, NEW s, NEW p \in Seq(Bodies), p # <<>>, ~Ruled(p)
  PROVE  LET body == Written(T, s.end, PatchBody(s, p)) IN
         /\ body \in Seq(Bodies)
         /\ \A i \in 1 .. Len(body) : body[i].kind # "dashes"
         /\ body = <<>> => s.end >= Len(T) \/ s.end = s.start
<1>1. \A i \in 1 .. Len(p) : p[i].kind # "dashes"
  BY DEF Ruled
<1>2. Blank.kind # "dashes" /\ Blank \in Bodies
  BY BlankIsABody DEF Blank
<1>3. /\ Len(p) \in Nat \ {0} /\ Front(p) \in Seq(Bodies) /\ Len(Front(p)) = Len(p) - 1
      /\ \A i \in 1 .. Len(p) - 1 : Front(p)[i] = p[i]
  BY LastAndFront
<1> DEFINE q == PatchBody(s, p)
<1>4. q \in Seq(Bodies)
  BY PatchBodyIs
<1>5. /\ q = p \/ (q = Front(p) /\ Len(p) > 1) \/ (q = <<>> /\ s.end = s.start)
  BY DEF PatchBody
<1> HIDE DEF q
<1>6. \A i \in 1 .. Len(q) : q[i].kind # "dashes"
  <2>1. CASE q = p
    BY <2>1, <1>1
  <2>2. CASE q = Front(p)
    BY <2>2, <1>1, <1>3
  <2>3. CASE q = <<>>
    BY <2>3
  <2> QED
    BY <2>1, <2>2, <2>3, <1>5
<1>7. q = <<>> => s.end = s.start
  <2>1. Len(q) # 0 \/ s.end = s.start
    BY <1>5, <1>3
  <2> QED
    BY <2>1
<1> DEFINE body == Written(T, s.end, q)
<1>8. T \in Seq(LineSet)
  BY DEF Notes
<1>9. /\ EndAs(T, q) \in Seq(Bodies)
      /\ \/ EndAs(T, q) = q
         \/ EndAs(T, q) = Append(q, Blank)
         \/ q # <<>> /\ EndAs(T, q) = Front(q)
  BY <1>4, <1>8, EndAsIs
<1>10. body \in Seq(Bodies) /\ (body = q \/ body = Append(q, Blank) \/ (q # <<>> /\ body = Front(q)))
       /\ (s.end >= Len(T) \/ body = q)
  BY <1>4, <1>9 DEF Written
<1> HIDE DEF body
<1>11. \A i \in 1 .. Len(body) : body[i].kind # "dashes"
  <2>1. CASE body = q
    BY <2>1, <1>6
  <2>2. CASE body = Append(q, Blank)
    <3> TAKE i \in 1 .. Len(body)
    <3>1. Len(q) \in Nat /\ Len(body) = Len(q) + 1
      BY <2>2, <1>4, <1>2
    <3>2. CASE i = Len(q) + 1
      BY <3>2, <2>2, <1>4, <1>2
    <3>3. CASE i # Len(q) + 1
      <4>1. i \in 1 .. Len(q)
        BY <3>1, <3>3
      <4>2. body[i] = q[i]
        BY <4>1, <2>2, <1>4, <1>2
      <4> QED
        BY <4>1, <4>2, <1>6
    <3> QED
      BY <3>2, <3>3
  <2>3. CASE q # <<>> /\ body = Front(q)
    <3>1. /\ Len(q) \in Nat \ {0} /\ Len(Front(q)) = Len(q) - 1
          /\ \A i \in 1 .. Len(q) - 1 : Front(q)[i] = q[i]
      BY <1>4, <2>3, LastAndFront
    <3> QED
      BY <3>1, <2>3, <1>6
  <2> QED
    BY <1>10, <2>1, <2>2, <2>3
<1> QED
  BY <1>7, <1>10, <1>11 DEF body, q

LEMMA EntryIs ==
  ASSUME NEW T \in Notes, NEW k
  PROVE  /\ ~HasFm(T) => Entry(T, k) = {}
         /\ HasFm(T) /\ KeyLines(T, k) = {} => Entry(T, k) = {}
         /\ \A x \in KeyLines(T, k) : HasFm(T) /\ (\A y \in KeyLines(T, k) : y <= x) =>
              Entry(T, k) = {T[x].body.val}
         /\ HasFm(T) /\ KeyLines(T, k) # {} =>
              \E x \in KeyLines(T, k) : \A y \in KeyLines(T, k) : y <= x
<1> DEFINE fm == FmParts(T).fm
           j == FmEnd(T)
           hits == {i \in DOMAIN fm : HasKey(fm[i], k)}
           S == KeyLines(T, k)
<1>1. ~HasFm(T) => Entry(T, k) = {}
  BY DEF Entry
<1>2. ASSUME HasFm(T)
      PROVE  /\ S = {} => Entry(T, k) = {}
             /\ \A x \in S : (\A y \in S : y <= x) => Entry(T, k) = {T[x].body.val}
             /\ S # {} => \E x \in S : \A y \in S : y <= x
  <2>1. /\ fm \in Seq(LineSet) /\ Len(fm) = j - 2 /\ j \in 3 .. Len(T)
        /\ \A i \in 1 .. j - 2 : /\ fm[i].body = T[i + 1].body
                                 /\ HasKey(fm[i], k) <=> HasKey(T[i + 1], k)
    BY <1>2, FmPartsAre DEF FmLines
  <2>2. Entry(T, k) = IF hits = {} THEN {} ELSE {fm[Max(hits)].body.val}
    BY <1>2 DEF Entry
  <2>3. j \in Nat /\ j >= 3 /\ DOMAIN fm = 1 .. j - 2
    BY <2>1, LastLine
  <2> HIDE DEF fm
  <2>4. /\ \A i \in hits : i + 1 \in S
        /\ \A x \in S : x - 1 \in hits /\ x \in Nat
    <3>1. ASSUME NEW i \in hits PROVE i + 1 \in S
      <4>1. i \in 1 .. j - 2 /\ i + 1 \in 2 .. j - 1 /\ HasKey(fm[i], k)
        BY <2>3
      <4> QED
        BY <4>1, <2>1 DEF KeyLines
    <3>2. ASSUME NEW x \in S PROVE x - 1 \in hits /\ x \in Nat
      <4>1. x \in 2 .. j - 1 /\ HasKey(T[x], k)
        BY DEF KeyLines
      <4>2. x - 1 \in 1 .. j - 2 /\ (x - 1) + 1 = x /\ x \in Nat
        BY <4>1, <2>3
      <4>3. HasKey(fm[x - 1], k)
        BY <4>1, <4>2, <2>1
      <4> QED
        BY <4>2, <4>3, <2>3
    <3> QED
      BY <3>1, <3>2
  <2>5. hits \in SUBSET (1 .. j - 2)
    BY <2>3
  <2>6. hits # {} => /\ Max(hits) \in hits /\ \A i \in hits : i <= Max(hits)
                     /\ Max(hits) \in 1 .. j - 2
    <3> SUFFICES ASSUME hits # {}
                 PROVE  /\ Max(hits) \in hits /\ \A i \in hits : i <= Max(hits)
                        /\ Max(hits) \in 1 .. j - 2
      OBVIOUS
    <3> HIDE DEF hits
    <3>1. hits \in SUBSET Nat /\ j - 2 \in Nat /\ \A i \in hits : i <= j - 2
      BY <2>5, <2>3
    <3>2. Max(hits) \in hits /\ \A i \in hits : i <= Max(hits)
      BY <3>1, MaxIs
    <3> QED
      BY <3>2, <2>5
  <2> HIDE DEF hits, S
  <2>7. S = {} => hits = {}
    BY <2>4
  <2>8. ASSUME S # {}
        PROVE  LET m == Max(hits) IN
               /\ hits # {} /\ m + 1 \in S /\ fm[m].body = T[m + 1].body
               /\ \A y \in S : y <= m + 1
    <3>1. hits # {}
      BY <2>8, <2>4
    <3>2. Max(hits) \in hits /\ Max(hits) \in 1 .. j - 2 /\ \A i \in hits : i <= Max(hits)
      BY <3>1, <2>6
    <3>3. fm[Max(hits)].body = T[Max(hits) + 1].body
      BY <3>2, <2>1
    <3>4. \A y \in S : y <= Max(hits) + 1
      <4> TAKE y \in S
      <4>1. y - 1 \in hits /\ y \in Nat
        BY <2>4
      <4>2. y - 1 <= Max(hits)
        BY <4>1, <3>2
      <4>3. Max(hits) \in Int
        BY <3>2, <2>3
      <4> QED
        BY <4>1, <4>2, <4>3
    <3> QED
      BY <3>1, <3>2, <3>3, <3>4, <2>4
  <2>9. ASSUME NEW x \in S, \A y \in S : y <= x
        PROVE  Entry(T, k) = {T[x].body.val}
    <3>1. Max(hits) + 1 \in S /\ hits # {} /\ fm[Max(hits)].body = T[Max(hits) + 1].body
          /\ x <= Max(hits) + 1
      BY <2>8
    <3>2. Max(hits) + 1 <= x /\ x \in Nat /\ Max(hits) + 1 \in Nat
      BY <3>1, <2>9, <2>4
    <3>3. x = Max(hits) + 1
      BY <3>1, <3>2
    <3> QED
      BY <3>1, <3>3, <2>2
  <2> QED
    BY <2>2, <2>7, <2>8, <2>9
<1> QED
  BY <1>1, <1>2

\* Two notes with the same frontmatter have the same properties.
LEMMA SameProps ==
  ASSUME NEW T \in Notes, NEW U \in Notes, NEW k, FmEnd(U) = FmEnd(T),
         \A i \in 1 .. FmEnd(T) - 1 : U[i].body = T[i].body /\ U[i].bom = T[i].bom
  PROVE  Entry(U, k) = Entry(T, k)
<1>1. HasFm(U) <=> HasFm(T)
  BY DEF HasFm
<1>2. CASE ~HasFm(T)
  BY <1>1, <1>2, EntryIs
<1>3. CASE HasFm(T)
  <2>1. FmEnd(T) \in 3 .. Len(T)
    BY <1>3, FmPartsAre
  <2>2. \A i \in 2 .. FmEnd(T) - 1 : HasKey(U[i], k) <=> HasKey(T[i], k)
    BY <2>1 DEF HasKey, IsKind
  <2>3. KeyLines(U, k) = KeyLines(T, k)
    BY <2>2 DEF KeyLines
  <2>4. CASE KeyLines(T, k) = {}
    BY <2>3, <2>4, <1>1, <1>3, EntryIs
  <2>5. CASE KeyLines(T, k) # {}
    <3>1. PICK x \in KeyLines(T, k) : \A y \in KeyLines(T, k) : y <= x
      BY <2>5, <1>3, EntryIs
    <3>2. Entry(T, k) = {T[x].body.val}
      BY <3>1, <1>3, EntryIs
    <3>3. Entry(U, k) = {U[x].body.val}
      BY <3>1, <2>3, <1>1, <1>3, EntryIs
    <3>4. x \in 1 .. FmEnd(T) - 1
      BY <2>1 DEF KeyLines
    <3> QED
      BY <3>2, <3>3, <3>4
  <2> QED
    BY <2>4, <2>5
<1> QED
  BY <1>2, <1>3

\* Where the frontmatter of a note is.
LEMMA FmEndFound ==
  ASSUME NEW U \in Notes, NEW j \in 3 .. Len(U), IsRule(U[1]), IsKind(U[j], "dashes"),
         \A i \in 3 .. j - 1 : ~IsKind(U[i], "dashes")
  PROVE  FmEnd(U) = j
<1>1. U \in Seq(LineSet) /\ Len(U) \in Nat
  BY DEF Notes
<1>2. FmEnd(U) \in Nat /\ FmEnd(U) # 0
  BY <1>1, FmEndIs
<1>3. /\ FmEnd(U) \in 3 .. Len(U) /\ IsKind(U[FmEnd(U)], "dashes")
      /\ \A i \in 3 .. FmEnd(U) - 1 : ~IsKind(U[i], "dashes")
  BY <1>1, <1>2, FmEndIs
<1>4. ~(FmEnd(U) < j)
  <2>1. FmEnd(U) < j => FmEnd(U) \in 3 .. j - 1
    BY <1>3, <1>1
  <2> QED
    BY <2>1, <1>3
<1>5. ~(j < FmEnd(U))
  <2>1. j < FmEnd(U) => j \in 3 .. FmEnd(U) - 1
    BY <1>3, <1>1
  <2> QED
    BY <2>1, <1>3
<1> QED
  BY <1>4, <1>5, <1>2, <1>1

LEMMA FmEndMissing ==
  ASSUME NEW U \in Notes,
         ~IsRule(U[1]) \/ \A i \in 3 .. Len(U) : ~IsKind(U[i], "dashes")
  PROVE  FmEnd(U) = 0
<1>1. U \in Seq(LineSet) /\ Len(U) \in Nat
  BY DEF Notes
<1> QED
  BY <1>1, FmEndIs

\* The first line of a frontmatter is refused with H0.
LEMMA RuleIsHeld ==
  ASSUME NEW T \in Notes, ~T[1].bom, IsRule(T[1]), NEW s \in ToSet(Parse(T)),
         ~HoldsFrontmatter(T, s)
  PROVE  s.id # 0 /\ s.start >= 1
<1>1. T \in Seq(LineSet) /\ T # <<>> /\ Len(T) \in Nat \ {0}
  BY LastLine DEF Notes
<1>2. T[1] \in LineSet /\ T[1].bom \in BOOLEAN /\ T[1].cr \in BOOLEAN
  <2>1. 1 \in 1 .. Len(T)
    BY <1>1
  <2> QED
    BY <2>1, <1>1, TextLines
<1>3. ~IsKind(T[1], "heading")
  BY RuleIsABody DEF IsRule, IsKind
<1>4. /\ s.start \in Nat /\ s.end \in Nat
      /\ s.id = 0 => s.start = 0
      /\ s.id # 0 => IsKind(T[s.start + 1], "heading")
  BY <1>1, SectionIs
<1>5. T[1] = Line(Rule, T[1].cr)
  <2>1. T[1].bom = FALSE
    BY <1>2
  <2>2. /\ Line(Rule, T[1].cr) \in LineSet /\ Line(Rule, T[1].cr).body = Rule
        /\ Line(Rule, T[1].cr).bom = FALSE /\ Line(Rule, T[1].cr).cr = T[1].cr
    BY <1>2, RuleIsABody, ALine
  <2> QED
    BY <1>2, <2>1, <2>2, LinesAreEqual DEF IsRule
<1>6. s.id # 0
  <2> SUFFICES ASSUME s.id = 0 PROVE FALSE
    OBVIOUS
  <2>1. s.end = 0
    BY <1>4, <1>5 DEF HoldsFrontmatter
  <2>2. s.end < Len(T)
    BY <2>1, <1>1
  <2>3. IsKind(T[s.end + 1], "heading")
    BY <2>2, <1>1, SectionEnds
  <2> QED
    BY <2>1, <2>3, <1>3
<1>7. s.start # 0
  BY <1>4, <1>6, <1>3
<1> QED
  BY <1>4, <1>6, <1>7

LEMMA PatchSpares ==
  ASSUME NEW T \in Notes, FmAgrees(T), ~T[1].bom, NEW s \in ToSet(Parse(T)),
         NEW p \in Seq(Bodies), p # <<>>, ~HoldsFrontmatter(T, s), ~Ruled(p), NEW k
  PROVE  Entry(Patched(T, s, p), k) = Entry(T, k)
<1> DEFINE U == Patched(T, s, p)
           n == Len(T)
           a == s.start
           b == s.end
           body == Written(T, b, PatchBody(s, p))
           f == FmEnd(T)
<1>1. T \in Seq(LineSet) /\ T # <<>> /\ n \in Nat \ {0}
  BY LastLine DEF Notes
<1>2. /\ Replaced(T, U, a, b, body) /\ a \in Nat /\ b \in Nat /\ a <= b /\ b <= n /\ a < n
  BY PatchedIs
<1>3. /\ s.id = 0 => a = 0 /\ f <= b
      /\ s.id # 0 => f <= a /\ a < b /\ IsKind(T[a + 1], "heading")
  BY <1>1, SectionIs DEF FmAgrees
<1>4. /\ body \in Seq(Bodies) /\ \A i \in 1 .. Len(body) : body[i].kind # "dashes"
      /\ body = <<>> => b >= n \/ b = a
  BY WritesNoDashes
<1>5. \/ Holding(T, U, a, b, body)
      \/ a = 0 /\ b = n /\ body = <<>> /\ U = <<NoLine>>
  BY <1>2, ReplacedHolds
<1>6. U \in Notes
  BY <1>2 DEF Replaced
<1> HIDE DEF U, a, b, body, n
<1>7. Len(body) \in Nat
  BY <1>4
<1>8. /\ f \in Nat /\ (f > 0 => f \in 3 .. n /\ IsRule(T[1]) /\ IsKind(T[f], "dashes")
                              /\ \A i \in 3 .. f - 1 : ~IsKind(T[i], "dashes"))
      /\ f = 0 => ~IsRule(T[1]) \/ \A i \in 3 .. n : ~IsKind(T[i], "dashes")
  BY <1>1, FmEndIs DEF n
<1>9. IsRule(T[1]) => s.id # 0 /\ a >= 1
  BY RuleIsHeld DEF a
<1>10. FmEnd(U) = f /\ \A i \in 1 .. f - 1 : U[i].body = T[i].body /\ U[i].bom = T[i].bom
  <2>1. CASE f > 0
    <3>1. f <= a /\ a # 0
      BY <2>1, <1>8, <1>9, <1>3, <1>2
    <3>2. Holding(T, U, a, b, body)
      BY <3>1, <1>5
    <3>3. /\ Len(U) = a + Len(body) + (n - b)
          /\ \A i \in 1 .. a : U[i].body = T[i].body /\ U[i].bom = T[i].bom
      BY <3>2 DEF Holding, n
    <3> HIDE DEF f
    <3>4. f \in 3 .. n /\ f \in 3 .. Len(U) /\ \A i \in 1 .. f : i \in 1 .. a
      BY <3>1, <3>3, <1>2, <1>7, <1>8, <2>1, <1>1
    <3>5. \A i \in 1 .. f : U[i].body = T[i].body /\ U[i].bom = T[i].bom
      BY <3>3, <3>4
    <3>6. IsRule(U[1])
      <4>1. 1 \in 1 .. f
        BY <3>4, <1>1
      <4> QED
        BY <4>1, <3>5, <1>8, <2>1 DEF IsRule
    <3>7. IsKind(U[f], "dashes")
      <4>1. f \in 1 .. f
        BY <3>4, <1>1
      <4> QED
        BY <4>1, <3>5, <1>8, <2>1 DEF IsKind
    <3>8. \A i \in 3 .. f - 1 : ~IsKind(U[i], "dashes")
      <4> TAKE i \in 3 .. f - 1
      <4>1. i \in 1 .. f
        BY <3>4, <1>1
      <4> QED
        BY <4>1, <3>5, <1>8, <2>1 DEF IsKind
    <3>9. FmEnd(U) = f
      BY <3>4, <3>6, <3>7, <3>8, <1>6, FmEndFound
    <3>10. \A i \in 1 .. f - 1 : i \in 1 .. f
      BY <3>4, <1>1
    <3> QED
      BY <3>5, <3>9, <3>10
  <2>2. CASE f = 0
    <3>1. ~IsRule(U[1]) \/ \A i \in 3 .. Len(U) : ~IsKind(U[i], "dashes")
      <4>1. CASE a = 0 /\ b = n /\ body = <<>> /\ U = <<NoLine>>
        <5>1. U[1].body = Blank
          BY <4>1 DEF NoLine, Line
        <5>2. Blank.kind # "dashes"
          BY DEF Blank
        <5> QED
          BY <5>1, <5>2, RuleIsABody DEF IsRule
      <4>2. CASE Holding(T, U, a, b, body)
        <5> DEFINE k2 == Len(body)
        <5>1. /\ Len(U) = a + k2 + (n - b)
              /\ \A i \in 1 .. a : U[i].body = T[i].body /\ U[i].bom = T[i].bom
              /\ \A i \in 1 .. k2 : U[a + i].body = body[i]
              /\ \A i \in b + 1 .. n : U[i - b + a + k2] = T[i]
          BY <4>2 DEF Holding, n
        <5>2. k2 \in Nat /\ \A i \in 1 .. k2 : body[i].kind # "dashes"
          BY <1>7, <1>4
        <5>20. k2 = 0 => b >= n \/ b = a
          BY <1>4, EmptySeq
        <5> HIDE DEF k2, f
        <5>3. CASE IsRule(T[1])
          <6>1. a >= 1 /\ a < b /\ \A i \in 3 .. n : ~IsKind(T[i], "dashes")
            BY <5>3, <1>8, <1>9, <1>3, <2>2
          <6>2. \A i \in 3 .. Len(U) : ~IsKind(U[i], "dashes")
            <7> TAKE i \in 3 .. Len(U)
            <7>0. i \in 3 .. a + k2 + (n - b)
              BY <5>1
            <7>1. CASE i <= a
              <8>1. i \in 1 .. a /\ i \in 3 .. n
                BY <7>0, <7>1, <1>2, <1>1
              <8> QED
                BY <8>1, <5>1, <6>1 DEF IsKind
            <7>2. CASE a < i /\ i <= a + k2
              <8>1. i - a \in 1 .. k2 /\ a + (i - a) = i
                BY <7>0, <7>2, <1>2, <5>2
              <8>2. U[a + (i - a)].body = body[i - a]
                BY <8>1, <5>1
              <8> QED
                BY <8>1, <8>2, <5>2 DEF IsKind
            <7>3. CASE a + k2 < i
              <8> DEFINE x == i - a - k2 + b
              <8>1. x \in b + 1 .. n /\ x \in 3 .. n /\ x - b + a + k2 = i
                BY <7>0, <7>3, <1>2, <5>2, <6>1, <1>1
              <8>2. U[x - b + a + k2] = T[x]
                BY <8>1, <5>1
              <8> QED
                BY <8>1, <8>2, <6>1
            <7>4. i <= a \/ (a < i /\ i <= a + k2) \/ a + k2 < i
              BY <7>0, <1>2, <5>2
            <7> QED
              BY <7>1, <7>2, <7>3, <7>4
          <6> QED
            BY <6>2
        <5>4. CASE ~IsRule(T[1])
          <6>1. CASE a >= 1
            <7>1. 1 \in 1 .. a
              BY <6>1, <1>2
            <7> QED
              BY <7>1, <5>1, <5>4 DEF IsRule
          <6>2. CASE a = 0 /\ k2 >= 1
            <7>1. 1 \in 1 .. k2 /\ a + 1 = 1
              BY <6>2, <5>2
            <7>2. U[1].body = body[1] /\ body[1].kind # "dashes"
              BY <7>1, <5>1, <5>2
            <7> QED
              BY <7>2, RuleIsABody DEF IsRule
          <6>3. CASE a = 0 /\ k2 = 0
            <7>1. b # n
              <8>1. Len(U) # 0
                BY <1>6, LastLine
              <8> QED
                BY <8>1, <5>1, <6>3, <1>1
            <7>2. b = 0
              BY <7>1, <5>20, <6>3, <1>2, <1>1
            <7>3. 1 \in b + 1 .. n /\ 1 - b + a + k2 = 1
              BY <7>2, <6>3, <1>1
            <7>4. U[1 - b + a + k2] = T[1]
              BY <7>3, <5>1
            <7> QED
              BY <7>3, <7>4, <5>4
          <6>4. a >= 1 \/ (a = 0 /\ k2 >= 1) \/ (a = 0 /\ k2 = 0)
            BY <1>2, <5>2
          <6> QED
            BY <6>1, <6>2, <6>3, <6>4
        <5> QED
          BY <5>3, <5>4
      <4> QED
        BY <4>1, <4>2, <1>5
    <3>2. FmEnd(U) = 0
      BY <3>1, <1>6, FmEndMissing
    <3> QED
      BY <3>2, <2>2
  <2> QED
    BY <2>1, <2>2, <1>8
<1>11. Entry(U, k) = Entry(T, k)
  BY <1>6, <1>10, SameProps
<1> QED
  BY <1>11 DEF U

\* patch does not touch the frontmatter.
THEOREM PatchSparesFrontmatterHolds == Spec => []PatchSparesFrontmatter
<1>1. NoteIsText => PatchSparesFrontmatter
  <2> SUFFICES ASSUME NoteIsText, Exists, FmAgrees(note), ~note[1].bom,
                      NEW s \in ToSet(Parse(note)), NEW p \in Payloads, NEW k \in Keys,
                      ~HoldsFrontmatter(note, s), ~Ruled(p)
               PROVE  Entry(Patched(note, s, p), k) = Entry(note, k)
    BY DEF PatchSparesFrontmatter, PropOf
  <2>1. note \in Notes /\ p \in Seq(Bodies) /\ p # <<>>
    BY ExistsIsNote, NotesAssumption
  <2> QED
    BY <2>1, PatchSpares
<1> QED
  BY <1>1, TypeHolds, PTL

----------------------------------------------------------------------------
(* What set and unset leave to be read.                                    *)

\* The frontmatter of U ends at g, in both ways of finding it.
FmAt(U, g) ==
  /\ g \in 3 .. Len(U) /\ IsRule(U[1]) /\ IsRule(U[g]) /\ U[g].bom = FALSE
  /\ \A i \in 2 .. g - 1 : ~(IsRule(U[i]) /\ ~U[i].bom)
  /\ \A i \in 3 .. g - 1 : ~IsKind(U[i], "dashes")

LEMMA FmFound ==
  ASSUME NEW U \in Notes, NEW g, FmAt(U, g)
  PROVE  FmEnd(U) = g /\ FmBounds(U) = g /\ HasFm(U)
<1>1. U \in Seq(LineSet) /\ Len(U) \in Nat
  BY DEF Notes
<1>2. /\ g \in 3 .. Len(U) /\ IsRule(U[1]) /\ IsRule(U[g]) /\ ~U[g].bom
      /\ \A i \in 2 .. g - 1 : ~(IsRule(U[i]) /\ ~U[i].bom)
      /\ \A i \in 3 .. g - 1 : ~IsKind(U[i], "dashes")
  BY DEF FmAt
<1>3. IsKind(U[g], "dashes")
  BY <1>2, RuleIsABody DEF IsRule, IsKind
<1>4. FmEnd(U) = g
  BY <1>2, <1>3, FmEndFound
<1> DEFINE e == FmBounds(U)
<1>5. e \in 0 .. Len(U)
  BY <1>1, FmBoundsIs
<1>6. e # 0
  <2> SUFFICES ASSUME e = 0 PROVE FALSE
    OBVIOUS
  <2>1. \A i \in 2 .. Len(U) : ~(IsRule(U[i]) /\ ~U[i].bom)
    BY <1>1, <1>2, FmBoundsIs
  <2>2. g \in 2 .. Len(U)
    BY <1>1, <1>2
  <2> QED
    BY <2>1, <2>2, <1>2
<1>7. e > 0
  BY <1>5, <1>6, <1>1
<1>8. /\ e \in 2 .. Len(U) /\ IsRule(U[e]) /\ ~U[e].bom
      /\ \A i \in 2 .. e - 1 : ~(IsRule(U[i]) /\ ~U[i].bom)
  BY <1>1, <1>7, FmBoundsIs
<1> HIDE DEF e
<1>9. ~(e < g)
  <2>1. e < g => e \in 2 .. g - 1
    BY <1>8, <1>2, <1>1
  <2> QED
    BY <2>1, <1>8, <1>2
<1>10. ~(g < e)
  <2>1. g < e => g \in 2 .. e - 1
    BY <1>8, <1>2, <1>1
  <2> QED
    BY <2>1, <1>8, <1>2
<1>11. e = g
  BY <1>9, <1>10, <1>8, <1>2, <1>1
<1>12. g > 0
  BY <1>2, <1>1
<1> QED
  BY <1>4, <1>11, <1>12 DEF e, HasFm

LEMMA FmIs ==
  ASSUME NEW T \in Notes, FmAgrees(T), HasFm(T)
  PROVE  FmAt(T, FmEnd(T)) /\ FmBounds(T) = FmEnd(T) /\ FmEnd(T) \in 3 .. Len(T)
<1>1. T \in Seq(LineSet) /\ Len(T) \in Nat
  BY DEF Notes
<1>2. FmBounds(T) = FmEnd(T) /\ FmEnd(T) > 0
  BY DEF FmAgrees, HasFm
<1>3. /\ FmEnd(T) \in 3 .. Len(T) /\ IsRule(T[1])
      /\ \A i \in 3 .. FmEnd(T) - 1 : ~IsKind(T[i], "dashes")
  BY <1>1, <1>2, FmEndIs
<1>4. /\ IsRule(T[FmEnd(T)]) /\ ~T[FmEnd(T)].bom
      /\ \A i \in 2 .. FmEnd(T) - 1 : ~(IsRule(T[i]) /\ ~T[i].bom)
  BY <1>1, <1>2, FmBoundsIs
<1>5. T[FmEnd(T)].bom \in BOOLEAN
  <2>1. FmEnd(T) \in 1 .. Len(T)
    BY <1>3, <1>1
  <2> QED
    BY <2>1, <1>1, TextLines
<1> QED
  BY <1>2, <1>3, <1>4, <1>5 DEF FmAt

LEMMA BodyIs ==
  ASSUME NEW T \in Notes, NEW U \in Notes, FmBounds(T) \in Nat, FmBounds(U) \in Nat,
         Len(U) - FmBounds(U) = Len(T) - FmBounds(T),
         \A i \in FmBounds(T) + 1 .. Len(T) :
           /\ U[FmBounds(U) + (i - FmBounds(T))].body = T[i].body
           /\ U[FmBounds(U) + (i - FmBounds(T))].cr = T[i].cr
  PROVE  Body(U) = Body(T)
<1> DEFINE f == FmBounds(T)
           g == FmBounds(U)
           n == Len(T)
           d == n - f
<1>1. n \in Nat /\ f \in Nat /\ g \in Nat
  BY DEF Notes
<1>2. Body(T) = [i \in 1 .. d |-> <<T[f + i].body, T[f + i].cr>>]
  BY DEF Body
<1>3. Body(U) = [i \in 1 .. d |-> <<U[g + i].body, U[g + i].cr>>]
  BY DEF Body
<1>4. \A i \in 1 .. d : U[g + i].body = T[f + i].body /\ U[g + i].cr = T[f + i].cr
  <2> TAKE i \in 1 .. d
  <2>1. \A x \in f + 1 .. n :
          U[g + (x - f)].body = T[x].body /\ U[g + (x - f)].cr = T[x].cr
    OBVIOUS
  <2> HIDE DEF f, g, n
  <2>2. f + i \in f + 1 .. n /\ (f + i) - f = i
    BY <1>1
  <2> QED
    BY <2>1, <2>2
<1> HIDE DEF d, f, g
<1>5. \A i \in 1 .. d :
        <<U[g + i].body, U[g + i].cr>> = <<T[f + i].body, T[f + i].cr>>
  BY <1>4
<1> QED
  BY <1>2, <1>3, <1>5

LEMMA OnceIs ==
  ASSUME NEW T \in Notes, NEW k, Once(T, k), NEW x \in 1 .. FmBounds(T),
         NEW y \in 1 .. FmBounds(T), HasKey(T[x], k), HasKey(T[y], k)
  PROVE  x = y
<1> DEFINE S == {i \in 1 .. FmBounds(T) : HasKey(T[i], k)}
<1>1. FmBounds(T) \in Nat
  BY FmBoundsIs DEF Notes
<1>2. IsFiniteSet(S)
  <2>1. IsFiniteSet(1 .. FmBounds(T))
    BY <1>1, FS_Interval
  <2> QED
    BY <2>1, FS_Subset
<1>3. Cardinality(S) <= 1
  BY DEF Once
<1>4. {x, y} \subseteq S
  OBVIOUS
<1> HIDE DEF S
<1> SUFFICES ASSUME x # y PROVE FALSE
  OBVIOUS
<1>5. IsFiniteSet({x}) /\ Cardinality({x}) = 1
  BY FS_Singleton
<1>6. Cardinality({x} \cup {y}) = 2
  BY <1>5, FS_AddElement
<1>7. {x} \cup {y} = {x, y}
  OBVIOUS
<1>8. Cardinality({x, y}) <= Cardinality(S)
  BY <1>2, <1>4, FS_Subset
<1>9. Cardinality(S) \in Nat
  BY <1>2, FS_CardinalityType
<1> QED
  BY <1>3, <1>6, <1>7, <1>8, <1>9

\* The last line of a key decides what is read of it.
LEMMA SamePropMoved ==
  ASSUME NEW T \in Notes, NEW U \in Notes, HasFm(T), HasFm(U), NEW j,
         KeyLines(T, j) = {} => KeyLines(U, j) = {},
         \A x \in KeyLines(T, j) : (\A y \in KeyLines(T, j) : y <= x) =>
           \E z \in KeyLines(U, j) : /\ U[z].body = T[x].body
                                     /\ \A w \in KeyLines(U, j) : w <= z
  PROVE  Entry(U, j) = Entry(T, j)
<1>1. CASE KeyLines(T, j) = {}
  BY <1>1, EntryIs
<1>2. CASE KeyLines(T, j) # {}
  <2>1. PICK x \in KeyLines(T, j) : \A y \in KeyLines(T, j) : y <= x
    BY <1>2, EntryIs
  <2>2. PICK z \in KeyLines(U, j) : /\ U[z].body = T[x].body
                                    /\ \A w \in KeyLines(U, j) : w <= z
    BY <2>1
  <2>3. Entry(T, j) = {T[x].body.val}
    BY <2>1, EntryIs
  <2>4. Entry(U, j) = {U[z].body.val}
    BY <2>2, EntryIs
  <2> QED
    BY <2>2, <2>3, <2>4
<1> QED
  BY <1>1, <1>2

\* What set promises.
Reads(T, U, k, e) ==
  /\ Entry(U, k) = e
  /\ \A j : j # k => Entry(U, j) = Entry(T, j)
  /\ Body(U) = Body(T)

LEMMA PropLine ==
  ASSUME NEW l, NEW k, NEW v, l.body = Prop(k, v), l.bom = FALSE
  PROVE  /\ HasKey(l, k) /\ l.body.val = v /\ \A j : HasKey(l, j) => j = k
         /\ ~IsRule(l) /\ ~IsKind(l, "dashes")
<1>1. /\ Prop(k, v).kind = "prop" /\ Prop(k, v).key = k /\ Prop(k, v).val = v
  BY DEF Prop
<1>2. Rule.kind = "dashes"
  BY RuleIsABody
<1>3. l.body.kind = "prop" /\ l.body.key = k /\ l.body.val = v
  BY <1>1
<1>4. HasKey(l, k) /\ \A j : HasKey(l, j) => j = k
  BY <1>3 DEF HasKey, IsKind
<1>5. ~IsRule(l)
  BY <1>2, <1>3 DEF IsRule
<1>6. ~IsKind(l, "dashes")
  BY <1>3 DEF IsKind
<1> QED
  BY <1>3, <1>4, <1>5, <1>6

LEMMA SetLineReads ==
  ASSUME NEW T \in Notes, FmAgrees(T), HasFm(T), NEW k, NEW v, NEW U,
         NEW x \in KeyLines(T, k), SetLine(T, U, x, Prop(k, v)), Once(T, k)
  PROVE  Reads(T, U, k, {v})
<1> DEFINE n == Len(T)
           f == FmEnd(T)
<1>1. FmAt(T, f) /\ FmBounds(T) = f /\ f \in 3 .. n /\ n \in Nat
  BY FmIs DEF Notes
<1>2. /\ U \in Notes /\ Len(U) = n
      /\ \A i \in 1 .. n : i # x => U[i] = T[i]
      /\ U[x].body = Prop(k, v) /\ U[x].bom = T[x].bom
  BY DEF SetLine
<1>3. x \in 2 .. f - 1 /\ HasKey(T[x], k)
  BY DEF KeyLines
<1>4. U[x].bom = FALSE
  <2>1. x \in 1 .. n
    BY <1>1, <1>3
  <2>2. T[x].bom \in BOOLEAN
    BY <2>1, TextLines DEF Notes
  <2> QED
    BY <2>2, <1>3, <1>2 DEF HasKey, IsKind
<1>5. /\ HasKey(U[x], k) /\ U[x].body.val = v /\ \A j : HasKey(U[x], j) => j = k
      /\ ~IsRule(U[x]) /\ ~IsKind(U[x], "dashes")
  <2> DEFINE l == U[x]
  <2>1. l.body = Prop(k, v) /\ l.bom = FALSE
    BY <1>2, <1>4
  <2> HIDE DEF l
  <2>2. /\ HasKey(l, k) /\ l.body.val = v /\ \A j : HasKey(l, j) => j = k
        /\ ~IsRule(l) /\ ~IsKind(l, "dashes")
    BY <2>1, PropLine
  <2> QED
    BY <2>2 DEF l
<1> HIDE DEF f, n
<1>6. FmAt(U, f)
  <2>1. \A i \in 1 .. f : i \in 1 .. n
    BY <1>1
  <2>2. 1 # x /\ f # x /\ 1 \in 1 .. f /\ f \in 1 .. f
    BY <1>1, <1>3
  <2>3. U[1] = T[1] /\ U[f] = T[f]
    BY <2>1, <2>2, <1>2
  <2>4. \A i \in 2 .. f - 1 : ~(IsRule(U[i]) /\ ~U[i].bom)
    <3> TAKE i \in 2 .. f - 1
    <3>1. i \in 1 .. n
      BY <1>1
    <3>2. CASE i = x
      BY <3>2, <1>5
    <3>3. CASE i # x
      BY <3>1, <3>3, <1>1, <1>2 DEF FmAt
    <3> QED
      BY <3>2, <3>3
  <2>5. \A i \in 3 .. f - 1 : ~IsKind(U[i], "dashes")
    <3> TAKE i \in 3 .. f - 1
    <3>1. i \in 1 .. n
      BY <1>1
    <3>2. CASE i = x
      BY <3>2, <1>5
    <3>3. CASE i # x
      BY <3>1, <3>3, <1>1, <1>2 DEF FmAt
    <3> QED
      BY <3>2, <3>3
  <2> QED
    BY <2>3, <2>4, <2>5, <1>1, <1>2 DEF FmAt, n
<1>7. FmEnd(U) = f /\ FmBounds(U) = f /\ HasFm(U)
  BY <1>2, <1>6, FmFound
<1>8. \A i \in 2 .. f - 1 : i \in 1 .. n
  BY <1>1
<1>9. KeyLines(U, k) = {x}
  <2>1. x \in KeyLines(U, k)
    BY <1>3, <1>5, <1>7 DEF KeyLines
  <2>2. ASSUME NEW y \in KeyLines(U, k), y # x PROVE FALSE
    <3>1. y \in 2 .. f - 1 /\ HasKey(U[y], k)
      BY <1>7 DEF KeyLines
    <3>2. HasKey(T[y], k)
      BY <3>1, <1>8, <1>2, <2>2
    <3>3. x \in 1 .. FmBounds(T) /\ y \in 1 .. FmBounds(T)
      BY <3>1, <1>3, <1>1
    <3> QED
      BY <3>2, <3>3, <1>3, <2>2, OnceIs
  <2> QED
    BY <2>1, <2>2
<1>10. Entry(U, k) = {v}
  <2>1. \A y \in KeyLines(U, k) : y <= x
    BY <1>9, <1>3, <1>1
  <2> QED
    BY <2>1, <1>9, <1>7, <1>5, <1>2, EntryIs
<1>11. ASSUME NEW j, j # k PROVE Entry(U, j) = Entry(T, j)
  <2>1. \A y \in 2 .. f - 1 : HasKey(U[y], j) <=> HasKey(T[y], j)
    <3> TAKE y \in 2 .. f - 1
    <3>1. CASE y = x
      <4>1. ~HasKey(U[x], j)
        BY <1>5, <1>11
      <4>2. ~HasKey(T[x], j)
        BY <1>3, <1>11 DEF HasKey
      <4> QED
        BY <3>1, <4>1, <4>2
    <3>2. CASE y # x
      BY <3>2, <1>8, <1>2
    <3> QED
      BY <3>1, <3>2
  <2>2. KeyLines(U, j) = KeyLines(T, j)
    BY <2>1, <1>7 DEF KeyLines, f
  <2>3. \A y \in KeyLines(T, j) : U[y].body = T[y].body
    <3> TAKE y \in KeyLines(T, j)
    <3>1. y \in 2 .. f - 1 /\ HasKey(T[y], j)
      BY DEF KeyLines, f
    <3>2. y # x
      BY <3>1, <1>3, <1>11 DEF HasKey
    <3> QED
      BY <3>1, <3>2, <1>8, <1>2
  <2> QED
    BY <2>2, <2>3, <1>2, <1>7, SamePropMoved
<1>12. Body(U) = Body(T)
  <2>1. \A i \in f + 1 .. n : U[f + (i - f)] = T[i]
    <3> TAKE i \in f + 1 .. n
    <3>1. i \in 1 .. n /\ i # x /\ f + (i - f) = i
      BY <1>1, <1>3
    <3> QED
      BY <3>1, <1>2
  <2>2. f \in Nat
    BY <1>1
  <2> QED
    BY <2>1, <2>2, <1>1, <1>2, <1>7, BodyIs DEF n
<1> QED
  BY <1>10, <1>11, <1>12 DEF Reads

LEMMA NewLineReads ==
  ASSUME NEW T \in Notes, FmAgrees(T), HasFm(T), NEW k, NEW v, NEW c, NEW U,
         KeyLines(T, k) = {}, NewLine(T, U, FmEnd(T), Line(Prop(k, v), c))
  PROVE  Reads(T, U, k, {v})
<1> DEFINE n == Len(T)
           f == FmEnd(T)
<1>1. FmAt(T, f) /\ FmBounds(T) = f /\ f \in 3 .. n /\ n \in Nat
  BY FmIs DEF Notes
<1>2. /\ U \in Notes /\ Len(U) = n + 1
      /\ \A i \in 1 .. f - 1 : U[i] = T[i]
      /\ \A i \in f .. n : U[i + 1] = T[i]
      /\ U[f].body = Prop(k, v) /\ U[f].bom = FALSE
  BY DEF NewLine, Line
<1>3. /\ HasKey(U[f], k) /\ U[f].body.val = v /\ \A j : HasKey(U[f], j) => j = k
      /\ ~IsRule(U[f]) /\ ~IsKind(U[f], "dashes")
  <2> DEFINE l == U[f]
  <2>1. l.body = Prop(k, v) /\ l.bom = FALSE
    BY <1>2
  <2> HIDE DEF l
  <2>2. /\ HasKey(l, k) /\ l.body.val = v /\ \A j : HasKey(l, j) => j = k
        /\ ~IsRule(l) /\ ~IsKind(l, "dashes")
    BY <2>1, PropLine
  <2> QED
    BY <2>2 DEF l
<1> HIDE DEF f, n
<1>4. FmAt(U, f + 1)
  <2>1. U[1] = T[1] /\ U[f + 1] = T[f]
    <3>1. 1 \in 1 .. f - 1 /\ f \in f .. n
      BY <1>1
    <3> QED
      BY <3>1, <1>2
  <2>2. \A i \in 2 .. (f + 1) - 1 : ~(IsRule(U[i]) /\ ~U[i].bom)
    <3> TAKE i \in 2 .. (f + 1) - 1
    <3>1. CASE i = f
      BY <3>1, <1>3
    <3>2. CASE i # f
      <4>1. i \in 2 .. f - 1 /\ i \in 1 .. f - 1
        BY <3>2, <1>1
      <4> QED
        BY <4>1, <1>1, <1>2 DEF FmAt
    <3> QED
      BY <3>1, <3>2
  <2>3. \A i \in 3 .. (f + 1) - 1 : ~IsKind(U[i], "dashes")
    <3> TAKE i \in 3 .. (f + 1) - 1
    <3>1. CASE i = f
      BY <3>1, <1>3
    <3>2. CASE i # f
      <4>1. i \in 3 .. f - 1 /\ i \in 1 .. f - 1
        BY <3>2, <1>1
      <4> QED
        BY <4>1, <1>1, <1>2 DEF FmAt
    <3> QED
      BY <3>1, <3>2
  <2>4. f + 1 \in 3 .. Len(U)
    BY <1>1, <1>2
  <2>5. IsRule(T[1]) /\ IsRule(T[f]) /\ T[f].bom = FALSE
    BY <1>1 DEF FmAt
  <2> QED
    BY <2>1, <2>2, <2>3, <2>4, <2>5 DEF FmAt
<1>5. FmEnd(U) = f + 1 /\ FmBounds(U) = f + 1 /\ HasFm(U)
  BY <1>2, <1>4, FmFound
<1>6. f \in Nat /\ f >= 3 /\ (f + 1) - 1 = f
  BY <1>1
<1>7. ASSUME NEW j, j # k
      PROVE  KeyLines(U, j) = KeyLines(T, j)
  <2>1. ASSUME NEW y \in KeyLines(U, j) PROVE y \in KeyLines(T, j)
    <3>1. y \in 2 .. f /\ HasKey(U[y], j)
      BY <1>5, <1>6 DEF KeyLines
    <3>2. y # f
      BY <3>1, <1>3, <1>7
    <3>3. y \in 2 .. f - 1 /\ y \in 1 .. f - 1
      BY <3>1, <3>2, <1>6
    <3> QED
      BY <3>1, <3>3, <1>2 DEF KeyLines, f
  <2>2. ASSUME NEW y \in KeyLines(T, j) PROVE y \in KeyLines(U, j)
    <3>1. y \in 2 .. f - 1 /\ HasKey(T[y], j)
      BY DEF KeyLines, f
    <3>2. y \in 2 .. f /\ y \in 1 .. f - 1
      BY <3>1, <1>6
    <3> QED
      BY <3>1, <3>2, <1>2, <1>5, <1>6 DEF KeyLines
  <2> QED
    BY <2>1, <2>2
<1>8. ASSUME NEW j, j # k PROVE Entry(U, j) = Entry(T, j)
  <2>1. KeyLines(U, j) = KeyLines(T, j)
    BY <1>7, <1>8
  <2>2. \A y \in KeyLines(T, j) : U[y].body = T[y].body
    <3> TAKE y \in KeyLines(T, j)
    <3>1. y \in 2 .. f - 1
      BY DEF KeyLines, f
    <3>2. y \in 1 .. f - 1
      BY <3>1, <1>6
    <3> QED
      BY <3>2, <1>2
  <2> QED
    BY <2>1, <2>2, <1>2, <1>5, SamePropMoved
<1>9. KeyLines(U, k) = {f}
  <2>1. f \in KeyLines(U, k)
    <3>1. f \in 2 .. (f + 1) - 1
      BY <1>6
    <3> QED
      BY <3>1, <1>3, <1>5 DEF KeyLines
  <2>2. ASSUME NEW y \in KeyLines(U, k), y # f PROVE FALSE
    <3>1. y \in 2 .. f /\ HasKey(U[y], k)
      BY <1>5, <1>6 DEF KeyLines
    <3>2. y \in 2 .. f - 1 /\ y \in 1 .. f - 1
      BY <3>1, <2>2, <1>6
    <3>3. y \in KeyLines(T, k)
      BY <3>1, <3>2, <1>2 DEF KeyLines, f
    <3> QED
      BY <3>3
  <2> QED
    BY <2>1, <2>2
<1>10. Entry(U, k) = {v}
  <2>1. \A y \in KeyLines(U, k) : y <= f
    BY <1>9, <1>6
  <2> QED
    BY <2>1, <1>9, <1>5, <1>3, <1>2, EntryIs
<1>11. Body(U) = Body(T)
  <2>1. \A i \in f + 1 .. n : U[(f + 1) + (i - f)] = T[i]
    <3> TAKE i \in f + 1 .. n
    <3>1. i \in f .. n /\ (f + 1) + (i - f) = i + 1
      BY <1>1
    <3> QED
      BY <3>1, <1>2
  <2>2. Len(U) - (f + 1) = n - f /\ f + 1 \in Nat
    BY <1>1, <1>2
  <2> QED
    BY <2>1, <2>2, <1>1, <1>2, <1>5, <1>6, BodyIs DEF n
<1> QED
  BY <1>8, <1>10, <1>11 DEF Reads

LEMMA ToppedReads ==
  ASSUME NEW T \in Notes, FmAgrees(T), ~HasFm(T), NEW k \in STRING, NEW v \in Seq(Signs),
         NEW eol \in BOOLEAN, NEW U, Topped(T, U, PropBlock(k, v, eol))
  PROVE  Reads(T, U, k, {v})
<1> DEFINE n == Len(T)
           b == PropBlock(k, v, eol)
<1>1. n \in Nat \ {0} /\ FmBounds(T) = 0
  <2>1. n \in Nat \ {0} /\ T \in Seq(LineSet)
    BY LastLine DEF Notes
  <2>2. FmEnd(T) \in Nat
    BY <2>1, FmEndIs
  <2> QED
    BY <2>1, <2>2 DEF FmAgrees, HasFm
<1>2. /\ Len(b) = 3 /\ b[1] = Line(Rule, eol) /\ b[2] = Line(Prop(k, v), eol)
      /\ b[3] = Line(Rule, eol)
  BY PropBlockIs
<1> HIDE DEF b, n
<1>3. /\ U \in Notes /\ Len(U) = 3 + n
      /\ U[1].body = b[1].body
      /\ \A i \in 2 .. 3 : U[i] = b[i]
      /\ U[3 + 1].body = T[1].body /\ U[3 + 1].cr = T[1].cr
      /\ \A i \in 2 .. n : U[3 + i] = T[i]
  BY <1>2 DEF Topped, b, n
<1>4. /\ IsRule(U[1]) /\ IsRule(U[3]) /\ U[3].bom = FALSE
      /\ U[2].body = Prop(k, v) /\ U[2].bom = FALSE
  BY <1>2, <1>3 DEF IsRule, Line
<1>5. /\ HasKey(U[2], k) /\ U[2].body.val = v /\ \A j : HasKey(U[2], j) => j = k
      /\ ~IsRule(U[2]) /\ ~IsKind(U[2], "dashes")
  BY <1>4, PropLine
<1>6. FmAt(U, 3)
  <2>1. \A i \in 2 .. 3 - 1 : i = 2
    OBVIOUS
  <2>2. \A i \in 3 .. 3 - 1 : FALSE
    OBVIOUS
  <2>3. 3 \in 3 .. Len(U)
    BY <1>1, <1>3
  <2> QED
    BY <2>1, <2>2, <2>3, <1>4, <1>5 DEF FmAt
<1>7. FmEnd(U) = 3 /\ FmBounds(U) = 3 /\ HasFm(U)
  BY <1>3, <1>6, FmFound
<1>8. \A j, y : y \in KeyLines(U, j) <=> y = 2 /\ HasKey(U[2], j)
  <2>1. \A y : y \in 2 .. 3 - 1 <=> y = 2
    OBVIOUS
  <2> QED
    BY <2>1, <1>7 DEF KeyLines
<1>9. Entry(U, k) = {v}
  <2>1. 2 \in KeyLines(U, k) /\ \A y \in KeyLines(U, k) : y <= 2
    BY <1>8, <1>5
  <2> QED
    BY <2>1, <1>3, <1>5, <1>7, EntryIs
<1>10. ASSUME NEW j, j # k PROVE Entry(U, j) = Entry(T, j)
  <2>1. KeyLines(U, j) = {}
    BY <1>8, <1>5, <1>10
  <2>2. Entry(U, j) = {}
    BY <2>1, <1>3, <1>7, EntryIs
  <2>3. Entry(T, j) = {}
    BY EntryIs
  <2> QED
    BY <2>2, <2>3
<1>11. Body(U) = Body(T)
  <2>1. \A i \in 0 + 1 .. n : U[3 + (i - 0)].body = T[i].body /\ U[3 + (i - 0)].cr = T[i].cr
    <3> TAKE i \in 0 + 1 .. n
    <3>1. CASE i = 1
      BY <3>1, <1>3
    <3>2. CASE i # 1
      <4>1. i \in 2 .. n /\ 3 + (i - 0) = 3 + i
        BY <3>2, <1>1
      <4> QED
        BY <4>1, <1>3
    <3> QED
      BY <3>1, <3>2
  <2>2. Len(U) - 3 = n - 0
    BY <1>1, <1>3
  <2>3. \A i \in FmBounds(T) + 1 .. Len(T) :
          /\ U[FmBounds(U) + (i - FmBounds(T))].body = T[i].body
          /\ U[FmBounds(U) + (i - FmBounds(T))].cr = T[i].cr
    BY <2>1, <1>1, <1>7 DEF n
  <2>4. /\ FmBounds(T) \in Nat /\ FmBounds(U) \in Nat
        /\ Len(U) - FmBounds(U) = Len(T) - FmBounds(T)
    BY <2>2, <1>1, <1>7 DEF n
  <2> QED
    BY <2>3, <2>4, <1>3, BodyIs
<1> QED
  BY <1>9, <1>10, <1>11 DEF Reads

LEMMA AssignedReads ==
  ASSUME NEW T \in Notes, FmAgrees(T), NEW k \in STRING, NEW v \in Seq(Signs), Once(T, k)
  PROVE  Reads(T, Assigned(T, k, v), k, {v})
<1>1. CASE HasFm(T)
  <2> DEFINE U == Assigned(T, k, v)
  <2>1. \/ \E x \in KeyLines(T, k) : SetLine(T, U, x, Prop(k, v))
        \/ /\ KeyLines(T, k) = {}
           /\ NewLine(T, U, FmEnd(T), Line(Prop(k, v), T[FmEnd(T) - 1].cr))
    BY <1>1, AssignedIs
  <2> HIDE DEF U
  <2>2. ASSUME NEW x \in KeyLines(T, k), SetLine(T, U, x, Prop(k, v))
        PROVE  Reads(T, U, k, {v})
    BY <2>2, <1>1, SetLineReads
  <2>3. ASSUME KeyLines(T, k) = {},
               NewLine(T, U, FmEnd(T), Line(Prop(k, v), T[FmEnd(T) - 1].cr))
        PROVE  Reads(T, U, k, {v})
    BY <2>3, <1>1, NewLineReads
  <2> QED
    BY <2>1, <2>2, <2>3 DEF U
<1>2. CASE ~HasFm(T)
  <2> DEFINE b == PropBlock(k, v, FirstEol(T))
  <2>1. Assigned(T, k, v) = OnTop(T, b)
    BY <1>2 DEF Assigned
  <2>2. FirstEol(T) \in BOOLEAN
    BY FirstEolIs
  <2>3. b \in Notes
    BY <2>2, PropBlockIs
  <2>4. Topped(T, OnTop(T, b), b)
    BY <2>3, OnTopIs
  <2> QED
    BY <2>1, <2>2, <2>4, <1>2, ToppedReads
<1> QED
  BY <1>1, <1>2

\* Line i + 1 of U, in a frontmatter that lost its lines of the key k.
LEMMA ClearedIs ==
  ASSUME NEW T \in Notes, FmAgrees(T), HasFm(T), NEW k, NEW U, NEW idx,
         Cleared(T, U, k, idx)
  PROVE  LET f == FmEnd(T)
             m == IF Len(idx) = 0 THEN 1 ELSE Len(idx) IN
         /\ U \in Notes /\ m \in Nat \ {0} /\ Len(U) = Len(T) + 2 + m - f
         /\ FmEnd(U) = 2 + m /\ FmBounds(U) = 2 + m /\ HasFm(U)
         /\ Len(idx) \in Nat /\ Len(idx) <= m
         /\ \A i \in 1 .. Len(idx) :
              /\ U[1 + i] = T[1 + idx[i]] /\ 1 + idx[i] \in 2 .. f - 1
              /\ ~HasKey(T[1 + idx[i]], k)
         /\ \A i, j \in 1 .. Len(idx) : i < j => idx[i] < idx[j]
         /\ \A x \in 2 .. f - 1 : ~HasKey(T[x], k) => \E i \in 1 .. Len(idx) : 1 + idx[i] = x
         /\ Len(idx) = 0 => m = 1 /\ \A j : ~HasKey(U[2], j)
         /\ Len(idx) # 0 => m = Len(idx)
         /\ \A i \in f .. Len(T) : U[2 + m + (i - f)] = T[i]
<1> DEFINE n == Len(T)
           f == FmEnd(T)
           m == IF Len(idx) = 0 THEN 1 ELSE Len(idx)
           S == {i \in 1 .. f - 2 : ~HasKey(T[i + 1], k)}
<1>1. FmAt(T, f) /\ FmBounds(T) = f /\ f \in 3 .. n /\ n \in Nat
  BY FmIs DEF Notes
<1>2. /\ Lists(idx, S) /\ U \in Notes /\ Len(U) = 1 + m + (n - f + 1) /\ U[1] = T[1]
      /\ Len(idx) = 0 => U[2] = Line(Blank, T[f - 1].cr)
      /\ \A i \in 1 .. Len(idx) : U[1 + i] = T[1 + idx[i]]
      /\ \A i \in f .. n : U[2 + m + (i - f)] = T[i]
  BY DEF Cleared
<1>3. /\ Len(idx) \in Nat
      /\ \A i, j \in 1 .. Len(idx) : i < j => idx[i] < idx[j]
      /\ \A i \in 1 .. Len(idx) : idx[i] \in S
      /\ \A x \in S : \E i \in 1 .. Len(idx) : idx[i] = x
  <2> HIDE DEF S
  <2>1. /\ idx \in Seq(Nat)
        /\ \A i, j \in 1 .. Len(idx) : i < j => idx[i] < idx[j]
        /\ \A x : x \in S <=> \E i \in 1 .. Len(idx) : idx[i] = x
    BY <1>2 DEF Lists
  <2> QED
    BY <2>1
<1>4. m \in Nat \ {0} /\ (Len(idx) = 0 => m = 1) /\ (Len(idx) # 0 => m = Len(idx))
      /\ Len(idx) <= m
  BY <1>3
<1> HIDE DEF n, f, m
<1>5. \A i \in 1 .. Len(idx) : /\ 1 + idx[i] \in 2 .. f - 1 /\ ~HasKey(T[1 + idx[i]], k)
                               /\ idx[i] \in 1 .. f - 2
  <2> TAKE i \in 1 .. Len(idx)
  <2>1. idx[i] \in 1 .. f - 2 /\ ~HasKey(T[idx[i] + 1], k)
    BY <1>3
  <2>2. idx[i] + 1 = 1 + idx[i] /\ 1 + idx[i] \in 2 .. f - 1
    BY <2>1, <1>1
  <2> QED
    BY <2>1, <2>2
<1>6. ASSUME NEW x \in 2 .. f - 1, ~HasKey(T[x], k)
      PROVE  \E i \in 1 .. Len(idx) : 1 + idx[i] = x
  <2>1. x - 1 \in 1 .. f - 2 /\ (x - 1) + 1 = x /\ 1 + (x - 1) = x
    BY <1>1
  <2>2. x - 1 \in S
    BY <2>1, <1>6
  <2>3. PICK i \in 1 .. Len(idx) : idx[i] = x - 1
    BY <2>2, <1>3
  <2> QED
    BY <2>3, <2>1
<1> HIDE DEF S
<1>7. Len(idx) = 0 => \A j : ~HasKey(U[2], j)
  <2>1. \A c : Line(Blank, c).body.kind = "blank"
    BY DEF Line, Blank
  <2> QED
    BY <2>1, <1>2 DEF HasKey, IsKind
<1>8. U[2 + m] = T[f]
  <2>1. f \in f .. n /\ 2 + m + (f - f) = 2 + m
    BY <1>1, <1>4
  <2> QED
    BY <2>1, <1>2
<1>9. Len(idx) = 0 => ~IsRule(U[2])
  <2>1. \A c : Line(Blank, c).body.kind = "blank"
    BY DEF Line, Blank
  <2> QED
    BY <2>1, <1>2, RuleIsABody DEF IsRule
<1>10. \A i \in 2 .. (2 + m) - 1 : ~(IsRule(U[i]) /\ ~U[i].bom)
  <2> TAKE i \in 2 .. (2 + m) - 1
  <2>1. CASE Len(idx) = 0
    <3>1. i = 2
      BY <2>1, <1>4
    <3> QED
      BY <3>1, <2>1, <1>9
  <2>2. CASE Len(idx) # 0
    <3>1. i - 1 \in 1 .. Len(idx) /\ 1 + (i - 1) = i
      BY <2>2, <1>4
    <3>2. U[i] = T[1 + idx[i - 1]] /\ 1 + idx[i - 1] \in 2 .. f - 1
      BY <3>1, <1>2, <1>5
    <3> QED
      BY <3>2, <1>1 DEF FmAt
  <2> QED
    BY <2>1, <2>2
<1>11. \A i \in 3 .. (2 + m) - 1 : ~IsKind(U[i], "dashes")
  <2> TAKE i \in 3 .. (2 + m) - 1
  <2>1. Len(idx) # 0
    BY <1>4
  <2>2. i - 1 \in 1 .. Len(idx) /\ 1 + (i - 1) = i /\ 1 \in 1 .. Len(idx) /\ 1 < i - 1
    BY <2>1, <1>4
  <2>3. U[i] = T[1 + idx[i - 1]]
    BY <2>2, <1>2
  <2>4. idx[1] < idx[i - 1] /\ idx[1] \in 1 .. f - 2 /\ idx[i - 1] \in 1 .. f - 2
    BY <2>2, <1>3, <1>5
  <2>5. 1 + idx[i - 1] \in 3 .. f - 1
    BY <2>4, <1>1
  <2> QED
    BY <2>3, <2>5, <1>1 DEF FmAt
<1>12. Len(U) = n + 2 + m - f /\ 2 + m \in 3 .. Len(U)
  BY <1>1, <1>2, <1>4
<1>13. IsRule(T[1]) /\ IsRule(T[f]) /\ T[f].bom = FALSE
  BY <1>1 DEF FmAt
<1>14. FmAt(U, 2 + m)
  BY <1>2, <1>8, <1>10, <1>11, <1>12, <1>13 DEF FmAt
<1>15. FmEnd(U) = 2 + m /\ FmBounds(U) = 2 + m /\ HasFm(U)
  BY <1>2, <1>14, FmFound
<1> QED
  BY <1>2, <1>3, <1>4, <1>5, <1>6, <1>7, <1>12, <1>15 DEF n, f, m

LEMMA ClearedReads ==
  ASSUME NEW T \in Notes, FmAgrees(T), HasFm(T), NEW k, NEW U, NEW idx,
         Cleared(T, U, k, idx)
  PROVE  Reads(T, U, k, {})
<1> DEFINE n == Len(T)
           f == FmEnd(T)
           m == IF Len(idx) = 0 THEN 1 ELSE Len(idx)
<1>1. /\ U \in Notes /\ m \in Nat \ {0} /\ Len(U) = n + 2 + m - f
      /\ FmEnd(U) = 2 + m /\ FmBounds(U) = 2 + m /\ HasFm(U)
      /\ Len(idx) \in Nat /\ Len(idx) <= m
      /\ \A i \in 1 .. Len(idx) :
           /\ U[1 + i] = T[1 + idx[i]] /\ 1 + idx[i] \in 2 .. f - 1
           /\ ~HasKey(T[1 + idx[i]], k)
      /\ \A i, j \in 1 .. Len(idx) : i < j => idx[i] < idx[j]
      /\ \A x \in 2 .. f - 1 : ~HasKey(T[x], k) => \E i \in 1 .. Len(idx) : 1 + idx[i] = x
      /\ Len(idx) = 0 => m = 1 /\ \A j : ~HasKey(U[2], j)
      /\ Len(idx) # 0 => m = Len(idx)
      /\ \A i \in f .. n : U[2 + m + (i - f)] = T[i]
  BY ClearedIs, SMTT(30)
<1>2. f \in 3 .. n /\ n \in Nat /\ FmBounds(T) = f
  BY FmIs DEF Notes
<1> HIDE DEF n, f, m
<1>7. \A i \in 1 .. Len(idx) : idx[i] \in Int
  BY DEF Cleared, Lists
<1>3. ASSUME NEW j, NEW y \in KeyLines(U, j)
      PROVE  y - 1 \in 1 .. Len(idx) /\ 1 + (y - 1) = y
  <2>1. y \in 2 .. (2 + m) - 1 /\ HasKey(U[y], j)
    BY <1>1 DEF KeyLines
  <2>2. Len(idx) # 0
    <3> SUFFICES ASSUME Len(idx) = 0 PROVE FALSE
      OBVIOUS
    <3>1. y = 2
      BY <2>1, <1>1
    <3> QED
      BY <3>1, <2>1, <1>1
  <2>3. m = Len(idx)
    BY <2>2, <1>1
  <2> QED
    BY <2>1, <2>3, <1>1
<1>4. KeyLines(U, k) = {}
  <2> SUFFICES ASSUME NEW y \in KeyLines(U, k) PROVE FALSE
    OBVIOUS
  <2>1. y - 1 \in 1 .. Len(idx) /\ 1 + (y - 1) = y
    BY <1>3
  <2>2. U[y] = T[1 + idx[y - 1]] /\ ~HasKey(T[1 + idx[y - 1]], k)
    BY <2>1, <1>1
  <2>3. HasKey(U[y], k)
    BY DEF KeyLines
  <2> QED
    BY <2>2, <2>3
<1>5. Entry(U, k) = {}
  BY <1>1, <1>4, EntryIs
<1>6. ASSUME NEW j, j # k PROVE Entry(U, j) = Entry(T, j)
  <2>1. ASSUME NEW x \in KeyLines(T, j)
        PROVE  \E i \in 1 .. Len(idx) : 1 + idx[i] = x /\ 1 + i \in KeyLines(U, j)
    <3>1. x \in 2 .. f - 1 /\ HasKey(T[x], j)
      BY DEF KeyLines, f
    <3>2. ~HasKey(T[x], k)
      BY <3>1, <1>6 DEF HasKey
    <3>3. PICK i \in 1 .. Len(idx) : 1 + idx[i] = x
      BY <3>1, <3>2, <1>1
    <3>4. HasKey(U[1 + i], j)
      BY <3>1, <3>3, <1>1
    <3>5. 1 + i \in 2 .. (2 + m) - 1
      BY <1>1
    <3> QED
      BY <3>3, <3>4, <3>5, <1>1 DEF KeyLines
  <2>2. ASSUME NEW y \in KeyLines(U, j)
        PROVE  y - 1 \in 1 .. Len(idx) /\ 1 + (y - 1) = y /\ 1 + idx[y - 1] \in KeyLines(T, j)
    <3>1. y - 1 \in 1 .. Len(idx) /\ 1 + (y - 1) = y
      BY <1>3
    <3>2. U[y] = T[1 + idx[y - 1]] /\ 1 + idx[y - 1] \in 2 .. f - 1
      BY <3>1, <1>1
    <3>3. HasKey(T[1 + idx[y - 1]], j)
      BY <3>2 DEF KeyLines
    <3> QED
      BY <3>1, <3>2, <3>3 DEF KeyLines, f
  <2>3. KeyLines(T, j) = {} => KeyLines(U, j) = {}
    BY <2>2
  <2>4. ASSUME NEW x \in KeyLines(T, j), \A y \in KeyLines(T, j) : y <= x
        PROVE  \E z \in KeyLines(U, j) : /\ U[z].body = T[x].body
                                         /\ \A w \in KeyLines(U, j) : w <= z
    <3>1. PICK i \in 1 .. Len(idx) : 1 + idx[i] = x /\ 1 + i \in KeyLines(U, j)
      BY <2>1
    <3>2. U[1 + i].body = T[x].body
      BY <3>1, <1>1
    <3>3. \A w \in KeyLines(U, j) : w <= 1 + i
      <4> SUFFICES ASSUME NEW w \in KeyLines(U, j), ~(w <= 1 + i) PROVE FALSE
        OBVIOUS
      <4>1. w - 1 \in 1 .. Len(idx) /\ 1 + (w - 1) = w /\ 1 + idx[w - 1] \in KeyLines(T, j)
        BY <2>2
      <4>2. w \in Int /\ i < w - 1
        BY <4>1, <1>1
      <4>3. idx[i] < idx[w - 1]
        BY <4>1, <4>2, <1>1
      <4>4. 1 + idx[w - 1] <= 1 + idx[i]
        BY <4>1, <3>1, <2>4
      <4>5. 1 + idx[i] \in 2 .. f - 1 /\ 1 + idx[w - 1] \in 2 .. f - 1
        BY <4>1, <1>1
      <4> DEFINE p == idx[i]
                 q == idx[w - 1]
      <4>6. p < q /\ 1 + q <= 1 + p /\ p \in Int /\ q \in Int
        <5>1. \A i2 \in 1 .. Len(idx) : idx[i2] \in Int
          BY <1>7
        <5> QED
          BY <5>1, <4>1, <4>3, <4>4
      <4> HIDE DEF p, q
      <4> QED
        BY <4>6
    <3> QED
      BY <3>1, <3>2, <3>3
  <2> QED
    BY <2>3, <2>4, <1>1, SamePropMoved
<1>8. Body(U) = Body(T)
  <2>1. \A i \in f + 1 .. n : U[(2 + m) + (i - f)] = T[i]
    <3> TAKE i \in f + 1 .. n
    <3>1. i \in f .. n
      BY <1>2
    <3> QED
      BY <3>1, <1>1
  <2>2. Len(U) - (2 + m) = n - f /\ 2 + m \in Nat /\ f \in Nat
    BY <1>1, <1>2
  <2>3. \A i \in FmBounds(T) + 1 .. Len(T) :
          /\ U[FmBounds(U) + (i - FmBounds(T))].body = T[i].body
          /\ U[FmBounds(U) + (i - FmBounds(T))].cr = T[i].cr
    BY <2>1, <1>1, <1>2 DEF n
  <2>4. /\ FmBounds(T) \in Nat /\ FmBounds(U) \in Nat
        /\ Len(U) - FmBounds(U) = Len(T) - FmBounds(T)
    BY <2>2, <1>1, <1>2 DEF n
  <2> QED
    BY <2>3, <2>4, <1>1, BodyIs
<1> QED
  BY <1>5, <1>6, <1>8 DEF Reads

\* The form e is w, but for double quotes around it.
LEMMA StrippedIs ==
  ASSUME NEW X, NEW e \in Seq(X), NEW a \in 1 .. Len(e), NEW b \in 1 .. Len(e),
         e[a] # "dq", e[b] # "dq",
         \A i \in 1 .. Len(e) : e[i] # "dq" => a <= i /\ i <= b
  PROVE  Stripped(e) = SubSeq(e, a, b)
<1> DEFINE kept == {i \in DOMAIN e : e[i] # "dq"}
<1>1. DOMAIN e = 1 .. Len(e) /\ Len(e) \in Nat
  BY LenProperties
<1>2. kept \in SUBSET Nat /\ a \in kept /\ b \in kept /\ \A i \in kept : a <= i /\ i <= b
  BY <1>1
<1>3. Stripped(e) = IF kept = {} THEN <<>> ELSE SubSeq(e, Min(kept), Max(kept))
  BY DEF Stripped
<1> HIDE DEF kept
<1>4. Min(kept) = a
  <2>1. Min(kept) \in kept /\ \A y \in kept : Min(kept) <= y
    BY <1>2, MinIs
  <2>2. Min(kept) <= a /\ a <= Min(kept) /\ Min(kept) \in Nat /\ a \in Nat
    BY <1>2, <2>1
  <2> HIDE DEF kept
  <2> QED
    BY <2>2
<1>5. Max(kept) = b
  <2>1. Max(kept) \in kept /\ \A y \in kept : y <= Max(kept)
    BY <1>1, <1>2, MaxIs
  <2>2. Max(kept) <= b /\ b <= Max(kept) /\ Max(kept) \in Nat /\ b \in Nat
    BY <1>2, <2>1
  <2> QED
    BY <2>2
<1> QED
  BY <1>2, <1>3, <1>4, <1>5

LEMMA OnlyQuotes ==
  ASSUME NEW X, NEW e \in Seq(X), \A i \in 1 .. Len(e) : e[i] = "dq"
  PROVE  Stripped(e) = <<>>
<1>1. DOMAIN e = 1 .. Len(e)
  BY LenProperties
<1> QED
  BY <1>1 DEF Stripped

\* w stands between two double quotes in e and has none itself.
LEMMA QuotesStripped ==
  ASSUME NEW X, NEW e \in Seq(X), NEW w \in Seq(X), Len(e) = Len(w) + 2,
         e[1] = "dq", e[Len(e)] = "dq",
         \A i \in 1 .. Len(w) : e[i + 1] = w[i] /\ w[i] # "dq"
  PROVE  Stripped(e) = w
<1> DEFINE n == Len(w)
<1>1. n \in Nat /\ Len(e) = n + 2
  OBVIOUS
<1> HIDE DEF n
<1>2. \A i \in 1 .. n : e[i + 1] = w[i] /\ w[i] # "dq"
  BY DEF n
<1>3. CASE n = 0
  <2>1. \A i \in 1 .. Len(e) : i = 1 \/ i = Len(e)
    BY <1>1, <1>3
  <2>2. Stripped(e) = <<>>
    BY <2>1, OnlyQuotes
  <2> QED
    BY <2>2, <1>3, EmptySeq DEF n
<1>4. CASE n # 0
  <2>1. 2 \in 1 .. Len(e) /\ n + 1 \in 1 .. Len(e) /\ 1 \in 1 .. n /\ n \in 1 .. n
    BY <1>1, <1>4
  <2>2. e[2] # "dq" /\ e[n + 1] # "dq"
    BY <2>1, <1>2
  <2>3. ASSUME NEW i \in 1 .. Len(e), e[i] # "dq" PROVE 2 <= i /\ i <= n + 1
    <3>1. i # 1 /\ i # Len(e)
      BY <2>3
    <3> QED
      BY <3>1, <1>1
  <2>4. Stripped(e) = SubSeq(e, 2, n + 1)
    BY <2>1, <2>2, <2>3, StrippedIs
  <2>5. SubSeq(e, 2, n + 1) \in Seq(X) /\ Len(SubSeq(e, 2, n + 1)) = n
        /\ \A i \in 1 .. n : SubSeq(e, 2, n + 1)[i] = e[i + 1]
    BY <1>1, <1>4
  <2> DEFINE u == SubSeq(e, 2, n + 1)
  <2> HIDE DEF u
  <2>6. u \in Seq(X) /\ Len(u) = Len(w) /\ \A i \in 1 .. Len(w) : u[i] = w[i]
    BY <2>5, <1>2 DEF u, n
  <2>7. u = w
    BY <2>6, SeqEqual
  <2> QED
    BY <2>4, <2>7 DEF u
<1> QED
  BY <1>3, <1>4

\* fm_props undoes what yaml_scalar did, where nothing had to be escaped.
LEMMA FormReadsBack ==
  ASSUME NEW v \in Seq(STRING), ReadsBack(v)
  PROVE  Stripped(Scalar(v)) = Meant(v)
<1> DEFINE n == Len(v)
           quoted == WellformedQuoted(v) /\ v[1] = "dq"
           clear == \A i \in DOMAIN Meant(v) : Meant(v)[i] \notin {"bs", "dq", "nl"}
<1>1. n \in Nat /\ v \in Seq(Signs) /\ DOMAIN v = 1 .. n
  BY LenProperties DEF Signs
<1>2. CASE v = <<>>
  <2>1. ~quoted /\ Meant(v) = v
    BY <1>2 DEF WellformedQuoted, Meant
  <2>2. Layout(v, Scalar(v), [i \in 0 .. 0 |-> 0])
    BY <1>2, EmptyQuotes DEF Scalar
  <2>3. Scalar(v) \in Seq(Signs) /\ Len(Scalar(v)) = 2
        /\ Scalar(v)[1] = "dq" /\ Scalar(v)[2] = "dq"
    BY <2>2, <1>2 DEF Layout
  <2>4. Stripped(Scalar(v)) = <<>>
    <3>1. \A i \in 1 .. Len(Scalar(v)) : Scalar(v)[i] = "dq"
      BY <2>3
    <3> QED
      BY <3>1, <2>3, OnlyQuotes
  <2> QED
    BY <2>1, <2>4, <1>2
<1>3. CASE v # <<>> /\ quoted
  <2>1. Scalar(v) = v /\ n >= 2 /\ v[1] = "dq" /\ v[n] = "dq"
    BY <1>3 DEF Scalar, AuthorsForm, WellformedQuoted
  <2>2. Meant(v) = SubSeq(v, 2, n - 1)
    BY <1>3 DEF Meant
  <2> HIDE DEF n
  <2> DEFINE w == SubSeq(v, 2, n - 1)
  <2>3. w \in Seq(STRING) /\ Len(w) = n - 2 /\ n - 2 \in Nat
        /\ \A i \in 1 .. n - 2 : w[i] = v[i + 1]
    <3>1. n = Len(v)
      BY DEF n
    <3> QED
      BY <3>1, <2>1, <1>1
  <2>4. ~(AuthorsForm(v) /\ "dq" \notin {v[1], Last(v)})
    BY <2>1
  <2>5. clear
    BY <2>1 DEF ReadsBack
  <2> HIDE DEF w
  <2>6. \A i \in 1 .. n - 2 : w[i] # "dq"
    <3>1. DOMAIN w = 1 .. n - 2
      BY <2>3, LenProperties
    <3> QED
      BY <3>1, <2>2, <2>5 DEF w
  <2>7. Stripped(v) = w
    <3>1. Len(v) = Len(w) + 2 /\ v[Len(v)] = "dq"
      BY <2>1, <2>3, <1>1 DEF n
    <3> QED
      BY <3>1, <2>1, <2>3, <2>6, QuotesStripped
  <2> QED
    BY <2>1, <2>2, <2>7 DEF w
<1>4. CASE v # <<>> /\ ~quoted /\ Scalar(v) = v
  <2>1. Meant(v) = v /\ n # 0
    BY <1>4, EmptySeq DEF Meant
  <2>2. v[1] # "dq" /\ v[n] # "dq"
    <3>1. Last(v) = v[n]
      BY DEF Last
    <3>2. 1 \in DOMAIN v /\ n \in DOMAIN v
      BY <2>1, <1>1
    <3>3. CASE clear
      BY <3>2, <3>3, <2>1
    <3> QED
      BY <3>1, <3>3 DEF ReadsBack
  <2>3. 1 \in 1 .. n /\ n \in 1 .. n /\ \A i \in 1 .. n : 1 <= i /\ i <= n
    BY <1>1, <2>1
  <2>4. Stripped(v) = SubSeq(v, 1, n)
    BY <2>2, <2>3, StrippedIs
  <2>5. SubSeq(v, 1, n) = v
    BY <1>1
  <2> QED
    BY <2>1, <2>4, <2>5, <1>4
<1>5. CASE v # <<>> /\ ~quoted /\ Scalar(v) # v
  <2>1. /\ ~AuthorsForm(v) /\ NeedsQuotes(v)
        /\ Scalar(v) = <<"dq">> \o Escaped(v) \o <<"dq">>
    BY <1>5 DEF Scalar
  <2>2. Meant(v) = v
    BY <1>5 DEF Meant
  <2>3. \A i \in 1 .. n : v[i] \notin Special
    BY <2>1, <2>2, <1>1 DEF ReadsBack, Special
  <2>4. PICK p : Layout(v, Scalar(v), p)
    BY <1>1, <1>5, <2>1, EscapedIs
  <2> DEFINE e == Scalar(v)
  <2> HIDE DEF e
  <2>5. /\ p \in [0 .. n -> Nat] /\ p[0] = 0 /\ e \in Seq(Signs) /\ Len(e) = p[n] + 2
        /\ e[1] = "dq" /\ e[Len(e)] = "dq"
        /\ \A i \in 1 .. n : p[i] = p[i - 1] + 1 /\ e[p[i - 1] + 2] = v[i]
    BY <2>3, <2>4 DEF Layout, e
  <2>6. \A i \in 0 .. n : p[i] = i
    <3> DEFINE G == {i \in 0 .. n : p[i] = i}
    <3>1. 0 \in G
      BY <2>5, <1>1
    <3>2. \A i \in 0 + 1 .. n : i - 1 \in G => i \in G
      <4> HIDE DEF n
      <4> QED
        BY <2>5, <1>1
    <3> HIDE DEF G, n
    <3>3. \A i \in 0 .. n : i \in G
      BY <3>1, <3>2, <1>1, StepByStep
    <3> QED
      BY <3>3 DEF G
  <2> HIDE DEF n
  <2>7. Len(e) = n + 2 /\ \A i \in 1 .. n : e[i + 1] = v[i] /\ v[i] # "dq"
    <3>1. n \in 0 .. n /\ \A i \in 1 .. n : i - 1 \in 0 .. n /\ (i - 1) + 2 = i + 1
      BY <1>1
    <3>2. Len(e) = n + 2
      BY <3>1, <2>5, <2>6
    <3>3. \A i \in 1 .. n : v[i] # "dq"
      BY <2>3 DEF Special
    <3>4. ASSUME NEW i \in 1 .. n PROVE e[i + 1] = v[i]
      <4>1. p[i - 1] = i - 1 /\ e[p[i - 1] + 2] = v[i]
        BY <3>1, <2>5, <2>6
      <4> QED
        BY <4>1, <3>1
    <3> QED
      BY <3>2, <3>3, <3>4
  <2>8. Stripped(e) = v
    BY <1>1, <2>5, <2>7, QuotesStripped DEF n
  <2> QED
    BY <2>2, <2>8 DEF e
<1> QED
  BY <1>2, <1>3, <1>4, <1>5

\* After set the value stands in the frontmatter and the queries see it where
\* they can, after unset the key is gone; the body and the other properties
\* are as before.
THEOREM AssignedIsReadHolds == Spec => []AssignedIsRead
<1>1. NoteIsText => AssignedIsRead
  <2> SUFFICES ASSUME NoteIsText, Exists, FmAgrees(note), NEW k \in Keys
               PROVE  LET others(U) == [j \in Keys \ {k} |-> <<Entry(U, j), PropOf(U, j)>>] IN
                      /\ \A v \in Values :
                           LET U == Assigned(note, k, Scalar(v)) IN
                           Once(note, k) /\ ~Multiline(note, k) =>
                             /\ Entry(U, k) = {Scalar(v)}
                             /\ k \in Legible /\ ReadsBack(v) => PropOf(U, k) = {Meant(v)}
                             /\ others(U) = others(note) /\ Body(U) = Body(note)
                      /\ HasFm(note) =>
                           LET U == Unassigned(note, k) IN
                           /\ Entry(U, k) = {} /\ PropOf(U, k) = {}
                           /\ others(U) = others(note) /\ Body(U) = Body(note)
    BY DEF AssignedIsRead
  <2> DEFINE others(U) == [j \in Keys \ {k} |-> <<Entry(U, j), PropOf(U, j)>>]
  <2>1. note \in Notes /\ k \in STRING /\ \A v \in Values : v \in Seq(STRING)
    BY ExistsIsNote, NotesAssumption
  <2>2. ASSUME NEW U, NEW e, Reads(note, U, k, e)
        PROVE  /\ Entry(U, k) = e /\ others(U) = others(note) /\ Body(U) = Body(note)
    <3>1. \A j \in Keys \ {k} : Entry(U, j) = Entry(note, j)
      BY <2>2 DEF Reads
    <3>2. \A j \in Keys \ {k} : PropOf(U, j) = PropOf(note, j)
      BY <3>1 DEF PropOf
    <3> QED
      BY <3>1, <3>2, <2>2 DEF Reads
  <2>3. ASSUME NEW v \in Values, Once(note, k)
        PROVE  LET U == Assigned(note, k, Scalar(v)) IN
               /\ Reads(note, U, k, {Scalar(v)})
               /\ k \in Legible /\ ReadsBack(v) => PropOf(U, k) = {Meant(v)}
    <3> DEFINE e == Scalar(v)
               U == Assigned(note, k, e)
    <3>1. e \in Seq(Signs) /\ v \in Seq(STRING)
      BY <2>1, ScalarIsText
    <3>2. ReadsBack(v) => Stripped(e) = Meant(v)
      BY <3>1, FormReadsBack
    <3> HIDE DEF e
    <3>3. Reads(note, U, k, {e})
      BY <2>1, <2>3, <3>1, AssignedReads
    <3> HIDE DEF U
    <3>4. k \in Legible /\ ReadsBack(v) => PropOf(U, k) = {Meant(v)}
      <4>1. Entry(U, k) = {e}
        BY <3>3 DEF Reads
      <4>2. {Stripped(x) : x \in {e}} = {Stripped(e)}
        OBVIOUS
      <4> QED
        BY <3>2, <4>1, <4>2 DEF PropOf
    <3> QED
      BY <3>3, <3>4 DEF U, e
  <2>4. ASSUME HasFm(note)
        PROVE  LET U == Unassigned(note, k) IN
               Reads(note, U, k, {}) /\ PropOf(U, k) = {}
    <3>1. PICK idx : Cleared(note, Unassigned(note, k), k, idx)
      BY <2>1, <2>4, UnassignedIs
    <3>2. Reads(note, Unassigned(note, k), k, {})
      BY <3>1, <2>1, <2>4, ClearedReads
    <3> QED
      BY <3>2 DEF Reads, PropOf
  <2> HIDE DEF others
  <2>5. ASSUME NEW v \in Values, Once(note, k)
        PROVE  LET U == Assigned(note, k, Scalar(v)) IN
               /\ Entry(U, k) = {Scalar(v)}
               /\ k \in Legible /\ ReadsBack(v) => PropOf(U, k) = {Meant(v)}
               /\ others(U) = others(note) /\ Body(U) = Body(note)
    BY <2>2, <2>3, <2>5
  <2>6. ASSUME HasFm(note)
        PROVE  LET U == Unassigned(note, k) IN
               /\ Entry(U, k) = {} /\ PropOf(U, k) = {}
               /\ others(U) = others(note) /\ Body(U) = Body(note)
    BY <2>2, <2>4, <2>6
  <2> QED
    BY <2>5, <2>6 DEF others
<1> QED
  BY <1>1, TypeHolds, PTL

----------------------------------------------------------------------------
(* The lines that continue a value.                                        *)

Owns(T, i, y) ==
  /\ y \in 1 .. i /\ IsKind(T[y], "prop")
  /\ \A z \in 1 .. i : IsKind(T[z], "prop") => z <= y
Unowned(T, i) == \A z \in 1 .. i : ~IsKind(T[z], "prop")
Spans(T, y) ==
  \/ T[y].body.val \in BlockHeaders
  \/ T[y].body.val = <<>> /\ IsKind(T[y + 1], "indented")

LEMMA OwnerIs ==
  ASSUME NEW T, NEW i \in Nat
  PROVE  /\ Unowned(T, i) \/ \E y : Owns(T, i, y)
         /\ Unowned(T, i) => Owner(T, i) = NoLine
         /\ \A y : Owns(T, i, y) =>
              /\ Owner(T, i) = T[y]
              /\ Recognised(T) /\ i \in Continued(T) => Spans(T, y)
<1> DEFINE own == {j \in 1 .. i : IsKind(T[j], "prop")}
<1>1. own \in SUBSET (1 .. i) /\ own \in SUBSET Nat
  OBVIOUS
<1>2. Owner(T, i) = IF own = {} THEN NoLine ELSE T[Max(own)]
  BY DEF Owner
<1>3. Recognised(T) /\ i \in Continued(T) /\ own # {} => Spans(T, Max(own))
  BY DEF Recognised, Spans
<1>4. Unowned(T, i) <=> own = {}
  BY DEF Unowned
<1>5. \A y : Owns(T, i, y) <=> y \in own /\ \A z \in own : z <= y
  BY DEF Owns
<1> HIDE DEF own
<1>6. own # {} => Max(own) \in own /\ \A z \in own : z <= Max(own)
  <2> SUFFICES ASSUME own # {} PROVE Max(own) \in own /\ \A z \in own : z <= Max(own)
    OBVIOUS
  <2>1. \A z \in own : z <= i
    BY <1>1
  <2> QED
    BY <1>1, <2>1, MaxIs
<1>7. ASSUME NEW y, Owns(T, i, y) PROVE y = Max(own) /\ own # {}
  <2>1. y \in own /\ \A z \in own : z <= y
    BY <1>5, <1>7
  <2>2. own # {}
    BY <2>1
  <2>3. y <= Max(own) /\ Max(own) <= y /\ y \in Nat /\ Max(own) \in Nat
    BY <2>1, <2>2, <1>6, <1>1
  <2>4. y = Max(own)
    BY <2>3
  <2> QED
    BY <2>2, <2>4
<1>8. own # {} => Owns(T, i, Max(own))
  BY <1>5, <1>6
<1> QED
  BY <1>2, <1>3, <1>4, <1>7, <1>8

\* What set and unset do not refuse.
LEMMA WholeIs ==
  ASSUME NEW T \in Notes, FmAgrees(T), HasFm(T), NEW k, ~Multiline(T, k),
         NEW x \in KeyLines(T, k), \A y \in KeyLines(T, k) : x <= y
  PROVE  ~Spans(T, x)
<1> DEFINE fm == FmParts(T).fm
           f == FmEnd(T)
<1>1. /\ fm \in Seq(LineSet) /\ Len(fm) = f - 2
      /\ \A i \in 1 .. f - 2 : /\ fm[i].body = T[i + 1].body /\ fm[i].bom = T[i + 1].bom
                               /\ HasKey(fm[i], k) <=> HasKey(T[i + 1], k)
  BY FmPartsAre DEF FmLines
<1>2. ~BlockScalarKey(fm, k)
  BY DEF Multiline
<1>3. FmAt(T, f) /\ f \in 3 .. Len(T) /\ Len(T) \in Nat
  BY FmIs DEF Notes
<1>4. DOMAIN fm = 1 .. f - 2
  BY <1>1
<1>5. \A y : y \in KeyLines(T, k) <=> y \in 2 .. f - 1 /\ HasKey(T[y], k)
  BY DEF KeyLines
<1>6. \A i \in 1 .. f - 2 :
        HasKey(fm[i], k) /\ (\A j \in 1 .. i - 1 : ~HasKey(fm[j], k)) =>
          /\ fm[i].body.val \notin BlockHeaders
          /\ ~(fm[i].body.val = <<>> /\ i < f - 2 /\ IsKind(fm[i + 1], "indented"))
  BY <1>1, <1>2, <1>4 DEF BlockScalarKey
<1> HIDE DEF fm, f
<1>7. x - 1 \in 1 .. f - 2 /\ (x - 1) + 1 = x /\ x \in 2 .. f - 1
  BY <1>3, <1>5
<1>8. HasKey(fm[x - 1], k)
  BY <1>1, <1>5, <1>7
<1>9. \A j \in 1 .. (x - 1) - 1 : ~HasKey(fm[j], k)
  <2> TAKE j \in 1 .. (x - 1) - 1
  <2>1. j \in 1 .. f - 2 /\ j + 1 \in 2 .. f - 1 /\ j + 1 < x
    BY <1>7, <1>3
  <2>2. j + 1 \notin KeyLines(T, k)
    BY <2>1, <1>7
  <2> QED
    BY <2>1, <2>2, <1>1, <1>5
<1>10. /\ fm[x - 1].body.val \notin BlockHeaders
       /\ ~(fm[x - 1].body.val = <<>> /\ x - 1 < f - 2 /\ IsKind(fm[(x - 1) + 1], "indented"))
  BY <1>6, <1>7, <1>8, <1>9
<1>11. fm[x - 1].body = T[x].body
  BY <1>1, <1>7
<1>12. IsKind(T[x + 1], "indented") => x - 1 < f - 2 /\ IsKind(fm[(x - 1) + 1], "indented")
  <2>1. CASE x = f - 1
    <3>1. x + 1 = f
      BY <2>1, <1>3
    <3>2. ~IsKind(T[f], "indented")
      BY <1>3, RuleIsABody DEF FmAt, IsRule, IsKind
    <3> QED
      BY <3>1, <3>2
  <2>2. CASE x # f - 1
    <3>1. x - 1 < f - 2 /\ x \in 1 .. f - 2
      BY <2>2, <1>7, <1>3
    <3>2. fm[x].body = T[x + 1].body /\ fm[x].bom = T[x + 1].bom
      BY <3>1, <1>1
    <3> QED
      BY <3>1, <3>2, <1>7 DEF IsKind
  <2> QED
    BY <2>1, <2>2
<1> QED
  BY <1>10, <1>11, <1>12 DEF Spans

LEMMA ContinuedIs ==
  ASSUME NEW T \in Notes, FmAgrees(T), HasFm(T), NEW i \in Continued(T)
  PROVE  i \in 2 .. FmEnd(T) - 1 /\ i \in Nat /\ IsKind(T[i], "indented")
<1>1. FmAt(T, FmEnd(T)) /\ FmBounds(T) = FmEnd(T) /\ FmEnd(T) \in 3 .. Len(T) /\ Len(T) \in Nat
  BY FmIs DEF Notes
<1>2. i \in 1 .. FmEnd(T) /\ IsKind(T[i], "indented")
  BY <1>1 DEF Continued
<1>3. \A l : IsRule(l) => ~IsKind(l, "indented")
  BY RuleIsABody DEF IsRule, IsKind
<1>4. i # 1 /\ i # FmEnd(T)
  BY <1>1, <1>2, <1>3 DEF FmAt
<1> QED
  BY <1>1, <1>2, <1>4

\* Two frontmatters whose continued lines match have the same owners.
LEMMA SameOwners ==
  ASSUME NEW T, NEW U,
         \A i \in Continued(T) : \E j \in Continued(U) : Owner(U, j).body = Owner(T, i).body,
         \A j \in Continued(U) : \E i \in Continued(T) : Owner(U, j).body = Owner(T, i).body
  PROVE  Owners(U) = Owners(T)
BY DEF Owners

LEMMA SetLineOwners ==
  ASSUME NEW T \in Notes, FmAgrees(T), HasFm(T), Recognised(T), NEW k, NEW v, NEW U,
         ~Multiline(T, k), NEW x \in KeyLines(T, k), \A y \in KeyLines(T, k) : x <= y,
         SetLine(T, U, x, Prop(k, v))
  PROVE  Owners(U) = Owners(T)
<1> DEFINE n == Len(T)
           f == FmEnd(T)
<1>1. FmAt(T, f) /\ FmBounds(T) = f /\ f \in 3 .. n /\ n \in Nat
  BY FmIs DEF Notes
<1>2. /\ U \in Notes /\ Len(U) = n
      /\ \A i \in 1 .. n : i # x => U[i] = T[i]
      /\ U[x].body = Prop(k, v) /\ U[x].bom = T[x].bom
  BY DEF SetLine
<1>3. x \in 2 .. f - 1 /\ HasKey(T[x], k)
  BY DEF KeyLines
<1>4. IsKind(U[x], "prop") /\ IsKind(T[x], "prop")
  <2>1. Prop(k, v).kind = "prop"
    BY DEF Prop
  <2> QED
    BY <2>1, <1>2, <1>3 DEF HasKey, IsKind
<1>5. ~IsKind(U[x], "indented") /\ ~IsKind(T[x], "indented")
      /\ ~IsKind(U[x], "dashes") /\ ~IsRule(U[x])
  BY <1>4, RuleIsABody DEF IsKind, IsRule
<1> HIDE DEF f, n
<1>6. FmAt(U, f)
  <2>1. \A i \in 1 .. f : i \in 1 .. n
    BY <1>1
  <2>2. 1 # x /\ f # x /\ 1 \in 1 .. f /\ f \in 1 .. f
    BY <1>1, <1>3
  <2>3. U[1] = T[1] /\ U[f] = T[f]
    BY <2>1, <2>2, <1>2
  <2>4. \A i \in 2 .. f - 1 : ~(IsRule(U[i]) /\ ~U[i].bom)
    <3> TAKE i \in 2 .. f - 1
    <3>1. i \in 1 .. n
      BY <1>1
    <3>2. CASE i = x
      BY <3>2, <1>5
    <3>3. CASE i # x
      BY <3>1, <3>3, <1>1, <1>2 DEF FmAt
    <3> QED
      BY <3>2, <3>3
  <2>5. \A i \in 3 .. f - 1 : ~IsKind(U[i], "dashes")
    <3> TAKE i \in 3 .. f - 1
    <3>1. i \in 1 .. n
      BY <1>1
    <3>2. CASE i = x
      BY <3>2, <1>5
    <3>3. CASE i # x
      BY <3>1, <3>3, <1>1, <1>2 DEF FmAt
    <3> QED
      BY <3>2, <3>3
  <2> QED
    BY <2>3, <2>4, <2>5, <1>1, <1>2 DEF FmAt, n
<1>7. FmBounds(U) = f
  BY <1>2, <1>6, FmFound
<1>8. \A i \in 1 .. f : i \in 1 .. n
  BY <1>1
<1>9. \A i \in 1 .. f : /\ IsKind(U[i], "prop") <=> IsKind(T[i], "prop")
                        /\ IsKind(U[i], "indented") <=> IsKind(T[i], "indented")
  <2> TAKE i \in 1 .. f
  <2>1. CASE i = x
    BY <2>1, <1>4, <1>5
  <2>2. CASE i # x
    BY <2>2, <1>8, <1>2
  <2> QED
    BY <2>1, <2>2
<1>10. Continued(U) = Continued(T)
  BY <1>1, <1>7, <1>9 DEF Continued
<1>11. ASSUME NEW i \in Continued(T) PROVE Owner(U, i) = Owner(T, i)
  <2>1. i \in 2 .. f - 1 /\ i \in Nat
    BY ContinuedIs DEF f
  <2>2. \A z \in 1 .. i : z \in 1 .. f
    BY <2>1, <1>1
  <2>3. CASE Unowned(T, i)
    <3>1. Unowned(U, i)
      BY <2>2, <2>3, <1>9 DEF Unowned
    <3> QED
      BY <3>1, <2>1, <2>3, OwnerIs
  <2>4. CASE \E y : Owns(T, i, y)
    <3>1. PICK y : Owns(T, i, y)
      BY <2>4
    <3>2. Owns(U, i, y)
      BY <3>1, <2>2, <1>9 DEF Owns
    <3>3. Owner(T, i) = T[y] /\ Owner(U, i) = U[y] /\ Spans(T, y)
      BY <3>1, <3>2, <2>1, OwnerIs
    <3>4. y # x
      BY <3>3, WholeIs
    <3>5. y \in 1 .. n
      BY <3>1, <2>2, <1>8 DEF Owns
    <3> QED
      BY <3>3, <3>4, <3>5, <1>2
  <2>5. Unowned(T, i) \/ \E y : Owns(T, i, y)
    BY <2>1, OwnerIs
  <2> QED
    BY <2>3, <2>4, <2>5
<1> QED
  BY <1>10, <1>11, SameOwners

\* Lines that are alike below f have the same owners.
LEMMA OwnerAlike ==
  ASSUME NEW T, NEW U, NEW f \in Nat, \A z \in 1 .. f : U[z] = T[z], NEW i \in 1 .. f
  PROVE  Owner(U, i) = Owner(T, i)
<1>1. i \in Nat /\ \A z \in 1 .. i : z \in 1 .. f
  OBVIOUS
<1>2. CASE Unowned(T, i)
  <2>1. Unowned(U, i)
    BY <1>1, <1>2 DEF Unowned
  <2> QED
    BY <2>1, <1>1, <1>2, OwnerIs
<1>3. CASE \E y : Owns(T, i, y)
  <2>1. PICK y : Owns(T, i, y)
    BY <1>3
  <2>2. Owns(U, i, y) /\ U[y] = T[y]
    BY <2>1, <1>1 DEF Owns
  <2> QED
    BY <2>1, <2>2, <1>1, OwnerIs
<1>4. Unowned(T, i) \/ \E y : Owns(T, i, y)
  BY <1>1, OwnerIs
<1> QED
  BY <1>2, <1>3, <1>4

LEMMA NewLineOwners ==
  ASSUME NEW T \in Notes, FmAgrees(T), HasFm(T), NEW k, NEW v, NEW c, NEW U,
         NewLine(T, U, FmEnd(T), Line(Prop(k, v), c))
  PROVE  Owners(U) = Owners(T)
<1> DEFINE n == Len(T)
           f == FmEnd(T)
<1>1. FmAt(T, f) /\ FmBounds(T) = f /\ f \in 3 .. n /\ n \in Nat
  BY FmIs DEF Notes
<1>2. /\ U \in Notes /\ Len(U) = n + 1
      /\ \A i \in 1 .. f - 1 : U[i] = T[i]
      /\ \A i \in f .. n : U[i + 1] = T[i]
      /\ U[f].body = Prop(k, v) /\ U[f].bom = FALSE
  BY DEF NewLine, Line
<1>3. ~IsRule(U[f]) /\ ~IsKind(U[f], "dashes") /\ ~IsKind(U[f], "indented")
  <2> DEFINE l == U[f]
  <2>1. l.body = Prop(k, v) /\ l.bom = FALSE
    BY <1>2
  <2> HIDE DEF l
  <2>2. HasKey(l, k) /\ ~IsRule(l) /\ ~IsKind(l, "dashes")
    BY <2>1, PropLine
  <2>3. ~IsKind(l, "indented")
    BY <2>2 DEF HasKey, IsKind
  <2> QED
    BY <2>2, <2>3 DEF l
<1> HIDE DEF f, n
<1>4. FmAt(U, f + 1)
  <2>1. U[1] = T[1] /\ U[f + 1] = T[f]
    <3>1. 1 \in 1 .. f - 1 /\ f \in f .. n
      BY <1>1
    <3> QED
      BY <3>1, <1>2
  <2>2. \A i \in 2 .. (f + 1) - 1 : ~(IsRule(U[i]) /\ ~U[i].bom)
    <3> TAKE i \in 2 .. (f + 1) - 1
    <3>1. CASE i = f
      BY <3>1, <1>3
    <3>2. CASE i # f
      <4>1. i \in 2 .. f - 1 /\ i \in 1 .. f - 1
        BY <3>2, <1>1
      <4> QED
        BY <4>1, <1>1, <1>2 DEF FmAt
    <3> QED
      BY <3>1, <3>2
  <2>3. \A i \in 3 .. (f + 1) - 1 : ~IsKind(U[i], "dashes")
    <3> TAKE i \in 3 .. (f + 1) - 1
    <3>1. CASE i = f
      BY <3>1, <1>3
    <3>2. CASE i # f
      <4>1. i \in 3 .. f - 1 /\ i \in 1 .. f - 1
        BY <3>2, <1>1
      <4> QED
        BY <4>1, <1>1, <1>2 DEF FmAt
    <3> QED
      BY <3>1, <3>2
  <2>4. f + 1 \in 3 .. Len(U)
    BY <1>1, <1>2
  <2>5. IsRule(T[1]) /\ IsRule(T[f]) /\ T[f].bom = FALSE
    BY <1>1 DEF FmAt
  <2> QED
    BY <2>1, <2>2, <2>3, <2>4, <2>5 DEF FmAt
<1>5. FmEnd(U) = f + 1 /\ FmBounds(U) = f + 1 /\ HasFm(U)
  BY <1>2, <1>4, FmFound
<1>6. \A i \in Continued(T) : i \in 1 .. f - 1 /\ IsKind(T[i], "indented")
  <2> TAKE i \in Continued(T)
  <2>1. i \in 2 .. f - 1 /\ IsKind(T[i], "indented")
    BY ContinuedIs DEF f
  <2>2. i \in 1 .. f - 1
    BY <2>1, <1>1
  <2> QED
    BY <2>1, <2>2
<1>7. \A i \in Continued(U) : i \in 1 .. f - 1 /\ IsKind(U[i], "indented")
  <2> TAKE i \in Continued(U)
  <2>1. FmAgrees(U)
    BY <1>5 DEF FmAgrees
  <2>2. i \in 2 .. (f + 1) - 1 /\ IsKind(U[i], "indented")
    BY <2>1, <1>2, <1>5, ContinuedIs
  <2>3. i # f
    BY <2>2, <1>3
  <2>4. i \in 1 .. f - 1
    BY <2>2, <2>3, <1>1
  <2> QED
    BY <2>2, <2>4
<1>8. \A i \in 1 .. f - 1 : i \in 1 .. f /\ i \in 1 .. f + 1
  BY <1>1
<1>9. \A i : i \in Continued(U) <=> i \in Continued(T)
  BY <1>1, <1>2, <1>5, <1>6, <1>7, <1>8 DEF Continued
<1>10. f - 1 \in Nat
  BY <1>1
<1>11. \A i \in Continued(T) : Owner(U, i) = Owner(T, i)
  BY <1>2, <1>6, <1>10, OwnerAlike
<1> QED
  BY <1>9, <1>11, SameOwners

LEMMA ToppedOwners ==
  ASSUME NEW T \in Notes, FmAgrees(T), ~HasFm(T), NEW k \in STRING, NEW v \in Seq(Signs),
         NEW eol \in BOOLEAN, NEW U, Topped(T, U, PropBlock(k, v, eol))
  PROVE  Owners(U) = Owners(T)
<1> DEFINE n == Len(T)
           b == PropBlock(k, v, eol)
<1>1. n \in Nat \ {0} /\ FmBounds(T) = 0
  <2>1. n \in Nat \ {0} /\ T \in Seq(LineSet)
    BY LastLine DEF Notes
  <2>2. FmEnd(T) \in Nat
    BY <2>1, FmEndIs
  <2> QED
    BY <2>1, <2>2 DEF FmAgrees, HasFm
<1>2. /\ Len(b) = 3 /\ b[1] = Line(Rule, eol) /\ b[2] = Line(Prop(k, v), eol)
      /\ b[3] = Line(Rule, eol)
  BY PropBlockIs
<1> HIDE DEF b, n
<1>3. /\ U \in Notes /\ Len(U) = 3 + n
      /\ U[1].body = b[1].body
      /\ \A i \in 2 .. 3 : U[i] = b[i]
  BY <1>2 DEF Topped, b, n
<1>4. /\ IsRule(U[1]) /\ IsRule(U[3]) /\ U[3].bom = FALSE
      /\ U[2].body = Prop(k, v) /\ U[2].bom = FALSE
  BY <1>2, <1>3 DEF IsRule, Line
<1>5. HasKey(U[2], k) /\ ~IsRule(U[2]) /\ ~IsKind(U[2], "dashes")
  <2> DEFINE x == U[2]
  <2>1. x.body = Prop(k, v) /\ x.bom = FALSE
    BY <1>4
  <2> HIDE DEF x
  <2>2. HasKey(x, k) /\ ~IsRule(x) /\ ~IsKind(x, "dashes")
    BY <2>1, PropLine
  <2> QED
    BY <2>2 DEF x
<1>6. FmAt(U, 3)
  <2>1. \A i \in 2 .. 3 - 1 : i = 2
    OBVIOUS
  <2>2. \A i \in 3 .. 3 - 1 : FALSE
    OBVIOUS
  <2>3. 3 \in 3 .. Len(U)
    BY <1>1, <1>3
  <2> QED
    BY <2>1, <2>2, <2>3, <1>4, <1>5 DEF FmAt
<1>7. FmEnd(U) = 3 /\ FmBounds(U) = 3 /\ HasFm(U)
  BY <1>3, <1>6, FmFound
<1>8. \A i : i \notin Continued(U)
  <2> SUFFICES ASSUME NEW i \in Continued(U) PROVE FALSE
    OBVIOUS
  <2>1. FmAgrees(U)
    BY <1>7 DEF FmAgrees
  <2>2. i \in 2 .. 3 - 1 /\ IsKind(U[i], "indented")
    BY <2>1, <1>3, <1>7, ContinuedIs
  <2>3. i = 2
    BY <2>2
  <2> QED
    BY <2>2, <2>3, <1>5 DEF HasKey, IsKind
<1>9. \A i : i \notin Continued(T)
  BY <1>1 DEF Continued
<1> QED
  BY <1>8, <1>9, SameOwners

LEMMA AssignedOwners ==
  ASSUME NEW T \in Notes, FmAgrees(T), Recognised(T), NEW k \in STRING, NEW v \in Seq(Signs),
         ~Multiline(T, k)
  PROVE  Owners(Assigned(T, k, v)) = Owners(T)
<1>1. CASE HasFm(T)
  <2> DEFINE U == Assigned(T, k, v)
  <2>1. \/ \E x \in KeyLines(T, k) :
             /\ \A y \in KeyLines(T, k) : x <= y
             /\ SetLine(T, U, x, Prop(k, v))
        \/ NewLine(T, U, FmEnd(T), Line(Prop(k, v), T[FmEnd(T) - 1].cr))
    BY <1>1, AssignedIs
  <2> HIDE DEF U
  <2>2. ASSUME NEW x \in KeyLines(T, k), \A y \in KeyLines(T, k) : x <= y,
               SetLine(T, U, x, Prop(k, v))
        PROVE  Owners(U) = Owners(T)
    BY <2>2, <1>1, SetLineOwners
  <2>3. ASSUME NewLine(T, U, FmEnd(T), Line(Prop(k, v), T[FmEnd(T) - 1].cr))
        PROVE  Owners(U) = Owners(T)
    BY <2>3, <1>1, NewLineOwners
  <2>4. Owners(U) = Owners(T)
    BY <2>1, <2>2, <2>3
  <2> QED
    BY <2>4 DEF U
<1>2. CASE ~HasFm(T)
  <2> DEFINE b == PropBlock(k, v, FirstEol(T))
  <2>1. Assigned(T, k, v) = OnTop(T, b)
    BY <1>2 DEF Assigned
  <2>2. FirstEol(T) \in BOOLEAN
    BY FirstEolIs
  <2>3. b \in Notes
    BY <2>2, PropBlockIs
  <2>4. Topped(T, OnTop(T, b), b)
    BY <2>3, OnTopIs
  <2> DEFINE U == OnTop(T, b)
             eol == FirstEol(T)
  <2>5. Topped(T, U, PropBlock(k, v, eol)) /\ eol \in BOOLEAN
    BY <2>2, <2>4
  <2> HIDE DEF U, eol
  <2>6. Owners(U) = Owners(T)
    BY <2>5, <1>2, ToppedOwners
  <2> QED
    BY <2>1, <2>6 DEF U
<1> QED
  BY <1>1, <1>2

LEMMA ClearedOwners ==
  ASSUME NEW T \in Notes, FmAgrees(T), HasFm(T), Recognised(T), NEW k, NEW U, NEW idx,
         ~Multiline(T, k), Once(T, k), Cleared(T, U, k, idx)
  PROVE  Owners(U) = Owners(T)
<1> DEFINE f == FmEnd(T)
           L == Len(idx)
           m == IF Len(idx) = 0 THEN 1 ELSE Len(idx)
           A(r) == 1 + idx[r]
<1>1. /\ U \in Notes /\ m \in Nat \ {0}
      /\ FmEnd(U) = 2 + m /\ FmBounds(U) = 2 + m /\ HasFm(U)
      /\ L \in Nat /\ L <= m
      /\ \A r \in 1 .. L : U[1 + r] = T[A(r)] /\ A(r) \in 2 .. f - 1
      /\ \A x \in 2 .. f - 1 : ~HasKey(T[x], k) => \E r \in 1 .. L : A(r) = x
      /\ L # 0 => m = L
      /\ L = 0 => m = 1
  BY ClearedIs
<1>2. FmAt(T, f) /\ f \in 3 .. Len(T) /\ Len(T) \in Nat /\ FmBounds(T) = f
  BY FmIs DEF Notes
<1>3. \A r, s \in 1 .. L : r < s => A(r) < A(s)
  <2>1. \A r \in 1 .. L : idx[r] \in Int
    BY DEF Cleared, Lists
  <2>2. \A r, s \in 1 .. L : r < s => idx[r] < idx[s]
    BY ClearedIs
  <2> TAKE r, s \in 1 .. L
  <2> DEFINE p == idx[r]
             q == idx[s]
  <2>3. p \in Int /\ q \in Int /\ (r < s => p < q)
    BY <2>1, <2>2
  <2> HIDE DEF p, q
  <2>4. r < s => 1 + p < 1 + q
    BY <2>3
  <2> QED
    BY <2>4 DEF p, q
<1>4. U[1] = T[1] /\ (L = 0 => ~IsKind(U[2], "indented"))
  <2>1. U[1] = T[1] /\ (L = 0 => U[2] = Line(Blank, T[f - 1].cr))
    BY DEF Cleared
  <2>2. \A c : ~IsKind(Line(Blank, c), "indented")
    BY DEF Line, Blank, IsKind
  <2> QED
    BY <2>1, <2>2
<1>5. ~IsKind(T[1], "prop")
  BY <1>2, RuleIsABody DEF FmAt, IsRule, IsKind
<1> HIDE DEF f, L, m, A
<1>6. ASSUME NEW r \in 1 .. L, NEW s \in 1 .. L PROVE r <= s <=> A(r) <= A(s)
  <2>1. A(r) \in Int /\ A(s) \in Int /\ r \in Int /\ s \in Int
    BY <1>1, <1>2
  <2>2. (r < s => A(r) < A(s)) /\ (s < r => A(s) < A(r))
    BY <1>3
  <2>3. r = s => A(r) = A(s)
    OBVIOUS
  <2> QED
    BY <2>1, <2>2, <2>3
<1>7. \A x : HasKey(T[x], k) => ~IsKind(T[x], "indented")
  BY DEF HasKey, IsKind
<1>8. \A x \in KeyLines(T, k) : ~Spans(T, x)
  <2> TAKE x \in KeyLines(T, k)
  <2>1. \A y \in KeyLines(T, k) : x <= y
    <3> TAKE y \in KeyLines(T, k)
    <3>1. x \in 1 .. f /\ y \in 1 .. f /\ x \in Int /\ HasKey(T[x], k) /\ HasKey(T[y], k)
      BY <1>2 DEF KeyLines, f
    <3>2. x = y
      BY <3>1, <1>2, OnceIs
    <3> QED
      BY <3>1, <3>2
  <2> QED
    BY <2>1, WholeIs
\* Line 1 + r of U is line A(r) of T, and so is its owner.
<1>9. ASSUME NEW r \in 1 .. L, A(r) \in Continued(T)
      PROVE  Owner(U, 1 + r) = Owner(T, A(r))
  <2>1. A(r) \in 2 .. f - 1 /\ A(r) \in Nat /\ 1 + r \in Nat /\ r \in Nat
    BY <1>1, <1>2
  <2>2. ASSUME NEW z \in 1 .. 1 + r, IsKind(U[z], "prop")
        PROVE  \E s \in 1 .. L : /\ z = 1 + s /\ s <= r /\ A(s) \in 1 .. A(r)
                                 /\ IsKind(T[A(s)], "prop")
    <3>1. z # 1
      BY <2>2, <1>4, <1>5
    <3> DEFINE s == z - 1
    <3>2. s \in 1 .. L /\ z = 1 + s /\ s <= r
      BY <3>1, <2>1, <1>1
    <3> HIDE DEF s
    <3>3. A(s) <= A(r) /\ A(s) \in 2 .. f - 1 /\ U[1 + s] = T[A(s)]
      BY <3>2, <1>1, <1>6
    <3>4. A(s) \in 1 .. A(r)
      BY <3>3, <2>1, <1>2
    <3>5. IsKind(T[A(s)], "prop")
      BY <3>2, <3>3, <2>2
    <3> QED
      BY <3>2, <3>4, <3>5
  <2>3. CASE Unowned(T, A(r))
    <3>1. Unowned(U, 1 + r)
      BY <2>2, <2>3 DEF Unowned
    <3> QED
      BY <3>1, <2>1, <2>3, OwnerIs
  <2>4. CASE \E y : Owns(T, A(r), y)
    <3>1. PICK y : Owns(T, A(r), y)
      BY <2>4
    <3>2. Owner(T, A(r)) = T[y] /\ Spans(T, y)
      BY <3>1, <2>1, <1>9, OwnerIs
    <3>3. y \in 1 .. A(r) /\ IsKind(T[y], "prop")
      BY <3>1 DEF Owns
    <3>4. y \in 2 .. f - 1
      <4>1. y # 1
        BY <3>3, <1>5
      <4> QED
        BY <3>3, <4>1, <2>1, <1>2
    <3>5. ~HasKey(T[y], k)
      BY <3>2, <3>4, <1>8 DEF KeyLines, f
    <3>6. PICK q \in 1 .. L : A(q) = y
      BY <3>4, <3>5, <1>1
    <3>7. q <= r
      <4>1. A(q) <= A(r)
        BY <3>3, <3>6, <2>1
      <4> QED
        BY <4>1, <1>6
    <3>8. U[1 + q] = T[y] /\ 1 + q \in 1 .. 1 + r
      BY <3>6, <3>7, <1>1, <2>1
    <3>9. ASSUME NEW z \in 1 .. 1 + r, IsKind(U[z], "prop")
          PROVE  z <= 1 + q
      <4>1. PICK s \in 1 .. L : /\ z = 1 + s /\ s <= r /\ A(s) \in 1 .. A(r)
                                /\ IsKind(T[A(s)], "prop")
        BY <2>2, <3>9
      <4>2. A(s) <= A(q)
        BY <4>1, <3>1, <3>6 DEF Owns
      <4>3. s <= q
        BY <4>2, <1>6
      <4> QED
        BY <4>1, <4>3, <1>1
    <3>10. Owns(U, 1 + r, 1 + q)
      BY <3>3, <3>8, <3>9 DEF Owns
    <3>11. Owner(U, 1 + r) = U[1 + q]
      BY <3>10, <2>1, OwnerIs
    <3> QED
      BY <3>2, <3>8, <3>11
  <2>5. Unowned(T, A(r)) \/ \E y : Owns(T, A(r), y)
    BY <2>1, OwnerIs
  <2> QED
    BY <2>3, <2>4, <2>5
<1>10. ASSUME NEW r \in 1 .. L PROVE 1 + r \in Continued(U) <=> A(r) \in Continued(T)
  <2>1. 1 + r \in 1 .. 2 + m /\ A(r) \in 1 .. f /\ U[1 + r] = T[A(r)]
    BY <1>1, <1>2
  <2> QED
    BY <2>1, <1>1, <1>2 DEF Continued
<1>11. ASSUME NEW i \in Continued(T)
       PROVE  \E j \in Continued(U) : Owner(U, j).body = Owner(T, i).body
  <2>1. i \in 2 .. f - 1 /\ IsKind(T[i], "indented")
    BY ContinuedIs DEF f
  <2>2. PICK r \in 1 .. L : A(r) = i
    BY <2>1, <1>1, <1>7
  <2>3. 1 + r \in Continued(U)
    BY <2>2, <1>10
  <2>4. Owner(U, 1 + r) = Owner(T, i)
    BY <2>2, <1>9
  <2> QED
    BY <2>3, <2>4
<1>12. ASSUME NEW j \in Continued(U)
       PROVE  \E i \in Continued(T) : Owner(U, j).body = Owner(T, i).body
  <2>1. FmAgrees(U)
    BY <1>1 DEF FmAgrees
  <2>2. j \in 2 .. (2 + m) - 1 /\ IsKind(U[j], "indented")
    BY <2>1, <1>1, ContinuedIs
  <2>3. L # 0
    <3> SUFFICES ASSUME L = 0 PROVE FALSE
      OBVIOUS
    <3>1. j = 2
      BY <2>2, <1>1
    <3> QED
      BY <3>1, <2>2, <1>4
  <2> DEFINE r == j - 1
  <2>4. r \in 1 .. L /\ j = 1 + r
    BY <2>2, <2>3, <1>1
  <2> HIDE DEF r
  <2>5. A(r) \in Continued(T)
    BY <2>4, <1>10
  <2>6. Owner(U, 1 + r) = Owner(T, A(r))
    BY <2>4, <2>5, <1>9
  <2> QED
    BY <2>4, <2>5, <2>6
<1> QED
  BY <1>11, <1>12, SameOwners

\* No continued value is orphaned or handed to another property.
THEOREM ContinuationsStayHolds == Spec => []ContinuationsStay
<1>1. NoteIsText => ContinuationsStay
  <2> SUFFICES ASSUME NoteIsText, Exists, FmAgrees(note), Recognised(note),
                      NEW k \in Keys, ~Multiline(note, k)
               PROVE  /\ \A v \in Values : Owners(Assigned(note, k, Scalar(v))) = Owners(note)
                      /\ HasFm(note) /\ Once(note, k) =>
                           Owners(Unassigned(note, k)) = Owners(note)
    BY DEF ContinuationsStay
  <2>1. note \in Notes /\ k \in STRING
    BY ExistsIsNote, NotesAssumption
  <2>2. \A v \in Values : Owners(Assigned(note, k, Scalar(v))) = Owners(note)
    <3> TAKE v \in Values
    <3>1. Scalar(v) \in Seq(Signs)
      BY FormsAreText DEF Forms
    <3> QED
      BY <2>1, <3>1, AssignedOwners
  <2>3. ASSUME HasFm(note), Once(note, k)
        PROVE  Owners(Unassigned(note, k)) = Owners(note)
    <3>1. PICK idx : Cleared(note, Unassigned(note, k), k, idx)
      BY <2>1, <2>3, UnassignedIs
    <3> QED
      BY <3>1, <2>1, <2>3, ClearedOwners
  <2> QED
    BY <2>2, <2>3
<1> QED
  BY <1>1, TypeHolds, PTL

----------------------------------------------------------------------------
(* What show prints.                                                       *)

\* f[i] is the sum of the first i numbers of s.
Sums(s, f) ==
  /\ f \in [0 .. Len(s) -> Nat] /\ f[0] = 0
  /\ \A i \in 0 + 1 .. Len(s) : f[i] = f[i - 1] + s[i]

LEMMA SumOfIs ==
  ASSUME NEW s \in Seq(Nat)
  PROVE  \E f : Sums(s, f) /\ SumOf(s) = f[Len(s)]
<1> DEFINE n == Len(s)
           step == [i \in 0 + 1 .. n |-> [x \in Nat |-> x + s[i]]]
<1>1. n \in Nat /\ \A i \in 1 .. n : s[i] \in Nat
  OBVIOUS
<1>2. step \in Steps(0, n, Nat)
  <2>1. \A i \in 0 + 1 .. n : i \in 1 .. n
    OBVIOUS
  <2>2. \A i \in 0 + 1 .. n, x \in Nat : x + s[i] \in Nat
    BY <1>1, <2>1
  <2> QED
    BY <2>2 DEF Steps
<1>3. PICK f : Follows(f, 0, n, Nat, 0, step)
  <2> HIDE DEF step, n
  <2>1. 0 \in Nat /\ 0 <= n
    BY <1>1
  <2> QED
    BY <1>1, <1>2, <2>1, Recursion
<1>4. /\ f \in [0 .. n -> Nat] /\ f[0] = 0
      /\ \A i \in 0 + 1 .. n : f[i] = step[i][f[i - 1]]
  BY <1>3 DEF Follows
<1>5. ASSUME NEW i \in 0 + 1 .. n PROVE f[i] = f[i - 1] + s[i]
  <2>1. f[i - 1] \in Nat
    <3>1. i - 1 \in 0 .. n
      BY <1>1
    <3> HIDE DEF step, n
    <3> QED
      BY <3>1, <1>4
  <2>2. step[i] = [x \in Nat |-> x + s[i]]
    OBVIOUS
  <2> HIDE DEF step
  <2> QED
    BY <2>1, <2>2, <1>4
<1>6. f = [i \in 0 .. n |-> IF i = 0 THEN 0 ELSE f[i - 1] + s[i]]
  <2>1. \A i \in 0 .. n : i # 0 => i \in 0 + 1 .. n
    BY <1>1
  <2> HIDE DEF step
  <2> QED
    BY <2>1, <1>4, <1>5
<1> DEFINE u == CHOOSE g : g = [i \in 0 .. n |-> IF i = 0 THEN 0 ELSE g[i - 1] + s[i]]
<1>7. u = [i \in 0 .. n |-> IF i = 0 THEN 0 ELSE u[i - 1] + s[i]]
  BY <1>6
<1>8. SumOf(s) = u[n]
  BY DEF SumOf
<1> HIDE DEF u, step, n
<1>9. u[0] = 0 /\ \A i \in 0 + 1 .. n : u[i] = u[i - 1] + s[i]
  <2>1. 0 \in 0 .. n /\ \A i \in 0 + 1 .. n : i \in 0 .. n /\ i # 0
    BY <1>1
  <2> QED
    BY <2>1, <1>7
<1> DEFINE G == {i \in 0 .. n : u[i] \in Nat}
<1>10. \A i \in 0 .. n : i \in G
  <2>1. 0 \in G
    BY <1>1, <1>9
  <2>2. ASSUME NEW i \in 0 + 1 .. n, i - 1 \in G PROVE i \in G
    <3>1. u[i - 1] \in Nat /\ s[i] \in Nat /\ i \in 0 .. n
      BY <2>2, <1>1
    <3> QED
      BY <3>1, <1>9
  <2> HIDE DEF G
  <2> QED
    BY <2>1, <2>2, <1>1, StepByStep
<1>11. u \in [0 .. n -> Nat]
  BY <1>7, <1>10
<1> QED
  BY <1>8, <1>9, <1>11 DEF Sums, n

\* There is one way to sum, and longer lists sum to more.
LEMMA SumsAgree ==
  ASSUME NEW s \in Seq(Nat), NEW t \in Seq(Nat), NEW f, NEW g, Sums(s, f), Sums(t, g),
         Len(s) <= Len(t), \A i \in 1 .. Len(s) : t[i] = s[i]
  PROVE  g[Len(s)] = f[Len(s)]
<1> DEFINE n == Len(s)
           G == {i \in 0 .. n : g[i] = f[i]}
<1>1. n \in Nat /\ Len(t) \in Nat /\ n <= Len(t)
  OBVIOUS
<1>2. 0 \in G
  BY <1>1 DEF Sums
<1>3. ASSUME NEW i \in 0 + 1 .. n, i - 1 \in G PROVE i \in G
  <2>1. i \in 0 + 1 .. Len(t) /\ i \in 1 .. n /\ i \in 0 .. n
    BY <1>1
  <2>2. g[i] = g[i - 1] + t[i] /\ f[i] = f[i - 1] + s[i]
    BY <2>1 DEF Sums
  <2>3. g[i - 1] = f[i - 1] /\ t[i] = s[i]
    BY <1>3, <2>1
  <2> QED
    BY <2>1, <2>2, <2>3
<1> HIDE DEF G
<1>4. \A i \in 0 .. n : i \in G
  BY <1>1, <1>2, <1>3, StepByStep
<1> QED
  BY <1>1, <1>4 DEF G

LEMMA SumOfMore ==
  /\ \A s \in Seq(Nat) : SumOf(s) \in Nat
  /\ SumOf(<<>>) = 0
  /\ \A s \in Seq(Nat), x \in Nat : SumOf(Append(s, x)) = SumOf(s) + x
<1>1. ASSUME NEW s \in Seq(Nat) PROVE SumOf(s) \in Nat
  <2>1. PICK f : Sums(s, f) /\ SumOf(s) = f[Len(s)]
    BY SumOfIs
  <2>2. Len(s) \in 0 .. Len(s)
    OBVIOUS
  <2> QED
    BY <2>1, <2>2 DEF Sums
<1>2. SumOf(<<>>) = 0
  <2>1. <<>> \in Seq(Nat) /\ Len(<<>>) = 0
    OBVIOUS
  <2>2. PICK f : Sums(<<>>, f) /\ SumOf(<<>>) = f[Len(<<>>)]
    BY <2>1, SumOfIs
  <2> QED
    BY <2>1, <2>2 DEF Sums
<1>3. ASSUME NEW s \in Seq(Nat), NEW x \in Nat PROVE SumOf(Append(s, x)) = SumOf(s) + x
  <2> DEFINE t == Append(s, x)
             n == Len(s)
  <2>1. /\ t \in Seq(Nat) /\ Len(t) = n + 1 /\ t[n + 1] = x /\ n \in Nat
        /\ \A i \in 1 .. n : t[i] = s[i]
    OBVIOUS
  <2>2. PICK f : Sums(s, f) /\ SumOf(s) = f[n]
    BY SumOfIs
  <2> HIDE DEF t
  <2>3. PICK g : Sums(t, g) /\ SumOf(t) = g[Len(t)]
    BY <2>1, SumOfIs
  <2>4. g[n] = f[n]
    <3>1. Len(s) <= Len(t)
      BY <2>1
    <3> QED
      BY <3>1, <2>1, <2>2, <2>3, SumsAgree
  <2> HIDE DEF n
  <2>5. g[n + 1] = g[n] + t[n + 1]
    <3>1. n + 1 \in 0 + 1 .. Len(t) /\ (n + 1) - 1 = n
      BY <2>1
    <3>2. \A i \in 0 + 1 .. Len(t) : g[i] = g[i - 1] + t[i]
      BY <2>3 DEF Sums
    <3>3. g[n + 1] = g[(n + 1) - 1] + t[n + 1]
      BY <3>1, <3>2
    <3> QED
      BY <3>1, <3>3
  <2> QED
    BY <2>1, <2>2, <2>3, <2>4, <2>5 DEF t, n
<1> QED
  BY <1>1, <1>2, <1>3

LEMMA SizeIs ==
  ASSUME NEW T \in Notes, NEW s \in ToSet(Parse(T))
  PROVE  SizeOf(T, s) \in Nat /\ (s.start = s.end => SizeOf(T, s) = 0)
<1>1. CASE s.start = s.end
  BY <1>1 DEF SizeOf
<1>2. CASE s.start # s.end
  <2> DEFINE ls == SecText(T, s)
             w == [i \in DOMAIN ls |-> IF ls[i].body = Blank THEN 0 ELSE Width]
  <2>1. s.start \in Nat /\ s.end \in Nat /\ s.start < s.end /\ s.end <= Len(T)
    BY <1>2, SectionIs DEF Notes
  <2>2. /\ Slice(T, s.start, s.end) \in Seq(LineSet)
        /\ Len(Slice(T, s.start, s.end)) = s.end - s.start
    BY <2>1, SliceIs DEF Notes, Slice
  <2>3. Slice(T, s.start, s.end) # <<>>
    BY <2>1, <2>2
  <2>4. ls = Slice(T, s.start, s.end)
    BY <2>3 DEF SecText, Join
  <2>5. ls \in Seq(LineSet) /\ Len(ls) \in Nat \ {0} /\ DOMAIN ls = 1 .. Len(ls)
    BY <2>1, <2>2, <2>4
  <2> HIDE DEF ls
  <2>6. w \in Seq(Nat)
    <3>1. \A i \in DOMAIN ls : (IF ls[i].body = Blank THEN 0 ELSE Width) \in Nat
      BY DEF Width
    <3> QED
      BY <3>1, <2>5
  <2> HIDE DEF w
  <2>7. SumOf(w) \in Nat
    BY <2>6, SumOfMore
  <2>8. Bytes(ls) = Len(ls) - 1 + SumOf(w)
    BY DEF Bytes, w
  <2>9. SizeOf(T, s) = Bytes(ls)
    BY <1>2 DEF SizeOf, ls
  <2> QED
    BY <2>5, <2>7, <2>8, <2>9, <1>2
<1> QED
  BY <1>1, <1>2

\* Where the loop of show stands.
Accs == [ids : Seq(Nat), used : Nat, end : {"none", "truncated", "bare", "more"}, next : Int]
Begun == [ids |-> <<>>, used |-> 0, end |-> "none", next |-> -1]
\* What it does with section s.
Passed(T, s, from, b, acc) ==
  IF s.id < from \/ SizeOf(T, s) = 0 \/ acc.end # "none" THEN acc
  ELSE WithSection(acc, s, SizeOf(T, s), b)

\* Section Hj counts: it is printed, or the marker is about it.
Counts(T, from, j) == j >= from /\ SizeOf(T, Parse(T)[j + 1]) # 0
Counted(T, from, i) == {j \in 0 .. i - 1 : Counts(T, from, j)}
Sizes(T, ids) == [i \in DOMAIN ids |-> SizeOf(T, Parse(T)[ids[i] + 1]) + 1]

\* After i sections.
Halfway(T, from, b, acc, i) ==
  /\ acc \in Accs
  /\ SumOf(Sizes(T, acc.ids)) = acc.used /\ acc.used <= b
  /\ acc.used = 0 => acc.ids = <<>>
  /\ acc.end = "none" => Lists(acc.ids, Counted(T, from, i))
  /\ acc.end # "none" =>
       /\ acc.next \in Counted(T, from, i)
       /\ Lists(acc.ids, Counted(T, from, acc.next))
       /\ acc.end = "truncated" => acc.ids = <<>>
       /\ acc.end = "more" => acc.used + MoreId + 1 <= b

LEMMA WithSectionIs ==
  ASSUME NEW acc \in Accs, NEW s, s.id \in Nat, NEW size \in Nat, NEW b
  PROVE  WithSection(acc, s, size, b) \in Accs
<1> DEFINE e == IF acc.used = 0 THEN "truncated"
                ELSE IF acc.used + MoreId + 1 > b THEN "bare" ELSE "more"
<1>1. /\ acc.ids \in Seq(Nat) /\ acc.used \in Nat
      /\ acc = [ids |-> acc.ids, used |-> acc.used, end |-> acc.end, next |-> acc.next]
      /\ acc.end \in {"none", "truncated", "bare", "more"} /\ acc.next \in Int
  BY DEF Accs
<1>2. Append(acc.ids, s.id) \in Seq(Nat) /\ acc.used + size + 1 \in Nat
  BY <1>1
<1>3. [acc EXCEPT !.ids = Append(@, s.id), !.used = @ + size + 1] \in Accs
  BY <1>1, <1>2 DEF Accs
<1>4. e \in {"none", "truncated", "bare", "more"} /\ s.id \in Int
  OBVIOUS
<1> HIDE DEF e
<1>5. [acc EXCEPT !.end = e, !.next = s.id] \in Accs
  BY <1>1, <1>4 DEF Accs
<1> QED
  BY <1>3, <1>5 DEF WithSection, e

LEMMA PrintedIs ==
  ASSUME NEW T \in Notes, NEW from, NEW b \in Nat
  PROVE  \E A : /\ A \in [0 .. Len(Parse(T)) -> Accs] /\ A[0] = Begun
                /\ \A i \in 0 + 1 .. Len(Parse(T)) :
                     A[i] = Passed(T, Parse(T)[i], from, b, A[i - 1])
                /\ Printed(T, from, b) = A[Len(Parse(T))]
<1> DEFINE secs == Parse(T)
           n == Len(secs)
           step == [i \in 0 + 1 .. n |-> [acc \in Accs |-> Passed(T, secs[i], from, b, acc)]]
<1>1. n \in Nat /\ \A i \in 1 .. n : secs[i] \in ToSet(secs)
  <2>1. DOMAIN secs = 1 .. n /\ n \in Nat
    BY ParseIs, HeadsAre DEF Notes, Lists
  <2> QED
    BY <2>1 DEF ToSet
<1>2. Begun \in Accs
  BY DEF Begun, Accs
<1>3. ASSUME NEW i \in 1 .. n, NEW acc \in Accs PROVE Passed(T, secs[i], from, b, acc) \in Accs
  <2> DEFINE s == secs[i]
  <2>1. SizeOf(T, s) \in Nat /\ s.id \in Nat
    BY <1>1, SizeIs, SectionIs DEF Notes
  <2> HIDE DEF s
  <2>2. WithSection(acc, s, SizeOf(T, s), b) \in Accs
    BY <2>1, WithSectionIs
  <2> QED
    BY <2>2 DEF Passed, s
<1>4. step \in Steps(0, n, Accs)
  <2>1. \A i \in 0 + 1 .. n : i \in 1 .. n
    OBVIOUS
  <2> HIDE DEF n, secs
  <2> QED
    BY <1>3, <2>1 DEF Steps
<1>5. PICK f : Follows(f, 0, n, Accs, Begun, step)
  <2> HIDE DEF step, n
  <2>1. 0 \in Nat /\ 0 <= n
    BY <1>1
  <2> QED
    BY <1>1, <1>2, <1>4, <2>1, Recursion
<1>6. /\ f \in [0 .. n -> Accs] /\ f[0] = Begun
      /\ \A i \in 0 + 1 .. n : f[i] = step[i][f[i - 1]]
  BY <1>5 DEF Follows
<1>7. ASSUME NEW i \in 0 + 1 .. n PROVE f[i] = Passed(T, secs[i], from, b, f[i - 1])
  <2>1. f[i - 1] \in Accs
    <3>1. i - 1 \in 0 .. n
      BY <1>1
    <3> HIDE DEF step, n
    <3> QED
      BY <3>1, <1>6
  <2>2. step[i] = [acc \in Accs |-> Passed(T, secs[i], from, b, acc)]
    OBVIOUS
  <2> HIDE DEF step
  <2> QED
    BY <2>1, <2>2, <1>6
<1> DEFINE Body1(g) == [i \in 0 .. n |-> IF i = 0 THEN Begun ELSE Passed(T, secs[i], from, b, g[i - 1])]
<1>8. f = Body1(f)
  <2>1. \A i \in 0 .. n : i # 0 => i \in 0 + 1 .. n
    BY <1>1
  <2> HIDE DEF step
  <2> QED
    BY <2>1, <1>6, <1>7
<1> DEFINE u == CHOOSE g : g = Body1(g)
<1>9. u = Body1(u)
  <2> HIDE DEF Body1
  <2> QED
    BY <1>8
<1>10. Printed(T, from, b) = u[n]
  BY DEF Printed, Passed, Begun
<1> HIDE DEF u, step, n, secs
<1>11. u[0] = Begun /\ \A i \in 0 + 1 .. n : u[i] = Passed(T, secs[i], from, b, u[i - 1])
  <2>1. 0 \in 0 .. n /\ \A i \in 0 + 1 .. n : i \in 0 .. n /\ i # 0
    BY <1>1
  <2> QED
    BY <2>1, <1>9
<1> HIDE DEF Body1
<1> DEFINE G == {i \in 0 .. n : u[i] \in Accs}
<1>12. \A i \in 0 .. n : i \in G
  <2>1. 0 \in G
    BY <1>1, <1>2, <1>11
  <2>2. ASSUME NEW i \in 0 + 1 .. n, i - 1 \in G PROVE i \in G
    <3>1. u[i - 1] \in Accs /\ i \in 0 .. n /\ i \in 1 .. n
      BY <2>2, <1>1
    <3> QED
      BY <3>1, <1>3, <1>11
  <2> HIDE DEF G
  <2> QED
    BY <2>1, <2>2, <1>1, StepByStep
<1>13. u \in [0 .. n -> Accs]
  BY <1>9, <1>12 DEF Body1
<1> QED
  BY <1>10, <1>11, <1>13 DEF n, secs

LEMMA SectionAt ==
  ASSUME NEW T \in Notes, NEW i \in 1 .. Len(Parse(T))
  PROVE  /\ Parse(T)[i] \in ToSet(Parse(T)) /\ Parse(T)[i].id = i - 1
         /\ i \in Nat /\ Len(Parse(T)) \in Nat
<1>1. /\ Parse(T) = [j \in 1 .. Len(Heads(T)) + 1 |-> Section(T, Heads(T), j - 1)]
      /\ Len(Parse(T)) = Len(Heads(T)) + 1 /\ Len(Heads(T)) \in Nat
  BY ParseIs, HeadsAre DEF Notes, Lists
<1>2. Parse(T)[i] = Section(T, Heads(T), i - 1)
  BY <1>1
<1>3. Section(T, Heads(T), i - 1).id = i - 1
  BY DEF Section
<1>4. DOMAIN Parse(T) = 1 .. Len(Parse(T))
  BY <1>1
<1>5. Parse(T)[i] \in ToSet(Parse(T))
  BY <1>4 DEF ToSet
<1> QED
  BY <1>1, <1>2, <1>3, <1>5

LEMMA CountedMore ==
  ASSUME NEW T, NEW from, NEW i \in Nat \ {0}
  PROVE  /\ Counts(T, from, i - 1) => Counted(T, from, i) = Counted(T, from, i - 1) \cup {i - 1}
         /\ ~Counts(T, from, i - 1) => Counted(T, from, i) = Counted(T, from, i - 1)
         /\ Counted(T, from, i - 1) \subseteq Counted(T, from, i)
         /\ \A j \in Counted(T, from, i - 1) : j \in Nat /\ j < i - 1
<1>1. 0 .. i - 1 = (0 .. (i - 1) - 1) \cup {i - 1}
  OBVIOUS
<1>2. \A j \in 0 .. (i - 1) - 1 : j \in Nat /\ j < i - 1
  OBVIOUS
<1> QED
  BY <1>1, <1>2 DEF Counted

LEMMA SizesMore ==
  ASSUME NEW T \in Notes, NEW ids \in Seq(Nat), NEW j \in Nat, j + 1 \in 1 .. Len(Parse(T)),
         Sizes(T, ids) \in Seq(Nat)
  PROVE  /\ Sizes(T, Append(ids, j)) = Append(Sizes(T, ids), SizeOf(T, Parse(T)[j + 1]) + 1)
         /\ Sizes(T, Append(ids, j)) \in Seq(Nat)
<1> DEFINE t == Append(ids, j)
           n == Len(ids)
           x == SizeOf(T, Parse(T)[j + 1]) + 1
           z == Sizes(T, ids)
<1>1. /\ t \in Seq(Nat) /\ Len(t) = n + 1 /\ t[n + 1] = j /\ n \in Nat
      /\ DOMAIN t = 1 .. n + 1 /\ DOMAIN ids = 1 .. n
      /\ \A i \in 1 .. n : t[i] = ids[i]
  OBVIOUS
<1>2. x \in Nat
  BY SectionAt, SizeIs
<1>3. z = [i \in 1 .. n |-> SizeOf(T, Parse(T)[ids[i] + 1]) + 1]
  BY <1>1 DEF Sizes
<1>4. Len(z) = n /\ z \in Seq(Nat)
  BY <1>3, <1>1
<1>5. /\ Append(z, x) \in Seq(Nat) /\ DOMAIN Append(z, x) = 1 .. n + 1
      /\ Append(z, x)[n + 1] = x /\ \A i \in 1 .. n : Append(z, x)[i] = z[i]
  <2> HIDE DEF z, x
  <2> QED
    BY <1>2, <1>4
<1>6. Sizes(T, t) = [i \in 1 .. n + 1 |-> SizeOf(T, Parse(T)[t[i] + 1]) + 1]
  BY <1>1 DEF Sizes
<1>7. \A i \in 1 .. n + 1 : Append(z, x)[i] = SizeOf(T, Parse(T)[t[i] + 1]) + 1
  <2> TAKE i \in 1 .. n + 1
  <2>1. CASE i = n + 1
    BY <2>1, <1>1, <1>5
  <2>2. CASE i # n + 1
    <3>1. i \in 1 .. n
      BY <2>2, <1>1
    <3> QED
      BY <3>1, <1>1, <1>3, <1>5
  <2> QED
    BY <2>1, <2>2
<1>8. Append(z, x) = [i \in 1 .. n + 1 |-> Append(z, x)[i]]
  <2> HIDE DEF z, x
  <2>1. Len(Append(z, x)) = n + 1
    BY <1>2, <1>4, <1>5
  <2> QED
    BY <2>1, <1>5, SeqIsFunction
<1>9. Sizes(T, t) = Append(z, x)
  <2> HIDE DEF z, x, t
  <2> QED
    BY <1>6, <1>7, <1>8 DEF x
<1> QED
  BY <1>5, <1>9

LEMMA HalfwayBegins ==
  ASSUME NEW T, NEW from \in Nat, NEW b \in Nat
  PROVE  Halfway(T, from, b, Begun, 0) /\ Sizes(T, Begun.ids) \in Seq(Nat)
<1>1. /\ Begun \in Accs /\ Begun.ids = <<>> /\ Begun.used = 0 /\ Begun.end = "none"
  BY DEF Begun, Accs
<1>2. Sizes(T, <<>>) = <<>>
  BY DEF Sizes
<1>3. SumOf(Sizes(T, <<>>)) = 0 /\ Sizes(T, <<>>) \in Seq(Nat)
  <2>1. <<>> \in Seq(Nat)
    OBVIOUS
  <2>2. SumOf(<<>>) = 0
    BY SumOfMore
  <2> QED
    BY <1>2, <2>1, <2>2
<1>4. Counted(T, from, 0) = {}
  BY DEF Counted
<1>5. Lists(<<>>, {})
  <2>1. <<>> \in Seq(Nat) /\ Len(<<>>) = 0
    OBVIOUS
  <2> QED
    BY <2>1 DEF Lists
<1>6. /\ SumOf(Sizes(T, Begun.ids)) = Begun.used /\ Begun.used <= b
      /\ Sizes(T, Begun.ids) \in Seq(Nat)
  BY <1>1, <1>3
<1>7. Lists(Begun.ids, Counted(T, from, 0))
  BY <1>1, <1>4, <1>5
<1> QED
  BY <1>1, <1>6, <1>7 DEF Halfway

LEMMA HalfwayGoesOn ==
  ASSUME NEW T \in Notes, NEW from \in Nat, NEW b \in Nat, NEW i \in 1 .. Len(Parse(T)),
         NEW acc, Halfway(T, from, b, acc, i - 1), Sizes(T, acc.ids) \in Seq(Nat)
  PROVE  LET next == Passed(T, Parse(T)[i], from, b, acc) IN
         Halfway(T, from, b, next, i) /\ Sizes(T, next.ids) \in Seq(Nat)
<1> DEFINE s == Parse(T)[i]
           z == SizeOf(T, s)
           j == i - 1
           next == Passed(T, s, from, b, acc)
<1>1. /\ s \in ToSet(Parse(T)) /\ s.id = j /\ i \in Nat \ {0} /\ j \in Nat /\ j + 1 = i
  BY SectionAt
<1>2. z \in Nat
  BY <1>1, SizeIs
<1>3. Counts(T, from, j) <=> ~(s.id < from) /\ z # 0
  <2>1. Parse(T)[j + 1] = s
    BY <1>1
  <2> SUFFICES (j >= from) <=> ~(j < from)
    BY <1>1, <2>1 DEF Counts
  <2> QED
    OBVIOUS
<1>4. /\ acc \in Accs /\ acc.ids \in Seq(Nat) /\ acc.used \in Nat
      /\ acc = [ids |-> acc.ids, used |-> acc.used, end |-> acc.end, next |-> acc.next]
      /\ acc.end \in {"none", "truncated", "bare", "more"} /\ acc.next \in Int
      /\ SumOf(Sizes(T, acc.ids)) = acc.used /\ acc.used <= b
      /\ acc.used = 0 => acc.ids = <<>>
      /\ acc.end = "none" => Lists(acc.ids, Counted(T, from, j))
      /\ acc.end # "none" =>
           /\ acc.next \in Counted(T, from, j)
           /\ Lists(acc.ids, Counted(T, from, acc.next))
           /\ acc.end = "truncated" => acc.ids = <<>>
           /\ acc.end = "more" => acc.used + MoreId + 1 <= b
  BY DEF Halfway, Accs
<1>5. /\ Counts(T, from, j) => Counted(T, from, i) = Counted(T, from, j) \cup {j}
      /\ ~Counts(T, from, j) => Counted(T, from, i) = Counted(T, from, j)
      /\ Counted(T, from, j) \subseteq Counted(T, from, i)
      /\ \A x \in Counted(T, from, j) : x \in Nat /\ x < j
  BY <1>1, CountedMore
<1> HIDE DEF s, z, j
<1>6. CASE acc.end # "none"
  <2>1. next = acc
    BY <1>6 DEF Passed
  <2>2. Halfway(T, from, b, acc, i)
    BY <1>4, <1>5, <1>6 DEF Halfway
  <2> QED
    BY <2>1, <2>2 DEF s
<1>7. CASE acc.end = "none" /\ ~Counts(T, from, j)
  <2>1. next = acc
    BY <1>3, <1>7 DEF Passed, z
  <2>2. Halfway(T, from, b, acc, i)
    BY <1>4, <1>5, <1>7 DEF Halfway
  <2> QED
    BY <2>1, <2>2 DEF s
<1>8. CASE acc.end = "none" /\ Counts(T, from, j)
  <2>1. next = WithSection(acc, s, z, b)
    BY <1>3, <1>8 DEF Passed, z
  <2>2. j \in Counted(T, from, i)
    BY <1>5, <1>8
  <2>3. CASE Fits(acc, z, b)
    <3>1. next = [acc EXCEPT !.ids = Append(@, s.id), !.used = @ + z + 1]
      BY <2>1, <2>3 DEF WithSection
    <3> DEFINE ids == Append(acc.ids, j)
    <3>2. /\ next.ids = ids /\ next.used = acc.used + z + 1
          /\ next.end = "none"
          /\ next \in Accs
      <4>1. ids \in Seq(Nat) /\ acc.used + z + 1 \in Nat
        BY <1>1, <1>2, <1>4, SMTT(30)
      <4>2. next = [ids |-> ids, used |-> acc.used + z + 1, end |-> acc.end, next |-> acc.next]
        BY <3>1, <1>1, <1>4
      <4> HIDE DEF next, ids
      <4> QED
        BY <4>1, <4>2, <1>4, <1>8 DEF Accs
    <3> HIDE DEF next
    <3>3. Lists(ids, Counted(T, from, i))
      <4>1. Lists(acc.ids, Counted(T, from, j)) /\ \A x \in Counted(T, from, j) : x < j
        BY <1>4, <1>5, <1>8
      <4>2. Lists(ids, Counted(T, from, j) \cup {j})
        BY <4>1, <1>1, ListsMore
      <4> QED
        BY <4>2, <1>5, <1>8
    <3>4. Sizes(T, ids) = Append(Sizes(T, acc.ids), z + 1) /\ Sizes(T, ids) \in Seq(Nat)
      <4>1. j + 1 \in 1 .. Len(Parse(T)) /\ Parse(T)[j + 1] = s
        BY <1>1 DEF s
      <4> QED
        BY <4>1, <1>1, <1>4, SizesMore DEF z
    <3>5. SumOf(Sizes(T, ids)) = acc.used + (z + 1)
      <4>1. z + 1 \in Nat
        BY <1>2
      <4> QED
        BY <4>1, <3>4, <1>4, SumOfMore
    <3>6. acc.used + z + 1 <= b
      BY <2>3 DEF Fits
    <3>7. /\ SumOf(Sizes(T, next.ids)) = next.used /\ next.used <= b /\ next.used # 0
      BY <3>2, <3>5, <3>6, <1>2, <1>4
    <3>8. Halfway(T, from, b, next, i)
      BY <3>2, <3>3, <3>7 DEF Halfway
    <3> QED
      BY <3>2, <3>4, <3>8 DEF next, s
  <2>4. CASE ~Fits(acc, z, b)
    <3> DEFINE e == IF acc.used = 0 THEN "truncated"
                    ELSE IF acc.used + MoreId + 1 > b THEN "bare" ELSE "more"
    <3>1. next = [acc EXCEPT !.end = e, !.next = s.id]
      BY <2>1, <2>4 DEF WithSection
    <3>2. /\ e \in {"none", "truncated", "bare", "more"} /\ e # "none"
          /\ e = "truncated" => acc.used = 0
          /\ e = "more" => acc.used + MoreId + 1 <= b
      BY <1>4 DEF MoreId
    <3> HIDE DEF e
    <3>3. /\ next.ids = acc.ids /\ next.used = acc.used /\ next.end = e /\ next.next = j
          /\ next \in Accs
      <4>1. next = [ids |-> acc.ids, used |-> acc.used, end |-> e, next |-> j]
        BY <3>1, <1>1, <1>4
      <4>2. j \in Int
        BY <1>1
      <4> HIDE DEF next
      <4> QED
        BY <4>1, <4>2, <3>2, <1>4 DEF Accs
    <3> HIDE DEF next
    <3>4. Halfway(T, from, b, next, i)
      BY <3>2, <3>3, <2>2, <1>4, <1>8 DEF Halfway
    <3> QED
      BY <3>3, <3>4 DEF next, s
  <2> QED
    BY <2>3, <2>4
<1> QED
  BY <1>6, <1>7, <1>8

LEMMA PrintedHolds ==
  ASSUME NEW T \in Notes, NEW from \in Nat, NEW b \in Nat
  PROVE  Halfway(T, from, b, Printed(T, from, b), Len(Parse(T)))
<1> DEFINE n == Len(Parse(T))
<1>1. n \in Nat
  BY ParseIs, HeadsAre DEF Notes, Lists
<1>2. PICK A : /\ A \in [0 .. n -> Accs] /\ A[0] = Begun
               /\ \A i \in 0 + 1 .. n : A[i] = Passed(T, Parse(T)[i], from, b, A[i - 1])
               /\ Printed(T, from, b) = A[n]
  BY PrintedIs
<1> DEFINE G == {i \in 0 .. n : /\ Halfway(T, from, b, A[i], i)
                                /\ Sizes(T, A[i].ids) \in Seq(Nat)}
<1> HIDE DEF n
<1>3. 0 \in G
  BY <1>1, <1>2, HalfwayBegins
<1>4. ASSUME NEW i \in 0 + 1 .. n, i - 1 \in G PROVE i \in G
  <2>1. i \in 1 .. n /\ i \in 0 .. n
    BY <1>1
  <2>2. Halfway(T, from, b, A[i - 1], i - 1) /\ Sizes(T, A[i - 1].ids) \in Seq(Nat)
    BY <1>4
  <2> DEFINE next == Passed(T, Parse(T)[i], from, b, A[i - 1])
  <2>3. Halfway(T, from, b, next, i) /\ Sizes(T, next.ids) \in Seq(Nat)
    BY <2>1, <2>2, HalfwayGoesOn DEF n
  <2>4. A[i] = next
    BY <1>2
  <2> HIDE DEF next
  <2> QED
    BY <2>1, <2>3, <2>4
<1>5. \A i \in 0 .. n : i \in G
  <2> HIDE DEF G
  <2> QED
    BY <1>1, <1>3, <1>4, StepByStep
<1>6. n \in 0 .. n
  BY <1>1
<1> QED
  BY <1>2, <1>5, <1>6 DEF n

\* The sections that count, from an id on.
Full(T, from) == {s \in ToSet(Parse(T)) : /\ s.id >= from /\ s.start < s.end
                                          /\ SizeOf(T, s) > 0}

LEMMA FullIs ==
  ASSUME NEW T \in Notes, NEW from \in Nat
  PROVE  /\ \A s \in Full(T, from) : s.id \in Counted(T, from, Len(Parse(T)))
         /\ \A j \in Counted(T, from, Len(Parse(T))) :
              Parse(T)[j + 1] \in Full(T, from) /\ Parse(T)[j + 1].id = j
<1> DEFINE n == Len(Parse(T))
<1>1. ASSUME NEW s \in Full(T, from) PROVE s.id \in Counted(T, from, n)
  <2>1. s \in ToSet(Parse(T)) /\ s.id >= from /\ SizeOf(T, s) > 0
    BY DEF Full
  <2>2. s.id \in 0 .. Len(Heads(T)) /\ s = Parse(T)[s.id + 1]
    BY <2>1, SectionIs DEF Notes
  <2>3. n = Len(Heads(T)) + 1 /\ Len(Heads(T)) \in Nat
    BY ParseIs, HeadsAre DEF Notes, Lists
  <2> HIDE DEF n
  <2>4. s.id \in 0 .. n - 1
    BY <2>2, <2>3
  <2>5. SizeOf(T, Parse(T)[s.id + 1]) # 0
    BY <2>1, <2>2, SizeIs
  <2> QED
    BY <2>1, <2>4, <2>5 DEF Counted, Counts
<1>2. ASSUME NEW j \in Counted(T, from, n)
      PROVE  Parse(T)[j + 1] \in Full(T, from) /\ Parse(T)[j + 1].id = j
  <2> DEFINE s == Parse(T)[j + 1]
  <2>1. j \in 0 .. n - 1 /\ j >= from /\ SizeOf(T, s) # 0
    BY DEF Counted, Counts
  <2>2. n \in Nat
    BY ParseIs, HeadsAre DEF Notes, Lists
  <2>3. j + 1 \in 1 .. n /\ (j + 1) - 1 = j
    BY <2>1, <2>2
  <2>4. s \in ToSet(Parse(T)) /\ s.id = j
    BY <2>3, SectionAt
  <2> HIDE DEF s
  <2>5. SizeOf(T, s) \in Nat /\ s.start # s.end
    BY <2>1, <2>4, SizeIs
  <2>6. s.start \in Nat /\ s.end \in Nat /\ s.start <= s.end
    BY <2>4, SectionIs DEF Notes
  <2>7. s \in Full(T, from)
    BY <2>1, <2>4, <2>5, <2>6 DEF Full
  <2> QED
    BY <2>4, <2>7 DEF s
<1> QED
  BY <1>1, <1>2

\* show prints whole sections in order and skips none, says where to go on,
\* and keeps to its budget.
THEOREM ShowPagesHolds == Spec => []ShowPages
<1>1. NoteIsText => ShowPages
  <2> SUFFICES ASSUME NoteIsText, Exists, NEW b \in Budgets,
                      NEW from \in 0 .. Len(Parse(note)) - 1
               PROVE  LET r      == Printed(note, from, b)
                          before == {s.id : s \in {x \in Full(note, from) :
                                                    r.end = "none" \/ x.id < r.next}}
                          total  == SumOf(Sizes(note, r.ids))
                      IN /\ ToSet(r.ids) = before
                         /\ \A i, j \in DOMAIN r.ids : i < j => r.ids[i] < r.ids[j]
                         /\ r.end # "none" => /\ \E s \in Full(note, from) : s.id = r.next
                                              /\ r.end = "truncated" => r.ids = <<>>
                         /\ total + (IF r.end = "more" THEN MoreId + 1 ELSE 0) <= b
    BY DEF ShowPages, Full, Sizes
  <2> DEFINE n == Len(Parse(note))
             r == Printed(note, from, b)
             before == {s.id : s \in {x \in Full(note, from) :
                                        r.end = "none" \/ x.id < r.next}}
  <2>1. note \in Notes /\ b \in Nat /\ from \in Nat /\ n \in Nat
    BY ExistsIsNote, NotesAssumption, ParseIs, HeadsAre DEF Notes, Lists
  <2>2. Halfway(note, from, b, r, n)
    BY <2>1, PrintedHolds
  <2> HIDE DEF r
  <2>3. /\ r.ids \in Seq(Nat) /\ r.used \in Nat
        /\ SumOf(Sizes(note, r.ids)) = r.used /\ r.used <= b
        /\ r.end = "none" => Lists(r.ids, Counted(note, from, n))
        /\ r.end # "none" =>
             /\ r.next \in Counted(note, from, n)
             /\ Lists(r.ids, Counted(note, from, r.next))
             /\ r.end = "truncated" => r.ids = <<>>
             /\ r.end = "more" => r.used + MoreId + 1 <= b
    BY <2>2 DEF Halfway, Accs
  <2>4. /\ \A s \in Full(note, from) : s.id \in Counted(note, from, n)
        /\ \A j \in Counted(note, from, n) :
             \E s \in Full(note, from) : s.id = j
    BY <2>1, FullIs
  <2> HIDE DEF n
  <2>5. \A x : x \in before <=>
               x \in Counted(note, from, n) /\ (r.end = "none" \/ x < r.next)
    BY <2>4
  <2>6. DOMAIN r.ids = 1 .. Len(r.ids)
    BY <2>3
  <2>7. \A x : x \in ToSet(r.ids) <=> \E i \in 1 .. Len(r.ids) : r.ids[i] = x
    BY <2>6 DEF ToSet
  <2> HIDE DEF before
  <2>8. CASE r.end = "none"
    <3>1. \A x : x \in ToSet(r.ids) <=> x \in Counted(note, from, n)
      BY <2>3, <2>7, <2>8 DEF Lists
    <3>2. ToSet(r.ids) = before
      BY <3>1, <2>5, <2>8
    <3>3. \A i, j \in DOMAIN r.ids : i < j => r.ids[i] < r.ids[j]
      BY <2>3, <2>6, <2>8 DEF Lists
    <3> QED
      BY <3>2, <3>3, <2>3, <2>8 DEF r, before
  <2>9. CASE r.end # "none"
    <3>0. /\ r.next \in Counted(note, from, n)
          /\ Lists(r.ids, Counted(note, from, r.next))
      BY <2>3, <2>9
    <3>1. \A x : x \in ToSet(r.ids) <=> x \in Counted(note, from, r.next)
      BY <3>0, <2>7 DEF Lists
    <3>2. \A x : x \in Counted(note, from, r.next) <=>
                 x \in Counted(note, from, n) /\ x < r.next
      <4>1. r.next \in 0 .. n - 1
        BY <3>0 DEF Counted
      <4>2. \A x : x \in 0 .. r.next - 1 <=> x \in 0 .. n - 1 /\ x < r.next
        BY <4>1, <2>1
      <4> QED
        BY <4>2 DEF Counted
    <3>3. ToSet(r.ids) = before
      BY <3>1, <3>2, <2>5, <2>9
    <3>4. \A i, j \in DOMAIN r.ids : i < j => r.ids[i] < r.ids[j]
      BY <3>0, <2>6 DEF Lists
    <3>5. \E s \in Full(note, from) : s.id = r.next
      BY <3>0, <2>4
    <3>6. SumOf(Sizes(note, r.ids)) + (IF r.end = "more" THEN MoreId + 1 ELSE 0) <= b
      BY <2>1, <2>3, <2>9 DEF MoreId
    <3> QED
      BY <3>3, <3>4, <3>5, <3>6, <2>3, <2>9 DEF r, before
  <2> QED
    BY <2>8, <2>9
<1> QED
  BY <1>1, TypeHolds, PTL

----------------------------------------------------------------------------
(* What is read back of what was written to a section.                     *)

\* Lines that are no marks: neither frontmatter, nor fences, nor headings.
Unmarked(q) == q \in Seq(Bodies) /\ \A i \in 1 .. Len(q) : q[i].kind \in {"word", "blank"}

\* U is T with the unmarked q in the place of the lines a + 1 .. b, none of
\* which is a heading, where the fence open behind them is the one before.
Planted(T, U, a, b, q) ==
  LET f    == FmBounds(T)
      open == OpenFence(T, f)
  IN /\ Holding(T, U, a, b, q) /\ Unmarked(q)
     /\ a \in Nat /\ b \in Nat /\ a <= b /\ b <= Len(T) /\ f <= b
     /\ a > 0 => f <= a
     /\ a = 0 /\ q = <<>> => ~IsRule(T[b + 1])
     /\ \A x \in HeadSet(T) : x <= a \/ x > b
     /\ b < Len(T) => open[b] = IF a = 0 THEN NoMarker ELSE open[a]

LEMMA BoundsAre ==
  ASSUME NEW U \in Notes, NEW g \in Nat,
         \/ /\ g \in 2 .. Len(U) /\ IsRule(U[1]) /\ IsRule(U[g]) /\ ~U[g].bom
            /\ \A i \in 2 .. g - 1 : ~(IsRule(U[i]) /\ ~U[i].bom)
         \/ /\ g = 0
            /\ \/ ~IsRule(U[1])
               \/ \A i \in 2 .. Len(U) : ~(IsRule(U[i]) /\ ~U[i].bom)
  PROVE  FmBounds(U) = g
<1> DEFINE e == FmBounds(U)
<1>1. /\ e \in 0 .. Len(U) /\ Len(U) \in Nat
      /\ e > 0 => /\ e \in 2 .. Len(U) /\ IsRule(U[1]) /\ IsRule(U[e]) /\ ~U[e].bom
                  /\ \A i \in 2 .. e - 1 : ~(IsRule(U[i]) /\ ~U[i].bom)
      /\ e = 0 => \/ ~IsRule(U[1])
                  \/ \A i \in 2 .. Len(U) : ~(IsRule(U[i]) /\ ~U[i].bom)
  BY FmBoundsIs DEF Notes
<1> HIDE DEF e
<1>2. CASE g = 0
  <2>1. ~(e > 0)
    BY <1>1, <1>2
  <2> QED
    BY <2>1, <1>1, <1>2 DEF e
<1>3. CASE g # 0
  <2>1. /\ g \in 2 .. Len(U) /\ IsRule(U[1]) /\ IsRule(U[g]) /\ ~U[g].bom
        /\ \A i \in 2 .. g - 1 : ~(IsRule(U[i]) /\ ~U[i].bom)
    BY <1>3
  <2>2. e > 0
    BY <2>1, <1>1
  <2>3. ~(e < g)
    <3>1. e < g => e \in 2 .. g - 1
      BY <2>1, <2>2, <1>1
    <3> QED
      BY <3>1, <2>1, <2>2, <1>1
  <2>4. ~(g < e)
    <3>1. g < e => g \in 2 .. e - 1
      BY <2>1, <2>2, <1>1
    <3> QED
      BY <3>1, <2>1, <2>2, <1>1
  <2> QED
    BY <2>1, <2>3, <2>4, <1>1 DEF e
<1> QED
  BY <1>2, <1>3

LEMMA UnmarkedLine ==
  ASSUME NEW l, l.body.kind \in {"word", "blank"}
  PROVE  ~IsRule(l) /\ ~IsKind(l, "heading") /\ \A m : Fenced(l, m) = m
<1>1. ~IsRule(l)
  BY RuleIsABody DEF IsRule
<1>2. ~IsKind(l, "heading") /\ ~IsKind(l, "fence")
  BY DEF IsKind
<1> QED
  BY <1>1, <1>2 DEF Fenced, Opens, Closes

LEMMA LikeLines ==
  ASSUME NEW l, NEW r, l.body = r.body, l.bom = r.bom
  PROVE  /\ IsRule(l) <=> IsRule(r)
         /\ IsKind(l, "heading") <=> IsKind(r, "heading")
         /\ \A m : Fenced(l, m) = Fenced(r, m)
BY DEF IsRule, IsKind, Fenced, Opens, Closes

\* U by place: k lines of text, and d lines more than T.
PlantedAt(T, U, a, b, q, k, d) ==
  /\ U \in Notes /\ k = Len(q) /\ k \in Nat /\ d \in Int
  /\ Len(U) = Len(T) + d /\ Len(T) \in Nat
  /\ a \in Nat /\ b \in Nat /\ a <= b /\ b <= Len(T) /\ a + k = b + d
  /\ \A i \in 1 .. a : U[i].body = T[i].body /\ U[i].bom = T[i].bom
  /\ \A i \in a + 1 .. a + k : U[i].body = q[i - a] /\ U[i].body.kind \in {"word", "blank"}
  /\ \A i \in b + 1 .. Len(T) : U[i + d] = T[i]

LEMMA PlantedIs ==
  ASSUME NEW T \in Notes, NEW U, NEW a, NEW b, NEW q, Planted(T, U, a, b, q)
  PROVE  PlantedAt(T, U, a, b, q, Len(q), Len(q) - (b - a))
<1> DEFINE k == Len(q)
           d == Len(q) - (b - a)
           n == Len(T)
<1>1. /\ U \in Notes /\ Len(U) = a + k + (n - b)
      /\ \A i \in 1 .. a : U[i].body = T[i].body /\ U[i].bom = T[i].bom
      /\ \A i \in 1 .. k : U[a + i].body = q[i]
      /\ \A i \in b + 1 .. n : U[i - b + a + k] = T[i]
      /\ a \in Nat /\ b \in Nat /\ a <= b /\ b <= n /\ n \in Nat /\ k \in Nat
      /\ \A i \in 1 .. k : q[i].kind \in {"word", "blank"}
  BY DEF Planted, Holding, Unmarked, Notes
<1>2. d = k - (b - a)
  OBVIOUS
<1> HIDE DEF n, k, d
<1>3. d \in Int /\ Len(U) = n + d /\ a + k = b + d
  BY <1>1, <1>2
<1>4. ASSUME NEW i \in a + 1 .. a + k
      PROVE  U[i].body = q[i - a] /\ U[i].body.kind \in {"word", "blank"}
  <2>1. i - a \in 1 .. k /\ a + (i - a) = i
    BY <1>1
  <2> QED
    BY <2>1, <1>1
<1>5. ASSUME NEW i \in b + 1 .. n PROVE U[i + d] = T[i]
  <2>1. i - b + a + k = i + d
    BY <1>1, <1>2
  <2> QED
    BY <2>1, <1>1
<1> QED
  BY <1>1, <1>3, <1>4, <1>5 DEF n, k, d, PlantedAt

LEMMA PlantedBounds ==
  ASSUME NEW T \in Notes, NEW U, NEW a, NEW b, NEW q, Planted(T, U, a, b, q)
  PROVE  FmBounds(U) = IF a = 0 THEN 0 ELSE FmBounds(T)
<1> DEFINE k == Len(q)
           d == Len(q) - (b - a)
           n == Len(T)
           f == FmBounds(T)
<1>1. /\ U \in Notes /\ k \in Nat /\ d \in Int /\ Len(U) = n + d /\ n \in Nat
      /\ a \in Nat /\ b \in Nat /\ a <= b /\ b <= n /\ a + k = b + d
      /\ \A i \in 1 .. a : U[i].body = T[i].body /\ U[i].bom = T[i].bom
      /\ \A i \in a + 1 .. a + k : U[i].body.kind \in {"word", "blank"}
      /\ \A i \in b + 1 .. n : U[i + d] = T[i]
  <2>1. PlantedAt(T, U, a, b, q, k, d)
    BY PlantedIs
  <2> QED
    BY <2>1 DEF PlantedAt
<1>2. /\ a > 0 => f <= a
      /\ a = 0 /\ q = <<>> => ~IsRule(T[b + 1])
      /\ k = 0 => q = <<>>
  BY EmptySeq DEF Planted, Unmarked
<1>3. /\ f \in Nat
      /\ f > 0 => /\ f \in 2 .. n /\ IsRule(T[1]) /\ IsRule(T[f]) /\ ~T[f].bom
                  /\ \A i \in 2 .. f - 1 : ~(IsRule(T[i]) /\ ~T[i].bom)
      /\ f = 0 => \/ ~IsRule(T[1])
                  \/ \A i \in 2 .. n : ~(IsRule(T[i]) /\ ~T[i].bom)
  BY FmBoundsIs DEF Notes
<1>4. Len(U) \in Nat \ {0}
  BY <1>1, LastLine DEF Notes
<1> HIDE DEF k, d, n, f
<1>5. CASE a = 0
  <2>1. ~IsRule(U[1])
    <3>1. CASE k = 0
      <4>1. b + 1 \in b + 1 .. n /\ (b + 1) + d = 1
        BY <3>1, <1>1, <1>4, <1>5
      <4>2. U[1] = T[b + 1]
        BY <4>1, <1>1
      <4> QED
        BY <4>2, <3>1, <1>2, <1>5
    <3>2. CASE k # 0
      <4>1. 1 \in a + 1 .. a + k
        BY <3>2, <1>1, <1>5
      <4>2. U[1].body.kind \in {"word", "blank"}
        BY <4>1, <1>1
      <4> QED
        BY <4>2, UnmarkedLine
    <3> QED
      BY <3>1, <3>2
  <2> QED
    BY <2>1, <1>1, <1>5, BoundsAre
<1>6. CASE a # 0 /\ f > 0
  <2>1. f <= a /\ f \in 1 .. a /\ 1 \in 1 .. a /\ \A i \in 2 .. f - 1 : i \in 1 .. a
    BY <1>1, <1>2, <1>3, <1>6
  <2>2. IsRule(U[1]) /\ IsRule(U[f]) /\ ~U[f].bom
    BY <2>1, <1>1, <1>3, <1>6, LikeLines
  <2>3. \A i \in 2 .. f - 1 : ~(IsRule(U[i]) /\ ~U[i].bom)
    <3> TAKE i \in 2 .. f - 1
    <3>1. U[i].body = T[i].body /\ U[i].bom = T[i].bom
      BY <2>1, <1>1
    <3>2. ~(IsRule(T[i]) /\ ~T[i].bom)
      BY <1>3, <1>6
    <3> QED
      BY <3>1, <3>2, LikeLines
  <2>4. f \in 2 .. Len(U)
    BY <2>1, <1>1, <1>3, <1>6
  <2>5. FmBounds(U) = f
    BY <2>2, <2>3, <2>4, <1>1, <1>3, BoundsAre
  <2> QED
    BY <2>5, <1>6 DEF f
<1>7. CASE a # 0 /\ f = 0
  <2>1. 1 \in 1 .. a
    BY <1>1, <1>7
  <2>2. IsRule(U[1]) <=> IsRule(T[1])
    BY <2>1, <1>1, LikeLines
  <2>3. ASSUME \A i \in 2 .. n : ~(IsRule(T[i]) /\ ~T[i].bom), NEW i \in 2 .. Len(U)
        PROVE  ~(IsRule(U[i]) /\ ~U[i].bom)
    <3>1. CASE i <= a
      <4>1. i \in 1 .. a /\ i \in 2 .. n
        BY <3>1, <1>1
      <4>2. U[i].body = T[i].body /\ U[i].bom = T[i].bom
        BY <4>1, <1>1
      <4> QED
        BY <4>1, <4>2, <2>3, LikeLines
    <3>2. CASE a < i /\ i <= a + k
      <4>1. i \in a + 1 .. a + k
        BY <3>2, <1>1
      <4> QED
        BY <4>1, <1>1, UnmarkedLine
    <3>3. CASE a + k < i
      <4>1. i - d \in b + 1 .. n /\ (i - d) + d = i /\ i - d \in 2 .. n
        BY <3>3, <1>1, <1>7
      <4>2. U[i] = T[i - d]
        BY <4>1, <1>1
      <4> QED
        BY <4>1, <4>2, <2>3
    <3>4. i <= a \/ (a < i /\ i <= a + k) \/ a + k < i
      BY <1>1
    <3> QED
      BY <3>1, <3>2, <3>3, <3>4
  <2>4. FmBounds(U) = 0
    BY <2>2, <2>3, <1>1, <1>3, <1>7, BoundsAre
  <2> QED
    BY <2>4, <1>7 DEF f
<1>8. a = 0 \/ (a # 0 /\ f > 0) \/ (a # 0 /\ f = 0)
  BY <1>3
<1> QED
  BY <1>5, <1>6, <1>7, <1>8

\* The fences before and behind what was planted are as they were.
FencesStay(T, U, a, b, d) ==
  LET F == OpenFence(T, FmBounds(T))
      G == OpenFence(U, FmBounds(U))
  IN /\ a > 0 => \A i \in FmBounds(T) .. a : G[i] = F[i]
     /\ b < Len(T) => \A i \in b .. Len(T) : G[i + d] = F[i]

LEMMA PlantedFences ==
  ASSUME NEW T \in Notes, NEW U, NEW a, NEW b, NEW q, Planted(T, U, a, b, q)
  PROVE  FencesStay(T, U, a, b, Len(q) - (b - a))
<1> DEFINE k == Len(q)
           d == Len(q) - (b - a)
           n == Len(T)
           f == FmBounds(T)
           g == FmBounds(U)
           F == OpenFence(T, f)
           G == OpenFence(U, g)
<1>1. PlantedAt(T, U, a, b, q, k, d)
  BY PlantedIs
<1>2. /\ U \in Notes /\ k \in Nat /\ d \in Int /\ Len(U) = n + d /\ n \in Nat
      /\ a \in Nat /\ b \in Nat /\ a <= b /\ b <= n /\ a + k = b + d
      /\ \A i \in 1 .. a : U[i].body = T[i].body /\ U[i].bom = T[i].bom
      /\ \A i \in a + 1 .. a + k : U[i].body.kind \in {"word", "blank"}
      /\ \A i \in b + 1 .. n : U[i + d] = T[i]
  BY <1>1 DEF PlantedAt
<1>3. /\ f \in 0 .. n /\ f \in Nat /\ f <= b
      /\ a > 0 => f <= a
      /\ b < n => F[b] = IF a = 0 THEN NoMarker ELSE F[a]
  BY FmBoundsIs DEF Planted, Notes
<1>4. g = IF a = 0 THEN 0 ELSE f
  BY PlantedBounds
<1>5. F[f] = NoMarker /\ \A i \in f + 1 .. n : F[i] = Fenced(T[i], F[i - 1])
  BY <1>3, OpenFenceIs DEF Notes
<1>6. G[g] = NoMarker /\ \A i \in g + 1 .. Len(U) : G[i] = Fenced(U[i], G[i - 1])
  <2>1. g \in 0 .. Len(U)
    BY <1>2, FmBoundsIs DEF Notes
  <2> QED
    BY <2>1, <1>2, OpenFenceIs DEF Notes
<1> HIDE DEF k, d, n, f, g, F, G
<1>7. ASSUME a > 0 PROVE \A i \in f .. a : G[i] = F[i]
  <2> DEFINE S == {i \in f .. a : G[i] = F[i]}
  <2>1. f \in S
    BY <1>2, <1>3, <1>4, <1>5, <1>6, <1>7
  <2>2. ASSUME NEW i \in f + 1 .. a, i - 1 \in S PROVE i \in S
    <3>1. i \in 1 .. a /\ i \in f + 1 .. n /\ i \in g + 1 .. Len(U) /\ i \in f .. a
      BY <1>2, <1>3, <1>4, <1>7
    <3>2. G[i - 1] = F[i - 1]
      BY <2>2
    <3>3. U[i].body = T[i].body /\ U[i].bom = T[i].bom
      BY <3>1, <1>2
    <3>4. Fenced(U[i], G[i - 1]) = Fenced(T[i], F[i - 1])
      BY <3>2, <3>3, LikeLines
    <3> QED
      BY <3>1, <3>4, <1>5, <1>6
  <2> HIDE DEF S
  <2>3. \A i \in f .. a : i \in S
    BY <2>1, <2>2, <1>2, <1>3, StepByStep
  <2> QED
    BY <2>3 DEF S
<1>8. g <= a /\ g \in Nat
  BY <1>2, <1>3, <1>4
<1>9. G[a + k] = G[a]
  <2> DEFINE S == {i \in a .. a + k : G[i] = G[a]}
  <2>1. a \in S
    BY <1>2
  <2>2. ASSUME NEW i \in a + 1 .. a + k, i - 1 \in S PROVE i \in S
    <3>1. i \in g + 1 .. Len(U) /\ i \in a .. a + k
      BY <1>2, <1>8
    <3>2. G[i - 1] = G[a]
      BY <2>2
    <3>3. Fenced(U[i], G[a]) = G[a]
      BY <1>2, UnmarkedLine
    <3> QED
      BY <3>1, <3>2, <3>3, <1>6
  <2> HIDE DEF S
  <2>3. a + k \in Nat
    BY <1>2
  <2>4. \A i \in a .. a + k : i \in S
    BY <2>1, <2>2, <2>3, <1>2, StepByStep
  <2>5. a + k \in a .. a + k
    BY <1>2
  <2> QED
    BY <2>4, <2>5 DEF S
<1>10. ASSUME b < n PROVE \A i \in b .. n : G[i + d] = F[i]
  <2> DEFINE S == {i \in b .. n : G[i + d] = F[i]}
  <2>0. G[a] = IF a = 0 THEN NoMarker ELSE F[a]
    <3>1. CASE a = 0
      BY <3>1, <1>4, <1>6
    <3>2. CASE a # 0
      <4>1. a > 0 /\ a \in f .. a
        BY <3>2, <1>2, <1>3
      <4> QED
        BY <4>1, <1>7
    <3> QED
      BY <3>1, <3>2
  <2>1. b \in S
    <3>1. G[b + d] = F[b]
      BY <2>0, <1>2, <1>3, <1>9, <1>10
    <3> QED
      BY <3>1, <1>2
  <2>2. ASSUME NEW i \in b + 1 .. n, i - 1 \in S PROVE i \in S
    <3>1. /\ i \in f + 1 .. n /\ i + d \in g + 1 .. Len(U) /\ i \in b .. n
          /\ (i + d) - 1 = (i - 1) + d
      BY <1>2, <1>3, <1>8
    <3>2. G[(i - 1) + d] = F[i - 1]
      BY <2>2
    <3>3. U[i + d] = T[i]
      BY <1>2
    <3>4. G[i + d] = Fenced(U[i + d], G[(i + d) - 1])
      BY <3>1, <1>6
    <3>5. F[i] = Fenced(T[i], F[i - 1])
      BY <3>1, <1>5
    <3> QED
      BY <3>1, <3>2, <3>3, <3>4, <3>5
  <2> HIDE DEF S
  <2>3. \A i \in b .. n : i \in S
    BY <2>1, <2>2, <1>2, StepByStep
  <2> QED
    BY <2>3 DEF S
<1> QED
  BY <1>7, <1>10 DEF FencesStay, F, G, f, g, n, d

\* The headings stay or move with the lines behind what was planted.
LEMMA PlantedHeads ==
  ASSUME NEW T \in Notes, NEW U, NEW a, NEW b, NEW q, Planted(T, U, a, b, q)
  PROVE  LET d == Len(q) - (b - a) IN
         /\ \A x \in HeadSet(T) : x <= a \/ x > b
         /\ \A x \in HeadSet(T) : /\ x <= a => x \in HeadSet(U)
                                  /\ x > b => x + d \in HeadSet(U)
         /\ \A x \in HeadSet(U) : \/ x <= a /\ x \in HeadSet(T)
                                  \/ \E y \in HeadSet(T) : y > b /\ x = y + d
<1> DEFINE k == Len(q)
           d == Len(q) - (b - a)
           n == Len(T)
           f == FmBounds(T)
           g == FmBounds(U)
           F == OpenFence(T, f)
           G == OpenFence(U, g)
<1>1. PlantedAt(T, U, a, b, q, k, d)
  BY PlantedIs
<1>2. /\ U \in Notes /\ k \in Nat /\ d \in Int /\ Len(U) = n + d /\ n \in Nat
      /\ a \in Nat /\ b \in Nat /\ a <= b /\ b <= n /\ a + k = b + d
      /\ \A i \in 1 .. a : U[i].body = T[i].body /\ U[i].bom = T[i].bom
      /\ \A i \in a + 1 .. a + k : U[i].body.kind \in {"word", "blank"}
      /\ \A i \in b + 1 .. n : U[i + d] = T[i]
  BY <1>1 DEF PlantedAt
<1>3. /\ f \in Nat /\ f <= b /\ (a > 0 => f <= a)
      /\ \A x \in HeadSet(T) : x <= a \/ x > b
  BY FmBoundsIs DEF Planted, Notes
<1>4. g = IF a = 0 THEN 0 ELSE f
  BY PlantedBounds
<1>5. /\ a > 0 => \A i \in f .. a : G[i] = F[i]
      /\ b < n => \A i \in b .. n : G[i + d] = F[i]
  BY PlantedFences DEF FencesStay
<1>6. \A x : x \in HeadSet(T) <=>
        x \in f + 1 .. n /\ IsKind(T[x], "heading") /\ F[x - 1] = NoMarker
  BY DEF HeadSet
<1>7. \A x : x \in HeadSet(U) <=>
        x \in g + 1 .. Len(U) /\ IsKind(U[x], "heading") /\ G[x - 1] = NoMarker
  BY DEF HeadSet
<1> HIDE DEF k, d, n, f, g, F, G
<1>8. ASSUME NEW x \in 1 .. a PROVE x \in HeadSet(U) <=> x \in HeadSet(T)
  <2>1. a > 0 /\ g = f
    BY <1>2, <1>4
  <2>2. x \in g + 1 .. Len(U) <=> x \in f + 1 .. n
    BY <2>1, <1>2
  <2>3. x \in f + 1 .. n => G[x - 1] = F[x - 1]
    <3>1. x \in f + 1 .. n => x - 1 \in f .. a
      BY <1>2, <1>3
    <3> QED
      BY <3>1, <2>1, <1>5
  <2>4. IsKind(U[x], "heading") <=> IsKind(T[x], "heading")
    BY <1>2, LikeLines
  <2> QED
    BY <2>2, <2>3, <2>4, <1>6, <1>7
<1>9. ASSUME NEW y \in b + 1 .. n PROVE y + d \in HeadSet(U) <=> y \in HeadSet(T)
  <2>1. b < n /\ y \in f + 1 .. n /\ y + d \in g + 1 .. Len(U) /\ y - 1 \in b .. n
        /\ (y + d) - 1 = (y - 1) + d
    BY <1>2, <1>3, <1>4
  <2>2. G[(y - 1) + d] = F[y - 1]
    BY <2>1, <1>5
  <2>3. U[y + d] = T[y]
    BY <1>2
  <2> QED
    BY <2>1, <2>2, <2>3, <1>6, <1>7
<1>10. ASSUME NEW x \in HeadSet(T)
       PROVE  (x <= a => x \in HeadSet(U)) /\ (x > b => x + d \in HeadSet(U))
  <2>1. x \in f + 1 .. n
    BY <1>6
  <2>2. (x <= a => x \in 1 .. a) /\ (x > b => x \in b + 1 .. n)
    BY <2>1, <1>2, <1>3
  <2> QED
    BY <2>2, <1>8, <1>9
<1>11. ASSUME NEW x \in HeadSet(U)
       PROVE  \/ x <= a /\ x \in HeadSet(T)
              \/ \E y \in HeadSet(T) : y > b /\ x = y + d
  <2>1. x \in g + 1 .. Len(U) /\ IsKind(U[x], "heading")
    BY <1>7
  <2>2. g \in Nat
    BY <1>3, <1>4
  <2>3. CASE x <= a
    <3>1. x \in 1 .. a
      BY <2>1, <2>2, <2>3, <1>2
    <3> QED
      BY <3>1, <2>3, <1>8
  <2>4. CASE a < x /\ x <= a + k
    <3>1. x \in a + 1 .. a + k
      BY <2>1, <2>2, <2>4, <1>2
    <3>2. U[x].body.kind \in {"word", "blank"}
      BY <3>1, <1>2
    <3> QED
      BY <3>2, <2>1, UnmarkedLine
  <2>5. CASE a + k < x
    <3> DEFINE y == x - d
    <3>1. y \in b + 1 .. n /\ y + d = x /\ y > b
      BY <2>1, <2>2, <2>5, <1>2
    <3> HIDE DEF y
    <3>2. y \in HeadSet(T)
      BY <3>1, <1>9
    <3> QED
      BY <3>1, <3>2
  <2>6. x <= a \/ (a < x /\ x <= a + k) \/ a + k < x
    BY <2>1, <2>2, <1>2
  <2> QED
    BY <2>3, <2>4, <2>5, <2>6
<1> QED
  BY <1>3, <1>10, <1>11 DEF d

\* What was planted lies in the section s, below its heading.
PlantedIn(T, U, s, a, b, q) ==
  /\ Planted(T, U, a, b, q)
  /\ s \in ToSet(Parse(T)) /\ s.start <= a /\ b <= s.end
  /\ s.id # 0 => s.start < a

\* The headings of U: those of T, and what is behind section c is d lines on.
Moved(T, U, c, d) ==
  LET h == Heads(T)
      g == Heads(U)
  IN /\ Len(g) = Len(h) /\ Len(h) \in Nat /\ c \in 0 .. Len(h)
     /\ \A j \in 1 .. Len(h) : h[j] \in Nat /\ g[j] = IF j <= c THEN h[j] ELSE h[j] + d

\* The heading of a section and those above are at a or before; the others
\* are behind b.
Parted(T, s, a, b) ==
  LET h == Heads(T) IN
  \A j \in 1 .. Len(h) : /\ h[j] \in 1 .. Len(T)
                         /\ j <= s.id => h[j] <= a
                         /\ s.id < j => b < h[j]

LEMMA PartedIs ==
  ASSUME NEW T \in Notes, NEW s \in ToSet(Parse(T)), NEW a \in Nat, NEW b \in Nat,
         b <= s.end, s.id # 0 => s.start < a
  PROVE  Parted(T, s, a, b)
<1> DEFINE h == Heads(T)
<1>1. /\ Lists(h, HeadSet(T)) /\ h \in Seq(Nat) /\ Len(h) \in Nat
      /\ \A i, j \in 1 .. Len(h) : i < j => h[i] < h[j]
  BY HeadsAre DEF Lists, Notes
<1>2. /\ s.id \in 0 .. Len(h) /\ s = Section(T, h, s.id)
      /\ s.start \in Nat /\ s.end \in Nat
  BY SectionIs DEF Notes
<1>3. /\ s.id # 0 => s.start = h[s.id] - 1
      /\ s.id < Len(h) => s.end = h[s.id + 1] - 1
  BY <1>2 DEF Section, SectionEnd
<1>4. \A j \in 1 .. Len(h) : h[j] \in 1 .. Len(T)
  <2>1. \A j \in 1 .. Len(h) : h[j] \in HeadSet(T)
    BY <1>1 DEF Lists
  <2>2. FmBounds(T) \in Nat /\ Len(T) \in Nat
    BY FmBoundsIs DEF Notes
  <2> QED
    BY <2>1, <2>2 DEF HeadSet
<1>5. Len(T) \in Nat
  BY DEF Notes
<1> HIDE DEF h
<1>6. ASSUME NEW j \in 1 .. Len(h), j <= s.id PROVE h[j] <= a
  <2>1. s.id \in 1 .. Len(h) /\ (j = s.id \/ j < s.id)
    BY <1>1, <1>2, <1>6
  <2>2. h[j] <= h[s.id] /\ h[j] \in Nat /\ h[s.id] \in Nat
    BY <2>1, <1>1, <1>4, <1>5
  <2>3. h[s.id] <= a
    BY <2>1, <2>2, <1>2, <1>3
  <2> QED
    BY <2>2, <2>3
<1>7. ASSUME NEW j \in 1 .. Len(h), s.id < j PROVE b < h[j]
  <2>1. s.id < Len(h) /\ s.id + 1 \in 1 .. Len(h) /\ (j = s.id + 1 \/ s.id + 1 < j)
    BY <1>1, <1>2, <1>7
  <2>2. h[s.id + 1] <= h[j] /\ h[j] \in Nat /\ h[s.id + 1] \in Nat
    BY <2>1, <1>1, <1>4, <1>5, SMTT(30)
  <2>3. b < h[s.id + 1]
    BY <2>1, <2>2, <1>2, <1>3
  <2> QED
    BY <2>2, <2>3
<1> QED
  BY <1>4, <1>6, <1>7 DEF Parted, h

LEMMA MovedIs ==
  ASSUME NEW T \in Notes, NEW U, NEW s, NEW a, NEW b, NEW q,
         PlantedIn(T, U, s, a, b, q)
  PROVE  Moved(T, U, s.id, Len(q) - (b - a))
<1> DEFINE k == Len(q)
           d == Len(q) - (b - a)
           n == Len(T)
           h == Heads(T)
           c == s.id
           g == [j \in 1 .. Len(h) |-> IF j <= c THEN h[j] ELSE h[j] + d]
<1>1. Planted(T, U, a, b, q) /\ s \in ToSet(Parse(T)) /\ b <= s.end
      /\ (s.id # 0 => s.start < a)
  BY DEF PlantedIn
<1>2. /\ U \in Notes /\ k \in Nat /\ d \in Int /\ n \in Nat
      /\ a \in Nat /\ b \in Nat /\ a <= b /\ b <= n /\ a + k = b + d
  <2>1. PlantedAt(T, U, a, b, q, k, d)
    BY <1>1, PlantedIs
  <2> QED
    BY <2>1 DEF PlantedAt
<1>3. Parted(T, s, a, b)
  BY <1>1, <1>2, PartedIs
<1>4. \A j \in 1 .. Len(h) : /\ h[j] \in 1 .. n
                             /\ j <= c => h[j] <= a
                             /\ c < j => b < h[j]
  BY <1>3 DEF Parted
<1>5. /\ \A x \in HeadSet(T) : /\ x <= a => x \in HeadSet(U)
                               /\ x > b => x + d \in HeadSet(U)
      /\ \A x \in HeadSet(U) : \/ x <= a /\ x \in HeadSet(T)
                               \/ \E y \in HeadSet(T) : y > b /\ x = y + d
  BY <1>1, PlantedHeads
<1>6. /\ Len(h) \in Nat
      /\ \A i, j \in 1 .. Len(h) : i < j => h[i] < h[j]
      /\ \A x : x \in HeadSet(T) <=> \E i \in 1 .. Len(h) : h[i] = x
  BY HeadsAre DEF Lists, Notes
<1>7. c \in 0 .. Len(h)
  BY <1>1, SectionIs DEF Notes
<1>8. Lists(Heads(U), HeadSet(U)) /\ HeadSet(U) \subseteq Nat
  <2>1. FmBounds(U) \in Nat /\ Len(U) \in Nat
    BY <1>2, FmBoundsIs DEF Notes
  <2> QED
    BY <2>1, <1>2, HeadsAre DEF HeadSet, Notes
<1> HIDE DEF k, d, n, h, c
<1>9. ASSUME NEW j \in 1 .. Len(h) PROVE g[j] \in HeadSet(U)
  <2>1. h[j] \in HeadSet(T)
    BY <1>6
  <2>2. CASE j <= c
    BY <2>1, <2>2, <1>4, <1>5
  <2>3. CASE ~(j <= c)
    <3>1. h[j] > b
      BY <2>3, <1>2, <1>4, <1>6, <1>7
    <3> QED
      BY <2>1, <2>3, <3>1, <1>5
  <2> QED
    BY <2>2, <2>3
<1>10. g \in Seq(Nat) /\ Len(g) = Len(h)
  <2>1. \A j \in 1 .. Len(h) : g[j] \in Nat
    BY <1>8, <1>9
  <2>2. g \in [1 .. Len(h) -> Nat]
    BY <2>1
  <2> HIDE DEF g
  <2> QED
    BY <2>2, <1>6, IsASeq
<1>11. ASSUME NEW i \in 1 .. Len(h), NEW j \in 1 .. Len(h), i < j
       PROVE  g[i] < g[j]
  <2>1. h[i] < h[j] /\ h[i] \in Nat /\ h[j] \in Nat
    BY <1>2, <1>4, <1>6, <1>11
  <2>2. CASE i <= c /\ ~(j <= c)
    <3>1. h[i] <= a /\ b < h[j]
      BY <2>2, <1>4, <1>6, <1>7
    <3>2. h[i] < h[j] + d
      BY <3>1, <2>1, <1>2
    <3> QED
      BY <3>2, <2>2
  <2>3. CASE i <= c /\ j <= c
    BY <2>1, <2>3
  <2>4. CASE ~(i <= c)
    <3>1. ~(j <= c)
      BY <2>4, <1>6, <1>7, <1>11
    <3>2. h[i] + d < h[j] + d
      BY <2>1, <1>2
    <3> QED
      BY <3>1, <3>2, <2>4
  <2> QED
    BY <2>2, <2>3, <2>4
<1>12. ASSUME NEW x \in HeadSet(U) PROVE \E i \in 1 .. Len(h) : g[i] = x
  <2>1. CASE x <= a /\ x \in HeadSet(T)
    <3>1. PICK i \in 1 .. Len(h) : h[i] = x
      BY <2>1, <1>6
    <3>2. i <= c
      BY <3>1, <2>1, <1>2, <1>4, <1>6, <1>7
    <3> QED
      BY <3>1, <3>2
  <2>2. CASE \E y \in HeadSet(T) : y > b /\ x = y + d
    <3>1. PICK y \in HeadSet(T) : y > b /\ x = y + d
      BY <2>2
    <3>2. PICK i \in 1 .. Len(h) : h[i] = y
      BY <1>6
    <3>3. ~(i <= c)
      BY <3>1, <3>2, <1>2, <1>4
    <3> QED
      BY <3>1, <3>2, <3>3
  <2> QED
    BY <2>1, <2>2, <1>5
<1>13. Lists(g, HeadSet(U))
  <2>1. \A i \in 1 .. Len(h) : g[i] \in HeadSet(U)
    BY <1>9
  <2> HIDE DEF g
  <2> QED
    BY <2>1, <1>10, <1>11, <1>12 DEF Lists
<1>14. Heads(U) = g
  <2> HIDE DEF g
  <2> QED
    BY <1>8, <1>13, ListsOnce
<1>15. \A j \in 1 .. Len(h) : h[j] \in Nat
  BY <1>2, <1>4
<1> QED
  BY <1>6, <1>7, <1>10, <1>14, <1>15 DEF Moved, h, d, c

\* The lines a + 1 .. b by content, and what View shows of section j.
Shown(T, a, b) == IF a = b THEN <<Blank>> ELSE [i \in 1 .. b - a |-> T[a + i].body]
Seen(T, h, j) ==
  LET s == Section(T, h, j) IN
  [level |-> s.level, title |-> s.title, text |-> Shown(T, s.start, s.end)]

LEMMA TextIs ==
  ASSUME NEW T \in Notes, NEW s \in ToSet(Parse(T))
  PROVE  Contents(SecText(T, s)) = Shown(T, s.start, s.end)
<1> DEFINE a == s.start
           b == s.end
           ls == Slice(T, a, b)
<1>1. /\ T \in Seq(LineSet) /\ a \in Nat /\ b \in Nat /\ a <= b /\ b <= Len(T)
      /\ Len(T) \in Nat
  BY SectionIs DEF Notes
<1>2. CASE a = b
  <2>1. ls = <<>>
    BY <1>1, <1>2 DEF Slice
  <2>2. SecText(T, s) = <<NoLine>>
    BY <2>1, <1>1, <1>2 DEF SecText, Join
  <2>3. Contents(<<NoLine>>) = <<Blank>>
    BY DEF Contents, NoLine, Line
  <2> QED
    BY <2>2, <2>3, <1>2 DEF Shown
<1>3. CASE a # b
  <2>1. /\ ls \in Seq(LineSet) /\ Len(ls) = b - a
        /\ \A i \in 1 .. b - a : ls[i] = T[a + i]
    <3>1. /\ SubSeq(T, a + 1, b) \in Seq(LineSet)
          /\ Len(SubSeq(T, a + 1, b)) = b - a
          /\ \A i \in 1 .. b - a : SubSeq(T, a + 1, b)[i] = T[a + i]
      <4> HIDE DEF a, b
      <4> QED
        BY <1>1, SliceIs
    <3>2. ls = SubSeq(T, a + 1, b)
      BY DEF Slice
    <3> HIDE DEF ls
    <3> QED
      BY <3>1, <3>2
  <2>2. ls # <<>> /\ DOMAIN ls = 1 .. b - a
    <3> HIDE DEF ls
    <3> QED
      BY <2>1, <1>1, <1>3, EmptySeq, LenProperties
  <2>3. SecText(T, s) = ls
    BY <2>2 DEF SecText, Join
  <2>4. Contents(ls) = [i \in 1 .. b - a |-> T[a + i].body]
    <3> HIDE DEF ls
    <3> QED
      BY <2>1, <2>2 DEF Contents
  <2> QED
    BY <2>3, <2>4, <1>3 DEF Shown
<1> QED
  BY <1>2, <1>3

LEMMA ViewIs ==
  ASSUME NEW T \in Notes
  PROVE  /\ View(T) = [j \in 1 .. Len(Heads(T)) + 1 |-> Seen(T, Heads(T), j - 1)]
         /\ Len(Heads(T)) \in Nat
<1> DEFINE h == Heads(T)
<1>1. /\ Parse(T) = [j \in 1 .. Len(h) + 1 |-> Section(T, h, j - 1)]
      /\ Len(h) \in Nat /\ Len(Parse(T)) = Len(h) + 1
  BY ParseIs DEF Notes, Lists
<1>2. \A j \in 1 .. Len(h) + 1 : Parse(T)[j] = Section(T, h, j - 1)
                                 /\ Parse(T)[j] \in ToSet(Parse(T))
  BY <1>1 DEF ToSet
<1>3. \A j \in 1 .. Len(h) + 1 :
        Contents(SecText(T, Parse(T)[j])) = Shown(T, Parse(T)[j].start, Parse(T)[j].end)
  BY <1>2, TextIs
<1>4. View(T) = [j \in 1 .. Len(h) + 1 |->
                  [level |-> Parse(T)[j].level, title |-> Parse(T)[j].title,
                   text |-> Contents(SecText(T, Parse(T)[j]))]]
  BY <1>1 DEF View
<1> HIDE DEF h
<1>5. \A j \in 1 .. Len(h) + 1 :
        [level |-> Parse(T)[j].level, title |-> Parse(T)[j].title,
         text |-> Contents(SecText(T, Parse(T)[j]))] = Seen(T, h, j - 1)
  BY <1>2, <1>3 DEF Seen
<1> QED
  BY <1>1, <1>4, <1>5 DEF h

\* U behind x is like T behind a, for n lines.
Alike(T, U, a, x, n) == \A i \in 1 .. n : U[x + i].body = T[a + i].body

\* Every section but the one written to shows what it showed.
LEMMA OthersSeen ==
  ASSUME NEW T \in Notes, NEW U, NEW s, NEW a, NEW b, NEW q,
         PlantedIn(T, U, s, a, b, q),
         NEW j \in 0 .. Len(Heads(T)), j # s.id
  PROVE  Seen(U, Heads(U), j) = Seen(T, Heads(T), j)
<1> DEFINE k == Len(q)
           d == Len(q) - (b - a)
           n == Len(T)
           h == Heads(T)
           g == Heads(U)
           c == s.id
           m == Len(h)
<1>1. Planted(T, U, a, b, q) /\ s \in ToSet(Parse(T)) /\ b <= s.end
      /\ (s.id # 0 => s.start < a)
  BY DEF PlantedIn
<1>2. /\ U \in Notes /\ k \in Nat /\ d \in Int /\ Len(U) = n + d /\ n \in Nat
      /\ a \in Nat /\ b \in Nat /\ a <= b /\ b <= n /\ a + k = b + d
      /\ \A i \in 1 .. a : U[i].body = T[i].body
      /\ \A i \in b + 1 .. n : U[i + d] = T[i]
  <2>1. PlantedAt(T, U, a, b, q, Len(q), Len(q) - (b - a))
    BY <1>1, PlantedIs
  <2> QED
    BY <2>1 DEF PlantedAt
<1>3. Parted(T, s, a, b)
  BY <1>1, <1>2, PartedIs
<1>4. \A i \in 1 .. m : /\ h[i] \in 1 .. n
                        /\ i <= c => h[i] <= a
                        /\ c < i => b < h[i]
  BY <1>3 DEF Parted
<1>5. Moved(T, U, c, d)
  BY MovedIs
<1>6. /\ Len(g) = m /\ m \in Nat /\ c \in 0 .. m
      /\ \A i \in 1 .. m : h[i] \in Nat /\ g[i] = IF i <= c THEN h[i] ELSE h[i] + d
  BY <1>5 DEF Moved
<1>7. \A i, l \in 1 .. m : i < l => h[i] < h[l]
  BY HeadsAre DEF Lists, Notes
<1> DEFINE x == IF j = 0 THEN 0 ELSE h[j] - 1
           y == IF j < m THEN h[j + 1] - 1 ELSE n
           x1 == IF j = 0 THEN 0 ELSE g[j] - 1
           y1 == IF j < m THEN g[j + 1] - 1 ELSE Len(U)
<1>8. Seen(T, h, j) = [level |-> IF j = 0 THEN 0 ELSE T[h[j]].body.level,
                       title |-> IF j = 0 THEN "(preamble)" ELSE T[h[j]].body.title,
                       text |-> Shown(T, x, y)]
  BY DEF Seen, Section, SectionEnd
<1>9. Seen(U, g, j) = [level |-> IF j = 0 THEN 0 ELSE U[g[j]].body.level,
                       title |-> IF j = 0 THEN "(preamble)" ELSE U[g[j]].body.title,
                       text |-> Shown(U, x1, y1)]
  BY <1>6 DEF Seen, Section, SectionEnd
<1> HIDE DEF k, d, n, h, g, c, m
<1>10. x \in Nat /\ y \in Nat
  <2>1. j # 0 => j \in 1 .. m
    BY <1>6 DEF m, h
  <2>2. j < m => j + 1 \in 1 .. m
    BY <1>6 DEF m, h
  <2> QED
    BY <2>1, <2>2, <1>2, <1>4
<1>11. CASE j < c
  <2>1. j < m /\ j + 1 \in 1 .. m /\ j + 1 <= c /\ (j # 0 => j \in 1 .. m /\ j <= c)
    BY <1>6, <1>11 DEF m, h
  <2>2. g[j + 1] = h[j + 1] /\ h[j + 1] <= a /\ h[j + 1] \in Nat
    BY <2>1, <1>4, <1>6
  <2>3. j # 0 => g[j] = h[j] /\ h[j] \in 1 .. a
    BY <2>1, <1>2, <1>4, <1>6
  <2>4. x1 = x /\ y1 = y /\ y <= a
    BY <2>1, <2>2, <2>3, <1>2
  <2>5. j # 0 => U[g[j]].body = T[h[j]].body
    BY <2>3, <1>2
  <2>6. Shown(U, x1, y1) = Shown(T, x, y)
    <3> HIDE DEF x, y, x1, y1
    <3>1. \A i \in 1 .. y - x : x + i \in 1 .. a
      BY <2>4, <1>2, <1>10
    <3>2. Alike(T, U, x, x1, y - x)
      BY <3>1, <2>4, <1>2 DEF Alike
    <3>3. y1 - x1 = y - x /\ (x1 = y1 <=> x = y)
      BY <2>4, <1>10
    <3> QED
      BY <3>2, <3>3 DEF Shown, Alike
  <2> HIDE DEF x, y, x1, y1
  <2> QED
    BY <2>5, <2>6, <1>8, <1>9 DEF g, h
<1>12. CASE c < j
  <2>1. j # 0 /\ j \in 1 .. m /\ ~(j <= c) /\ (j < m => j + 1 \in 1 .. m /\ ~(j + 1 <= c))
    BY <1>6, <1>12 DEF m, h
  <2>2. g[j] = h[j] + d /\ b < h[j] /\ h[j] \in 1 .. n
    BY <2>1, <1>4, <1>6, <1>12
  <2>3. j < m => g[j + 1] = h[j + 1] + d /\ h[j + 1] \in 1 .. n
    BY <2>1, <1>4, <1>6
  <2>4. x1 = x + d /\ y1 = y + d /\ b <= x /\ y <= n
    BY <2>1, <2>2, <2>3, <1>2, SMTT(30)
  <2>5. U[g[j]].body = T[h[j]].body
    <3>1. h[j] \in b + 1 .. n
      BY <2>2, <1>2
    <3> QED
      BY <3>1, <2>2, <1>2
  <2>6. Shown(U, x1, y1) = Shown(T, x, y)
    <3> HIDE DEF x, y, x1, y1
    <3>1. \A i \in 1 .. y - x : x + i \in b + 1 .. n /\ (x + i) + d = x1 + i
      BY <2>4, <1>2, <1>10
    <3>2. Alike(T, U, x, x1, y - x)
      BY <3>1, <1>2 DEF Alike
    <3>3. y1 - x1 = y - x /\ (x1 = y1 <=> x = y)
      BY <2>4, <1>2, <1>10
    <3> QED
      BY <3>2, <3>3 DEF Shown, Alike
  <2> HIDE DEF x, y, x1, y1
  <2> QED
    BY <2>5, <2>6, <1>8, <1>9 DEF g, h
<1>13. j < c \/ c < j
  BY <1>6 DEF c, m, h
<1> QED
  BY <1>11, <1>12, <1>13

\* The section itself shows what is in its place.
LEMMA WrittenSeen ==
  ASSUME NEW T \in Notes, NEW U, NEW s, NEW a, NEW b, NEW q,
         PlantedIn(T, U, s, a, b, q),
         NEW body \in Seq(Bodies), Holding(T, U, s.start, s.end, body)
  PROVE  Seen(U, Heads(U), s.id).text = IF body = <<>> THEN <<Blank>> ELSE body
<1> DEFINE d == Len(q) - (b - a)
           n == Len(T)
           h == Heads(T)
           g == Heads(U)
           c == s.id
           x == s.start
           e == s.end
           l == Len(body)
<1>1. Planted(T, U, a, b, q) /\ s \in ToSet(Parse(T)) /\ b <= s.end
      /\ (s.id # 0 => s.start < a)
  BY DEF PlantedIn
<1>2. /\ U \in Notes /\ d \in Int /\ Len(U) = n + d /\ n \in Nat
      /\ a \in Nat /\ b \in Nat
  <2>1. PlantedAt(T, U, a, b, q, Len(q), Len(q) - (b - a))
    BY <1>1, PlantedIs
  <2> QED
    BY <2>1 DEF PlantedAt
<1>3. Moved(T, U, c, d)
  BY MovedIs
<1>4. /\ Len(g) = Len(h) /\ Len(h) \in Nat /\ c \in 0 .. Len(h)
      /\ \A i \in 1 .. Len(h) : h[i] \in Nat /\ g[i] = IF i <= c THEN h[i] ELSE h[i] + d
  BY <1>3 DEF Moved
<1>5. /\ x \in Nat /\ e \in Nat /\ x <= e /\ e <= n /\ s = Section(T, h, c)
  BY <1>1, SectionIs DEF Notes
<1>6. /\ x = (IF c = 0 THEN 0 ELSE h[c] - 1)
      /\ e = (IF c < Len(h) THEN h[c + 1] - 1 ELSE n)
  BY <1>5 DEF Section, SectionEnd
<1>7. Len(U) = x + l + (n - e) /\ l \in Nat
      /\ \A i \in 1 .. l : U[x + i].body = body[i]
  BY DEF Holding
<1> DEFINE x1 == IF c = 0 THEN 0 ELSE g[c] - 1
           e1 == IF c < Len(h) THEN g[c + 1] - 1 ELSE Len(U)
<1>8. Seen(U, g, c).text = Shown(U, x1, e1)
  BY <1>4 DEF Seen, Section, SectionEnd
<1> HIDE DEF d, n, h, g, c, x, e, l
<1>9. x1 = x
  <2>1. c # 0 => c \in 1 .. Len(h)
    BY <1>4
  <2> QED
    BY <2>1, <1>4, <1>6
<1>10. e1 = e + d
  <2>1. c < Len(h) => c + 1 \in 1 .. Len(h) /\ ~(c + 1 <= c)
    BY <1>4
  <2>2. c < Len(h) => g[c + 1] = h[c + 1] + d /\ h[c + 1] \in Nat
    BY <2>1, <1>4
  <2> QED
    BY <2>2, <1>2, <1>6
<1>11. e1 = x + l
  BY <1>10, <1>2, <1>5, <1>7, SMTT(30)
<1>12. CASE l = 0
  <2>1. body = <<>>
    BY <1>12, EmptySeq DEF l
  <2>2. x1 = e1
    BY <1>9, <1>11, <1>12, <1>5
  <2> QED
    BY <2>1, <2>2, <1>8 DEF Shown, g, c
<1>13. CASE l # 0
  <2>1. body # <<>>
    BY <1>13 DEF l
  <2>2. x1 # e1 /\ e1 - x1 = l
    BY <1>9, <1>11, <1>13, <1>5, <1>7
  <2>3. Shown(U, x1, e1) = [i \in 1 .. l |-> U[x + i].body]
    BY <2>2, <1>9 DEF Shown
  <2>4. body = [i \in 1 .. l |-> body[i]]
    BY SeqIsFunction DEF l
  <2>5. Shown(U, x1, e1) = body
    BY <2>3, <2>4, <1>7
  <2> QED
    BY <2>1, <2>5, <1>8 DEF g, c
<1> QED
  BY <1>12, <1>13

\* View of U is that of T but for the section written to.
LEMMA ViewKept ==
  ASSUME NEW T \in Notes, NEW U, NEW s, NEW a, NEW b, NEW q,
         PlantedIn(T, U, s, a, b, q)
  PROVE  /\ [View(U) EXCEPT ![s.id + 1] = 0] = [View(T) EXCEPT ![s.id + 1] = 0]
         /\ View(U)[s.id + 1] = Seen(U, Heads(U), s.id)
<1> DEFINE h == Heads(T)
           g == Heads(U)
           c == s.id
<1>1. Moved(T, U, c, Len(q) - (b - a))
  BY MovedIs
<1>2. Len(g) = Len(h) /\ Len(h) \in Nat /\ c \in 0 .. Len(h)
  BY <1>1 DEF Moved
<1>3. U \in Notes
  BY PlantedIs DEF PlantedIn, PlantedAt
<1>4. /\ View(T) = [j \in 1 .. Len(h) + 1 |-> Seen(T, h, j - 1)]
      /\ View(U) = [j \in 1 .. Len(h) + 1 |-> Seen(U, g, j - 1)]
  BY <1>2, <1>3, ViewIs
<1>5. \A j \in 0 .. Len(h) : j # c => Seen(U, g, j) = Seen(T, h, j)
  BY OthersSeen
<1> HIDE DEF h, g, c
<1>6. ASSUME NEW j \in 1 .. Len(h) + 1, j # c + 1
      PROVE  Seen(U, g, j - 1) = Seen(T, h, j - 1)
  <2>1. j - 1 \in 0 .. Len(h) /\ j - 1 # c
    BY <1>2, <1>6
  <2> QED
    BY <2>1, <1>5
<1>7. [View(U) EXCEPT ![c + 1] = 0] = [View(T) EXCEPT ![c + 1] = 0]
  BY <1>4, <1>6
<1>8. View(U)[c + 1] = Seen(U, g, c)
  <2>1. c + 1 \in 1 .. Len(h) + 1 /\ (c + 1) - 1 = c
    BY <1>2
  <2> QED
    BY <2>1, <1>4
<1> QED
  BY <1>7, <1>8 DEF g, c

\* q is plain text, below the heading x unless it is for the preamble.
Under(c, x, q) ==
  /\ q \in Seq(Bodies)
  /\ c # 0 => Len(q) >= 1 /\ q[1] = x
  /\ \A i \in 1 .. Len(q) : c = 0 \/ i > 1 => q[i].kind \in {"word", "blank"}

LEMMA UnderHeading ==
  ASSUME NEW c, NEW x \in Bodies, NEW p \in Seq(Bodies), p # <<>>, Plain(p)
  PROVE  LET q == (IF c = 0 THEN <<>> ELSE <<x>>) \o p IN
         Under(c, x, q) /\ q # <<>> /\ (c # 0 => Len(q) >= 2)
<1>1. /\ Len(p) \in Nat \ {0} /\ DOMAIN p = 1 .. Len(p)
      /\ \A i \in 1 .. Len(p) : p[i].kind \in {"word", "blank"}
  BY EmptySeq, LenProperties DEF Plain
<1>2. CASE c = 0
  <2>1. <<>> \o p = p
    OBVIOUS
  <2> QED
    BY <2>1, <1>1, <1>2 DEF Under
<1>3. CASE c # 0
  <2> DEFINE q == <<x>> \o p
  <2>1. /\ q \in Seq(Bodies) /\ Len(q) = Len(p) + 1 /\ q[1] = x
        /\ \A i \in 2 .. Len(p) + 1 : q[i] = p[i - 1]
    <3>1. <<x>> \in Seq(Bodies) /\ Len(<<x>>) = 1 /\ <<x>>[1] = x
      OBVIOUS
    <3>2. /\ q \in Seq(Bodies) /\ Len(q) = Len(<<x>>) + Len(p)
          /\ \A i \in 1 .. Len(<<x>>) + Len(p) :
               q[i] = IF i <= Len(<<x>>) THEN <<x>>[i] ELSE p[i - Len(<<x>>)]
      BY <3>1, ConcatProperties
    <3> HIDE DEF q
    <3> QED
      BY <3>1, <3>2, <1>1
  <2> HIDE DEF q
  <2>2. \A i \in 2 .. Len(p) + 1 : q[i].kind \in {"word", "blank"}
    <3> TAKE i \in 2 .. Len(p) + 1
    <3>1. i - 1 \in 1 .. Len(p)
      BY <1>1
    <3> QED
      BY <3>1, <2>1, <1>1
  <2>3. Under(c, x, q) /\ Len(q) >= 2
    BY <2>1, <2>2, <1>1, <1>3 DEF Under
  <2>4. q # <<>>
    BY <2>3
  <2> QED
    BY <2>3, <2>4, <1>3 DEF q
<1> QED
  BY <1>2, <1>3

LEMMA UnderMoreOrLess ==
  ASSUME NEW c, NEW x, NEW q, Under(c, x, q)
  PROVE  /\ Under(c, x, Append(q, Blank))
         /\ q # <<>> /\ (c # 0 => Len(q) >= 2) => Under(c, x, Front(q))
<1>1. /\ q \in Seq(Bodies) /\ Len(q) \in Nat
      /\ c # 0 => Len(q) >= 1 /\ q[1] = x
      /\ \A i \in 1 .. Len(q) : c = 0 \/ i > 1 => q[i].kind \in {"word", "blank"}
  BY DEF Under
<1>2. Under(c, x, Append(q, Blank))
  <2> DEFINE r == Append(q, Blank)
  <2>1. /\ r \in Seq(Bodies) /\ Len(r) = Len(q) + 1 /\ r[Len(q) + 1] = Blank
        /\ \A i \in 1 .. Len(q) : r[i] = q[i]
    BY <1>1, BlankIsABody
  <2>2. Blank.kind = "blank"
    BY DEF Blank
  <2> HIDE DEF r
  <2>3. \A i \in 1 .. Len(r) : c = 0 \/ i > 1 => r[i].kind \in {"word", "blank"}
    <3> TAKE i \in 1 .. Len(r)
    <3>1. i = Len(q) + 1 \/ i \in 1 .. Len(q)
      BY <2>1, <1>1
    <3> QED
      BY <3>1, <2>1, <2>2, <1>1
  <2>4. c # 0 => r[1] = x /\ Len(r) >= 1
    <3>1. c # 0 => 1 \in 1 .. Len(q)
      BY <1>1
    <3> QED
      BY <3>1, <2>1, <1>1
  <2>5. Under(c, x, r)
    BY <2>1, <2>3, <2>4 DEF Under
  <2> QED
    BY <2>5 DEF r
<1>3. ASSUME q # <<>>, c # 0 => Len(q) >= 2
      PROVE  Under(c, x, Front(q))
  <2>1. /\ Front(q) \in Seq(Bodies) /\ Len(Front(q)) = Len(q) - 1
        /\ \A i \in 1 .. Len(q) - 1 : Front(q)[i] = q[i]
    BY <1>1, <1>3, LastAndFront
  <2> DEFINE r == Front(q)
  <2> HIDE DEF r
  <2>2. \A i \in 1 .. Len(r) : c = 0 \/ i > 1 => r[i].kind \in {"word", "blank"}
    BY <2>1, <1>1 DEF r
  <2>3. c # 0 => r[1] = x /\ Len(r) >= 1
    BY <2>1, <1>1, <1>3 DEF r
  <2>4. r \in Seq(Bodies)
    BY <2>1 DEF r
  <2>5. Under(c, x, r)
    BY <2>2, <2>3, <2>4 DEF Under
  <2> QED
    BY <2>5 DEF r
<1> QED
  BY <1>2, <1>3

\* A heading is no blank line, so what is under it goes on when its last line
\* is one.
LEMMA UnderBlank ==
  ASSUME NEW c, NEW x, x.kind = "heading", NEW q, Under(c, x, q),
         q # <<>>, Last(q) = Blank
  PROVE  c # 0 => Len(q) >= 2
<1>1. q \in Seq(Bodies) /\ Len(q) \in Nat /\ (c # 0 => q[1] = x /\ Len(q) >= 1)
  BY DEF Under
<1>2. Blank.kind = "blank"
  BY DEF Blank
<1>3. x # Blank
  BY <1>2
<1>4. Last(q) = q[Len(q)]
  BY DEF Last
<1>5. c # 0 => Len(q) # 1
  BY <1>1, <1>3, <1>4
<1> DEFINE l == Len(q)
<1>6. l \in Nat /\ (c # 0 => l >= 1 /\ l # 1)
  BY <1>1, <1>5
<1> HIDE DEF l
<1>7. c # 0 => l >= 2
  BY <1>6
<1> QED
  BY <1>7 DEF l

\* What patch is given and what it writes.
LEMMA PutIsUnder ==
  ASSUME NEW s, NEW x, NEW q, Under(s.id, x, q), q # <<>>,
         s.id # 0 => Len(q) >= 2 /\ s.start # s.end
  PROVE  Under(s.id, x, PatchBody(s, q))
<1> DEFINE r == IF Len(q) > 1 /\ Last(q) = Blank THEN Front(q) ELSE q
<1>1. Under(s.id, x, r)
  <2>1. Under(s.id, x, Front(q))
    BY UnderMoreOrLess
  <2> QED
    BY <2>1
<1>2. PatchBody(s, q) = IF r = <<Blank>> /\ s.end = s.start THEN <<>> ELSE r
  BY DEF PatchBody
<1> HIDE DEF r
<1>3. CASE r = <<Blank>> /\ s.end = s.start
  <2>1. s.id = 0
    BY <1>3
  <2>2. <<>> \in Seq(Bodies) /\ Len(<<>>) = 0
    OBVIOUS
  <2>3. \A i \in 1 .. Len(<<>>) : FALSE
    OBVIOUS
  <2>4. Under(s.id, x, <<>>)
    BY <2>1, <2>2, <2>3 DEF Under
  <2> QED
    BY <2>4, <1>2, <1>3
<1>4. CASE ~(r = <<Blank>> /\ s.end = s.start)
  BY <1>1, <1>2, <1>4
<1> QED
  BY <1>3, <1>4

LEMMA WrittenIsUnder ==
  ASSUME NEW T \in Notes, NEW b, NEW c, NEW x, c # 0 => x.kind = "heading",
         NEW q, Under(c, x, q)
  PROVE  /\ Under(c, x, Written(T, b, q))
         /\ \/ Written(T, b, q) \in {q, Append(q, Blank)}
            \/ q = Append(Written(T, b, q), Blank)
<1>1. q \in Seq(Bodies) /\ T \in Seq(LineSet)
  BY DEF Under, Notes
<1>2. \/ Written(T, b, q) = q
      \/ Written(T, b, q) = Append(q, Blank)
      \/ q # <<>> /\ Last(q) = Blank /\ Written(T, b, q) = Front(q)
  <2>1. \/ EndAs(T, q) = q
        \/ EndAs(T, q) = Append(q, Blank)
        \/ q # <<>> /\ Last(q) = Blank /\ EndAs(T, q) = Front(q)
    BY <1>1, EndAsIs
  <2>2. Written(T, b, q) = EndAs(T, q) \/ Written(T, b, q) = q
    BY DEF Written
  <2> QED
    BY <2>1, <2>2
<1>3. CASE Written(T, b, q) = q
  BY <1>3
<1>4. CASE Written(T, b, q) = Append(q, Blank)
  <2>1. Under(c, x, Append(q, Blank))
    BY UnderMoreOrLess
  <2> QED
    BY <1>4, <2>1
<1>5. CASE q # <<>> /\ Last(q) = Blank /\ Written(T, b, q) = Front(q)
  <2>1. c # 0 => Len(q) >= 2
    <3>1. CASE c # 0
      <4>1. x.kind = "heading"
        BY <3>1
      <4> QED
        BY <4>1, <1>5, UnderBlank
    <3> QED
      BY <3>1
  <2>2. Under(c, x, Front(q))
    BY <2>1, <1>5, UnderMoreOrLess
  <2>3. q = Append(Front(q), Blank)
    <3> DEFINE r == Front(q)
    <3>1. /\ Len(q) \in Nat \ {0} /\ q[Len(q)] = Blank
          /\ r \in Seq(Bodies) /\ Len(r) = Len(q) - 1
          /\ \A i \in 1 .. Len(q) - 1 : r[i] = q[i]
      BY <1>1, <1>5, LastAndFront
    <3> HIDE DEF r
    <3>2. /\ Append(r, Blank) \in Seq(Bodies) /\ Len(Append(r, Blank)) = Len(q)
          /\ Append(r, Blank)[Len(q)] = Blank
          /\ \A i \in 1 .. Len(q) - 1 : Append(r, Blank)[i] = r[i]
      BY <3>1, BlankIsABody
    <3>3. \A i \in 1 .. Len(q) : q[i] = Append(r, Blank)[i]
      BY <3>1, <3>2
    <3>4. q = Append(r, Blank)
      BY <1>1, <3>2, <3>3, SameLines
    <3> QED
      BY <3>4 DEF r
  <2> QED
    BY <2>2, <2>3, <1>5
<1> QED
  BY <1>2, <1>3, <1>4, <1>5

\* Behind the heading of a section no fence is open.
LEMMA HeadOf ==
  ASSUME NEW T \in Notes, NEW s \in ToSet(Parse(T)), s.id # 0
  PROVE  /\ s.start + 1 \in HeadSet(T) /\ T[s.start + 1].body.kind = "heading"
         /\ T[s.start + 1].bom = FALSE
         /\ OpenFence(T, FmBounds(T))[s.start + 1] = NoMarker
<1> DEFINE f == FmBounds(T)
           h == Heads(T)
           F == OpenFence(T, f)
           a == s.start + 1
<1>1. /\ s.start \in Nat /\ s.start < Len(T) /\ f <= s.start /\ Len(T) \in Nat
      /\ IsKind(T[a], "heading") /\ s.id \in 0 .. Len(h) /\ s = Section(T, h, s.id)
  BY SectionIs DEF Notes
<1>2. f \in 0 .. Len(T) /\ f \in Nat
  BY FmBoundsIs DEF Notes
<1>3. /\ Len(h) \in Nat /\ \A i \in 1 .. Len(h) : h[i] \in HeadSet(T) /\ h[i] \in Nat
  BY HeadsAre DEF Lists, Notes
<1>4. h[s.id] = a
  <2>1. s.start = h[s.id] - 1
    BY <1>1 DEF Section
  <2>2. s.id \in 1 .. Len(h)
    BY <1>1, <1>3
  <2>3. h[s.id] \in Nat
    BY <2>2, <1>3
  <2> QED
    BY <2>1, <2>3
<1>5. a \in HeadSet(T)
  <2>1. s.id \in 1 .. Len(h)
    BY <1>1, <1>3
  <2> QED
    BY <2>1, <1>3, <1>4
<1>6. F[a - 1] = NoMarker
  BY <1>5 DEF HeadSet
<1>7. F[a] = Fenced(T[a], F[a - 1])
  <2>1. a \in f + 1 .. Len(T)
    BY <1>1, <1>2
  <2> QED
    BY <2>1, <1>2, OpenFenceIs DEF Notes
<1>8. ~Opens(T[a])
  BY <1>1 DEF Opens, IsKind
<1>9. F[a] = NoMarker
  BY <1>6, <1>7, <1>8 DEF Fenced
<1>10. T[a].body.kind = "heading" /\ T[a].bom = FALSE
  <2>1. a \in 1 .. Len(T)
    BY <1>1
  <2>2. T[a].bom \in BOOLEAN
    BY <2>1, TextLines DEF Notes
  <2> QED
    BY <2>2, <1>1 DEF IsKind
<1> QED
  BY <1>5, <1>9, <1>10

\* A text as it lies under the heading of a section is planted there.
LEMMA UnderIsPlanted ==
  ASSUME NEW T \in Notes, NEW s \in ToSet(Parse(T)), NEW U, NEW q,
         Holding(T, U, s.start, s.end, q), Under(s.id, T[s.start + 1].body, q)
  PROVE  \E a, r : PlantedIn(T, U, s, a, s.end, r)
<1> DEFINE f == FmBounds(T)
           F == OpenFence(T, f)
           n == Len(T)
           b == s.end
           a == IF s.id = 0 THEN 0 ELSE s.start + 1
           r == IF s.id = 0 THEN q ELSE Tail(q)
<1>1. /\ s.start \in Nat /\ b \in Nat /\ s.start <= b /\ b <= n /\ n \in Nat
      /\ s.id = 0 => s.start = 0 /\ f <= b
      /\ s.id # 0 => f <= s.start /\ s.start < b
      /\ f \in Nat /\ s.id \in Nat
  BY SectionIs, FmBoundsIs, HeadsAre DEF Notes, Lists
<1>2. a \in Nat /\ a <= b /\ f <= b /\ (a > 0 => f <= a) /\ (s.id # 0 => s.start < a)
      /\ s.start <= a /\ (a = 0 <=> s.id = 0)
  BY <1>1
<1>3. /\ q \in Seq(Bodies) /\ Len(q) \in Nat
      /\ s.id # 0 => Len(q) >= 1 /\ q[1] = T[s.start + 1].body
      /\ \A i \in 1 .. Len(q) : s.id = 0 \/ i > 1 => q[i].kind \in {"word", "blank"}
  BY DEF Under
<1>4. /\ U \in Notes /\ Len(U) = s.start + Len(q) + (n - b)
      /\ \A i \in 1 .. s.start : U[i].body = T[i].body /\ U[i].bom = T[i].bom
      /\ \A i \in 1 .. Len(q) : U[s.start + i].body = q[i] /\ U[s.start + i].bom = FALSE
      /\ \A i \in b + 1 .. n : U[i - b + s.start + Len(q)] = T[i]
  BY DEF Holding
<1>5. Unmarked(r) /\ Holding(T, U, a, b, r)
  <2>1. CASE s.id = 0
    <3>1. a = s.start /\ r = q
      BY <2>1, <1>1
    <3>2. Unmarked(q)
      BY <2>1, <1>3 DEF Unmarked
    <3> QED
      BY <3>1, <3>2
  <2>2. CASE s.id # 0
    <3> DEFINE t == Tail(q)
    <3>1. /\ t \in Seq(Bodies) /\ Len(t) = Len(q) - 1
          /\ \A i \in 1 .. Len(q) - 1 : t[i] = q[i + 1]
      <4>1. q # <<>>
        BY <2>2, <1>3
      <4> QED
        BY <4>1, <1>3
    <3>2. T[s.start + 1].bom = FALSE
      BY <2>2, HeadOf
    <3> DEFINE m == s.start
               k == Len(t)
               l == Len(q)
    <3>0. m \in Nat /\ l \in Nat /\ k = l - 1 /\ n \in Nat /\ b \in Nat
      BY <3>1, <1>1, <1>3
    <3> HIDE DEF t, m, k, l
    <3>3. Unmarked(t)
      <4>1. \A i \in 1 .. Len(t) : t[i].kind \in {"word", "blank"}
        <5> TAKE i \in 1 .. Len(t)
        <5>1. i + 1 \in 1 .. Len(q) /\ i + 1 > 1 /\ i \in 1 .. Len(q) - 1
          BY <3>1, <1>3
        <5> QED
          BY <5>1, <3>1, <1>3
      <4> QED
        BY <4>1, <3>1 DEF Unmarked
    <3>4. Holding(T, U, s.start + 1, b, t)
      <4>1. Len(U) = (s.start + 1) + Len(t) + (n - b)
        BY <3>1, <1>1, <1>3, <1>4
      <4>2. ASSUME NEW i \in 1 .. s.start + 1
            PROVE  U[i].body = T[i].body /\ U[i].bom = T[i].bom
        <5>1. CASE i = s.start + 1
          <6>1. 1 \in 1 .. Len(q)
            BY <2>2, <1>3
          <6>2. U[s.start + 1].body = q[1] /\ U[s.start + 1].bom = FALSE
            BY <6>1, <1>4
          <6> QED
            BY <5>1, <6>2, <3>2, <2>2, <1>3
        <5>2. CASE i # s.start + 1
          <6>1. i \in 1 .. s.start
            BY <5>2, <1>1
          <6> QED
            BY <6>1, <1>4
        <5> QED
          BY <5>1, <5>2
      <4>3. ASSUME NEW i \in 1 .. Len(t)
            PROVE  U[s.start + 1 + i].body = t[i] /\ U[s.start + 1 + i].bom = FALSE
        <5>0. i \in 1 .. k
          BY DEF k
        <5>1. i + 1 \in 1 .. l /\ i \in 1 .. l - 1 /\ m + 1 + i = m + (i + 1)
          BY <5>0, <3>0
        <5>2. U[m + (i + 1)].body = q[i + 1] /\ U[m + (i + 1)].bom = FALSE
          BY <5>1, <1>4 DEF m, l
        <5>3. t[i] = q[i + 1]
          BY <5>1, <3>1 DEF l
        <5> QED
          BY <5>1, <5>2, <5>3 DEF m
      <4>4. ASSUME NEW i \in b + 1 .. n
            PROVE  U[i - b + (s.start + 1) + Len(t)] = T[i]
        <5>1. i - b + (m + 1) + k = i - b + m + l
          <6> HIDE DEF b, n
          <6> QED
            BY <3>0
        <5>2. U[i - b + m + l] = T[i]
          BY <1>4 DEF m, l
        <5> QED
          BY <5>1, <5>2 DEF m, k
      <4> QED
        BY <4>1, <4>2, <4>3, <4>4, <1>4 DEF Holding
    <3> QED
      BY <3>3, <3>4, <2>2 DEF t
  <2> QED
    BY <2>1, <2>2
<1>6. ASSUME a = 0, r = <<>> PROVE ~IsRule(T[b + 1])
  <2>1. s.id = 0 /\ Len(q) = 0 /\ s.start = 0
    <3>1. s.id = 0
      BY <1>6, <1>2
    <3> QED
      BY <3>1, <1>6, <1>1
  <2>2. Len(U) \in Nat \ {0}
    BY <1>4, LastLine
  <2>3. b < n
    BY <2>1, <2>2, <1>1, <1>4
  <2>4. IsKind(T[b + 1], "heading")
    BY <2>3, SectionEnds DEF Notes
  <2>5. Rule.kind = "dashes"
    BY RuleIsABody
  <2> QED
    BY <2>4, <2>5 DEF IsRule, IsKind
<1>7. \A x \in HeadSet(T) : x <= a \/ x > b
  <2>1. Parted(T, s, a, b)
    <3>1. b <= s.end
      BY <1>1
    <3> HIDE DEF a, b
    <3> QED
      BY <3>1, <1>1, <1>2, PartedIs
  <2>2. \A x \in HeadSet(T) : \E i \in 1 .. Len(Heads(T)) : Heads(T)[i] = x
    BY HeadsAre DEF Lists, Notes
  <2> HIDE DEF a, b, n
  <2> TAKE x \in HeadSet(T)
  <2>3. PICK i \in 1 .. Len(Heads(T)) : Heads(T)[i] = x
    BY <2>2
  <2>4. Len(Heads(T)) \in Nat
    BY HeadsAre DEF Lists, Notes
  <2>5. i <= s.id \/ s.id < i
    BY <2>4, <1>1
  <2>6. x \in 1 .. n /\ (i <= s.id => x <= a) /\ (s.id < i => b < x)
    BY <2>1, <2>3 DEF Parted, n
  <2> QED
    BY <2>5, <2>6, <1>1, <1>2
<1>8. ASSUME b < n PROVE F[b] = IF a = 0 THEN NoMarker ELSE F[a]
  <2>1. b + 1 \in HeadSet(T)
    BY <1>8, SectionEnds DEF Notes
  <2>2. F[(b + 1) - 1] = NoMarker
    BY <2>1 DEF HeadSet
  <2>3. F[b] = NoMarker
    <3>1. (b + 1) - 1 = b
      BY <1>1
    <3> QED
      BY <3>1, <2>2
  <2>4. a # 0 => F[a] = NoMarker
    BY <1>2, HeadOf
  <2> QED
    BY <2>3, <2>4
<1> HIDE DEF a, r
<1>9. Planted(T, U, a, b, r)
  BY <1>1, <1>2, <1>5, <1>6, <1>7, <1>8 DEF Planted
<1>10. PlantedIn(T, U, s, a, s.end, r)
  BY <1>1, <1>2, <1>9 DEF PlantedIn
<1> QED
  BY <1>10

\* What patch does, by content: also when nothing is left of the note.
LEMMA PatchedHolds ==
  ASSUME NEW T \in Notes, NEW s \in ToSet(Parse(T)), NEW p \in Seq(Bodies), p # <<>>
  PROVE  LET U == Patched(T, s, p)
             w == Written(T, s.end, PatchBody(s, p))
         IN \/ Holding(T, U, s.start, s.end, w)
            \/ w = <<>> /\ Holding(T, U, s.start, s.end, <<Blank>>)
<1> DEFINE U == Patched(T, s, p)
           w == Written(T, s.end, PatchBody(s, p))
<1>1. /\ Replaced(T, U, s.start, s.end, w)
      /\ s.start \in Nat /\ s.end \in Nat /\ s.start <= s.end /\ s.end <= Len(T)
  BY PatchedIs
<1> HIDE DEF U, w
<1>2. \/ Holding(T, U, s.start, s.end, w)
      \/ s.start = 0 /\ s.end = Len(T) /\ w = <<>> /\ U = <<NoLine>>
  BY <1>1, ReplacedHolds
<1>3. ASSUME s.start = 0, s.end = Len(T), U = <<NoLine>>
      PROVE  Holding(T, U, s.start, s.end, <<Blank>>)
  <2>1. /\ <<NoLine>> \in Notes /\ Len(<<NoLine>>) = 1 /\ <<NoLine>>[1] = NoLine
        /\ Len(<<Blank>>) = 1 /\ <<Blank>>[1] = Blank
    BY BlankIsABody DEF Notes
  <2>2. NoLine.body = Blank /\ NoLine.bom = FALSE
    BY DEF NoLine, Line
  <2>3. Len(T) \in Nat
    BY DEF Notes
  <2>4. \A i \in 1 .. 0 : FALSE
    OBVIOUS
  <2>5. \A i \in Len(T) + 1 .. Len(T) : FALSE
    BY <2>3
  <2>6. \A i \in 1 .. 1 : i = 1
    OBVIOUS
  <2> QED
    BY <2>1, <2>2, <2>3, <2>4, <2>5, <2>6, <1>3 DEF Holding
<1> QED
  BY <1>2, <1>3 DEF U, w

\* What patch writes is read back, and the other sections stay.
LEMMA PatchReads ==
  ASSUME NEW T \in Notes, NEW s \in ToSet(Parse(T)), NEW p \in Seq(Bodies), p # <<>>,
         Plain(p)
  PROVE  LET body == (IF s.id = 0 THEN <<>> ELSE <<T[s.start + 1].body>>) \o p
             put  == PatchBody(s, body)
             text == View(Patched(T, s, body))
         IN /\ [text EXCEPT ![s.id + 1] = 0] = [View(T) EXCEPT ![s.id + 1] = 0]
            /\ \/ text[s.id + 1].text \in {put, Append(put, Blank)}
               \/ put = Append(text[s.id + 1].text, Blank)
<1> DEFINE x    == T[s.start + 1].body
           c    == s.id
           body == (IF c = 0 THEN <<>> ELSE <<x>>) \o p
           put  == PatchBody(s, body)
           U    == Patched(T, s, body)
           w    == Written(T, s.end, put)
           text == View(U)[c + 1].text
<1>1. /\ s.start \in Nat /\ s.start < Len(T) /\ Len(T) \in Nat
      /\ s.id # 0 => s.start < s.end /\ s.end \in Nat
  BY SectionIs DEF Notes
<1>2. x \in Bodies
  <2>1. s.start + 1 \in 1 .. Len(T)
    BY <1>1
  <2> QED
    BY <2>1, TextLines DEF Notes
<1>3. c # 0 => x.kind = "heading"
  BY HeadOf
<1> HIDE DEF x
<1>4. Under(c, x, body) /\ body # <<>> /\ (c # 0 => Len(body) >= 2)
  BY <1>2, UnderHeading
<1>5. body \in Seq(Bodies)
  BY <1>4 DEF Under
<1> HIDE DEF body
<1>6. Under(c, x, put)
  <2>1. s.id # 0 => Len(body) >= 2 /\ s.start # s.end
    BY <1>1, <1>4
  <2> QED
    BY <2>1, <1>4, PutIsUnder
<1> HIDE DEF put
<1>7. Under(c, x, w) /\ (w \in {put, Append(put, Blank)} \/ put = Append(w, Blank))
  BY <1>3, <1>6, WrittenIsUnder
<1>8. \/ Holding(T, U, s.start, s.end, w)
      \/ w = <<>> /\ Holding(T, U, s.start, s.end, <<Blank>>)
  BY <1>4, <1>5, PatchedHolds DEF put
<1> HIDE DEF U, w
<1> DEFINE Yields(q) == /\ [View(U) EXCEPT ![c + 1] = 0] = [View(T) EXCEPT ![c + 1] = 0]
                        /\ text = IF q = <<>> THEN <<Blank>> ELSE q
<1>9. ASSUME NEW q, Under(c, x, q), Holding(T, U, s.start, s.end, q)
      PROVE  Yields(q)
  <2>1. PICK a, r : PlantedIn(T, U, s, a, s.end, r)
    BY <1>9, UnderIsPlanted DEF x
  <2>2. q \in Seq(Bodies)
    BY <1>9 DEF Under
  <2>3. Seen(U, Heads(U), s.id).text = IF q = <<>> THEN <<Blank>> ELSE q
    BY <2>1, <2>2, <1>9, WrittenSeen
  <2>4. /\ [View(U) EXCEPT ![s.id + 1] = 0] = [View(T) EXCEPT ![s.id + 1] = 0]
        /\ View(U)[s.id + 1] = Seen(U, Heads(U), s.id)
    BY <2>1, ViewKept
  <2> QED
    BY <2>3, <2>4
<1>10. <<Blank>> # <<>> /\ Append(<<>>, Blank) = <<Blank>>
  OBVIOUS
<1>11. Under(c, x, <<Blank>>) \/ w # <<>>
  <2>1. ASSUME w = <<>> PROVE Under(c, x, <<Blank>>)
    <3>1. Under(c, x, Append(<<>>, Blank))
      BY <2>1, <1>7, UnderMoreOrLess
    <3> QED
      BY <3>1, <1>10
  <2> QED
    BY <2>1
<1>12. /\ [View(U) EXCEPT ![c + 1] = 0] = [View(T) EXCEPT ![c + 1] = 0]
       /\ text = IF w = <<>> THEN <<Blank>> ELSE w
  <2>1. CASE Holding(T, U, s.start, s.end, w)
    BY <2>1, <1>7, <1>9
  <2>2. CASE w = <<>> /\ Holding(T, U, s.start, s.end, <<Blank>>)
    <3>1. Yields(<<Blank>>)
      BY <2>2, <1>9, <1>11
    <3> QED
      BY <3>1, <2>2, <1>10
  <2> QED
    BY <2>1, <2>2, <1>8
<1> HIDE DEF text
<1>13. text \in {put, Append(put, Blank)} \/ put = Append(text, Blank)
  <2>1. CASE w = <<>>
    <3>1. text = <<Blank>>
      BY <2>1, <1>12
    <3>2. CASE put = w
      BY <3>1, <3>2, <2>1, <1>10
    <3>3. CASE w = Append(put, Blank)
      <4>1. put \in Seq(Bodies)
        BY <1>6 DEF Under
      <4>2. Append(put, Blank) # <<>>
        BY <4>1, BlankIsABody, AppendProperties
      <4> QED
        BY <3>3, <4>2, <2>1
    <3>4. CASE put = Append(w, Blank)
      BY <3>1, <3>4, <2>1, <1>10
    <3> QED
      BY <3>2, <3>3, <3>4, <1>7
  <2>2. CASE w # <<>>
    <3>1. text = w
      BY <2>2, <1>12
    <3> QED
      BY <3>1, <1>7
  <2> QED
    BY <2>1, <2>2
<1> QED
  BY <1>12, <1>13 DEF text, U, put, body, c, x

\* Text goes below the frontmatter and below the heading of its section.
LEMMA InsertedBelow ==
  ASSUME NEW T \in Notes, NEW s \in ToSet(Parse(T))
  PROVE  LET at == InsertionPoint(T, s.start, s.end) IN
         /\ at \in s.start .. s.end /\ FmBounds(T) <= at
         /\ s.id # 0 => s.start < at
<1> DEFINE f  == FmBounds(T)
           at == InsertionPoint(T, s.start, s.end)
<1>1. /\ s.start \in Nat /\ s.end \in Nat /\ s.start <= s.end /\ s.end <= Len(T)
      /\ s.id = 0 => s.start = 0 /\ f <= s.end
      /\ s.id # 0 => f <= s.start /\ s.start < s.end /\ IsKind(T[s.start + 1], "heading")
  BY SectionIs DEF Notes
<1>2. at \in s.start .. s.end /\ \A j \in at + 1 .. s.end : IsBlank(T[j])
  BY <1>1, InsertionPointIs
<1>3. f \in Nat /\ (f > 0 => IsRule(T[f]))
  BY FmBoundsIs DEF Notes
<1> HIDE DEF f, at
<1>4. Rule.kind = "dashes"
  BY RuleIsABody
<1>5. ASSUME s.id # 0 PROVE s.start < at
  <2>1. ~IsBlank(T[s.start + 1])
    BY <1>1, <1>5 DEF IsBlank, IsKind
  <2>2. at = s.start => s.start + 1 \in at + 1 .. s.end
    BY <1>1, <1>5
  <2> QED
    BY <2>1, <2>2, <1>1, <1>2
<1>6. f <= at
  <2>1. CASE s.id = 0 /\ f > at
    <3>1. f \in at + 1 .. s.end /\ f > 0
      BY <2>1, <1>1, <1>2, <1>3
    <3>2. IsBlank(T[f]) /\ IsRule(T[f])
      BY <3>1, <1>2, <1>3
    <3> QED
      BY <3>2, <1>4 DEF IsBlank, IsKind, IsRule
  <2>2. CASE s.id # 0
    BY <2>2, <1>1, <1>2, <1>3
  <2>3. f > at \/ f <= at
    BY <1>1, <1>2, <1>3
  <2> QED
    BY <2>1, <2>2, <2>3
<1> QED
  BY <1>2, <1>5, <1>6 DEF f, at

\* What appendsec does leaves every other section as it is.
LEMMA AppendReads ==
  ASSUME NEW T \in Notes, NEW s \in ToSet(Parse(T)), NEW p \in Seq(Bodies), p # <<>>,
         Plain(p)
  PROVE  [View(Appended(T, s, p, s.end)) EXCEPT ![s.id + 1] = 0] =
           [View(T) EXCEPT ![s.id + 1] = 0]
<1> DEFINE at == InsertionPoint(T, s.start, s.end)
           U  == Appended(T, s, p, s.end)
           w  == Written(T, at, p)
<1>1. /\ at \in s.start .. s.end /\ FmBounds(T) <= at /\ (s.id # 0 => s.start < at)
      /\ s.start \in Nat /\ s.end \in Nat /\ s.end <= Len(T) /\ Len(T) \in Nat \ {0}
  BY InsertedBelow, SectionIs, LastLine DEF Notes
<1>2. U = Splice(T, at, at, p)
  BY DEF Appended
<1> HIDE DEF at
<1>3. at \in Nat /\ at <= at /\ at <= Len(T) /\ s.start <= at /\ at <= s.end
  BY <1>1
<1>4. Replaced(T, U, at, at, w)
  BY <1>2, <1>3, ReplacedIs
<1>5. at = 0 => w = p
  BY <1>1 DEF Written
<1>6. Unmarked(w)
  <2>1. DOMAIN p = 1 .. Len(p)
    BY LenProperties
  <2>2. Under(0, Blank, p)
    BY <2>1 DEF Under, Plain
  <2>3. Under(0, Blank, w)
    BY <2>2, WrittenIsUnder
  <2> HIDE DEF w
  <2> QED
    BY <2>3 DEF Under, Unmarked
<1> HIDE DEF U, w
<1>7. Holding(T, U, at, at, w)
  <2>1. ~(at = 0 /\ at = Len(T))
    BY <1>1
  <2> QED
    BY <2>1, <1>3, <1>4, ReplacedHolds
<1>8. \A x \in HeadSet(T) : x <= at \/ x > at
  <2>1. HeadSet(T) \subseteq Nat
    <3>1. FmBounds(T) \in Nat
      BY FmBoundsIs DEF Notes
    <3> QED
      BY <3>1, <1>1 DEF HeadSet
  <2> QED
    BY <2>1, <1>3
<1>9. at = 0 => OpenFence(T, FmBounds(T))[at] = NoMarker
  <2> SUFFICES ASSUME at = 0 PROVE OpenFence(T, FmBounds(T))[at] = NoMarker
    OBVIOUS
  <2>1. FmBounds(T) \in 0 .. Len(T)
    BY FmBoundsIs DEF Notes
  <2>2. FmBounds(T) = at
    BY <2>1, <1>1
  <2>3. OpenFence(T, FmBounds(T))[FmBounds(T)] = NoMarker
    BY <2>1, <1>1, OpenFenceIs DEF Notes
  <2> QED
    BY <2>2, <2>3
<1>10. Planted(T, U, at, at, w)
  BY <1>1, <1>3, <1>5, <1>6, <1>7, <1>8, <1>9 DEF Planted
<1>11. PlantedIn(T, U, s, at, at, w)
  BY <1>1, <1>3, <1>10 DEF PlantedIn
<1>12. /\ [View(U) EXCEPT ![s.id + 1] = 0] = [View(T) EXCEPT ![s.id + 1] = 0]
       /\ View(U)[s.id + 1] = Seen(U, Heads(U), s.id)
  BY <1>11, ViewKept
<1> QED
  BY <1>12 DEF U

\* What is written to a section, by patch or appendsec, is read back from it,
\* and every other section keeps its id, its title and its text.
THEOREM WriteThenReadHolds == Spec => []WriteThenRead
<1>1. NoteIsText => WriteThenRead
  <2> SUFFICES ASSUME NoteIsText, Exists, NEW s \in ToSet(Parse(note)),
                      NEW p \in Payloads, Plain(p)
      PROVE  LET body == (IF s.id = 0 THEN <<>> ELSE <<note[s.start + 1].body>>) \o p
                 put  == PatchBody(s, body)
                 text == View(Patched(note, s, body))
                 more == View(Appended(note, s, p, s.end))
             IN /\ [text EXCEPT ![s.id + 1] = 0] = [View(note) EXCEPT ![s.id + 1] = 0]
                /\ \/ text[s.id + 1].text \in {put, Append(put, Blank)}
                   \/ put = Append(text[s.id + 1].text, Blank)
                /\ [more EXCEPT ![s.id + 1] = 0] = [View(note) EXCEPT ![s.id + 1] = 0]
    BY DEF WriteThenRead
  <2>1. note \in Notes
    BY ExistsIsNote
  <2>2. p \in Seq(Bodies) /\ p # <<>>
    BY NotesAssumption
  <2> QED
    BY <2>1, <2>2, PatchReads, AppendReads
<1> QED
  BY <1>1, TypeHolds, PTL

----------------------------------------------------------------------------
(* What YAML reads of it.                                                  *)

LEMMA BareIs ==
  ASSUME NEW e
  PROVE  /\ Bare(e, 1)
         /\ \A i \in Nat \ {0} : Bare(e, i + 1) <=> e[i] # "bs" \/ ~Bare(e, i)
<1> DEFINE S(i) == {j \in 0 .. i - 1 : j = 0 \/ e[j] # "bs"}
<1>1. ASSUME NEW i \in Nat \ {0}
      PROVE  /\ Max(S(i)) \in S(i) /\ \A x \in S(i) : x <= Max(S(i))
             /\ Bare(e, i) <=> (i - 1 - Max(S(i))) % 2 = 0
  <2>1. S(i) \in SUBSET Nat /\ 0 \in S(i) /\ \A x \in S(i) : x <= i
    OBVIOUS
  <2>2. Bare(e, i) <=> (i - 1 - Max(S(i))) % 2 = 0
    BY DEF Bare
  <2>3. S(i) # {} /\ i \in Nat
    BY <2>1
  <2> HIDE DEF S
  <2> QED
    BY <2>1, <2>2, <2>3, MaxIs
<1>2. Bare(e, 1)
  <2>1. S(1) = {0} /\ 1 \in Nat \ {0}
    OBVIOUS
  <2> HIDE DEF S
  <2>2. Max(S(1)) = 0
    BY <2>1, <1>1
  <2>3. (1 - 1 - 0) % 2 = 0
    OBVIOUS
  <2> QED
    BY <2>1, <2>2, <2>3, <1>1
<1>3. ASSUME NEW i \in Nat \ {0}
      PROVE  Bare(e, i + 1) <=> e[i] # "bs" \/ ~Bare(e, i)
  <2> DEFINE m == Max(S(i))
             k == Max(S(i + 1))
  <2>1. /\ m \in S(i) /\ \A x \in S(i) : x <= m
        /\ Bare(e, i) <=> (i - 1 - m) % 2 = 0
    BY <1>1
  <2>2. i + 1 \in Nat \ {0} /\ (i + 1) - 1 = i
    OBVIOUS
  <2>3. /\ k \in S(i + 1) /\ \A x \in S(i + 1) : x <= k
        /\ Bare(e, i + 1) <=> ((i + 1) - 1 - k) % 2 = 0
    <3> HIDE DEF S
    <3> QED
      BY <2>2, <1>1
  <2> HIDE DEF m, k
  <2>4. m \in 0 .. i - 1 /\ k \in 0 .. i
    BY <2>1, <2>3
  <2>5. CASE e[i] # "bs"
    <3>1. i \in S(i + 1)
      BY <2>5
    <3>2. k = i
      <4>1. i <= k
        BY <2>3, <3>1
      <4> QED
        BY <4>1, <2>4
    <3>3. (i + 1) - 1 - i = 0 /\ 0 % 2 = 0
      OBVIOUS
    <3> QED
      BY <2>3, <2>5, <3>2, <3>3
  <2>6. CASE e[i] = "bs"
    <3>1. S(i + 1) = S(i)
      BY <2>6
    <3>2. k = m
      BY <3>1 DEF k, m
    <3>3. (i - m) % 2 = 0 <=> (i - 1 - m) % 2 # 0
      <4> DEFINE d == i - 1 - m
      <4>1. d \in Nat /\ i - m = d + 1
        BY <2>4
      <4> HIDE DEF d
      <4>2. (d + 1) % 2 = 0 <=> d % 2 # 0
        BY <4>1
      <4> QED
        BY <4>1, <4>2 DEF d
    <3>4. (i + 1) - 1 - k = i - m
      BY <3>2, <2>4
    <3> QED
      BY <2>1, <2>3, <2>6, <3>3, <3>4
  <2> QED
    BY <2>5, <2>6
<1> QED
  BY <1>2, <1>3

\* What stands between the quotes ends where it was made to end.
LEMMA ClosingQuote ==
  ASSUME NEW v \in Seq(Signs), NEW e, NEW p, Layout(v, e, p)
  PROVE  EndOfQuoted(e) = Len(e)
<1> DEFINE n == Len(v)
           free(i) == e[i] = "dq" /\ Bare(e, i)
           G == {i \in 0 .. n : /\ Bare(e, p[i] + 2)
                                /\ \A j \in 2 .. p[i] + 1 : ~free(j)}
<1>1. /\ n \in Nat /\ p \in [0 .. n -> Nat] /\ p[0] = 0
      /\ e \in Seq(Signs) /\ Len(e) = p[n] + 2 /\ e[1] = "dq" /\ e[Len(e)] = "dq"
  BY LenProperties DEF Layout
<1>2. 0 \in G
  <2>1. e[1] # "bs" /\ 1 \in Nat \ {0} /\ 1 + 1 = 0 + 2
    BY <1>1
  <2>2. Bare(e, 0 + 2)
    BY <2>1, BareIs
  <2>3. \A j \in 2 .. 0 + 1 : FALSE
    OBVIOUS
  <2> QED
    BY <1>1, <2>2, <2>3
<1>3. ASSUME NEW i \in 0 + 1 .. n, i - 1 \in G PROVE i \in G
  <2> DEFINE b == p[i - 1]
  <2>1. i \in 1 .. n /\ i \in 0 .. n /\ i - 1 \in 0 .. n
    BY <1>1
  <2>2. b \in Nat /\ Bare(e, b + 2) /\ \A j \in 2 .. b + 1 : ~free(j)
    BY <1>1, <1>3, <2>1
  <2>3. /\ v[i] \in Special => /\ p[i] = b + 2 /\ e[b + 2] = "bs"
        /\ v[i] \notin Special => p[i] = b + 1 /\ e[b + 2] = v[i]
    BY <2>1 DEF Layout
  <2> HIDE DEF b
  <2>4. /\ Bare(e, b + 3) <=> e[b + 2] # "bs" \/ ~Bare(e, b + 2)
        /\ Bare(e, b + 4) <=> e[b + 3] # "bs" \/ ~Bare(e, b + 3)
    <3>1. b + 2 \in Nat \ {0} /\ b + 3 \in Nat \ {0} /\ (b + 2) + 1 = b + 3 /\ (b + 3) + 1 = b + 4
      BY <2>2
    <3>2. /\ Bare(e, (b + 2) + 1) <=> e[b + 2] # "bs" \/ ~Bare(e, b + 2)
          /\ Bare(e, (b + 3) + 1) <=> e[b + 3] # "bs" \/ ~Bare(e, b + 3)
      BY <3>1, BareIs
    <3> QED
      BY <3>1, <3>2
  <2>5. CASE v[i] \in Special
    <3>1. p[i] = b + 2 /\ e[b + 2] = "bs" /\ ~Bare(e, b + 3) /\ Bare(e, b + 4)
      BY <2>2, <2>3, <2>4, <2>5
    <3>2. Bare(e, p[i] + 2)
      <4>1. p[i] + 2 = b + 4
        BY <3>1, <2>2
      <4> QED
        BY <4>1, <3>1
    <3>3. ASSUME NEW j \in 2 .. p[i] + 1 PROVE ~free(j)
      <4>1. j \in 2 .. b + 1 \/ j = b + 2 \/ j = b + 3
        BY <3>1, <2>2
      <4> QED
        BY <4>1, <3>1, <2>2
    <3> HIDE DEF free
    <3> QED
      BY <2>1, <3>2, <3>3
  <2>6. CASE v[i] \notin Special
    <3>1. p[i] = b + 1 /\ e[b + 2] # "bs" /\ e[b + 2] # "dq" /\ Bare(e, b + 3)
      BY <2>3, <2>4, <2>6 DEF Special
    <3>2. Bare(e, p[i] + 2)
      <4>1. p[i] + 2 = b + 3
        BY <3>1, <2>2
      <4> QED
        BY <4>1, <3>1
    <3>3. ASSUME NEW j \in 2 .. p[i] + 1 PROVE ~free(j)
      <4>1. j \in 2 .. b + 1 \/ j = b + 2
        BY <3>1, <2>2
      <4> QED
        BY <4>1, <3>1, <2>2
    <3> HIDE DEF free
    <3> QED
      BY <2>1, <3>2, <3>3
  <2> QED
    BY <2>5, <2>6
<1>4. n \in G
  <2> HIDE DEF G
  <2>1. \A i \in 0 .. n : i \in G
    BY <1>1, <1>2, <1>3, StepByStep
  <2> QED
    BY <1>1, <2>1
<1>5. p[n] \in Nat /\ Bare(e, p[n] + 2) /\ \A j \in 2 .. p[n] + 1 : ~free(j)
  BY <1>1, <1>4
<1> DEFINE ends == {i \in 2 .. Len(e) : e[i] = e[1] /\ Bare(e, i)}
<1>6. ends = {Len(e)}
  <2>1. Len(e) \in 2 .. Len(e) /\ Len(e) \in Nat
    BY <1>1, <1>5
  <2>2. Len(e) \in ends
    BY <1>1, <1>5, <2>1
  <2>3. ASSUME NEW j \in ends PROVE j = Len(e)
    <3>1. j \in 2 .. p[n] + 2 /\ free(j)
      BY <1>1
    <3>2. j \in 2 .. p[n] + 1 \/ j = p[n] + 2
      BY <3>1, <1>5
    <3> QED
      BY <3>1, <3>2, <1>1, <1>5
  <2> HIDE DEF ends
  <2> QED
    BY <2>2, <2>3
<1>7. Min(ends) = Len(e)
  <2>1. Len(e) \in Nat
    BY <1>1
  <2> HIDE DEF ends
  <2>2. ends \in SUBSET Nat /\ ends # {}
    BY <1>6, <2>1
  <2> QED
    BY <1>6, <2>2, MinIs
<1>8. EndOfQuoted(e) = IF ends = {} THEN 0 ELSE Min(ends)
  BY <1>1 DEF EndOfQuoted
<1> HIDE DEF ends
<1> QED
  BY <1>6, <1>7, <1>8

Readings == [text : Seq(Signs), escaped : BOOLEAN]
Nothing == [text |-> <<>>, escaped |-> FALSE]

LEMMA UnescapedIs ==
  ASSUME NEW c \in Signs, NEW w \in Readings
  PROVE  Unescaped(c, w) \in Readings
<1>1. "nl" \in Signs
  BY DEF Signs
<1>2. Append(w.text, c) \in Seq(Signs) /\ Append(w.text, "nl") \in Seq(Signs)
  BY <1>1 DEF Readings
<1> QED
  BY <1>2 DEF Unescaped, Readings

LEMMA UnescapedCases ==
  ASSUME NEW c, NEW t
  PROVE  /\ Unescaped("bs", [text |-> t, escaped |-> FALSE]) = [text |-> t, escaped |-> TRUE]
         /\ c # "bs" => Unescaped(c, [text |-> t, escaped |-> FALSE])
                          = [text |-> Append(t, c), escaped |-> FALSE]
         /\ Unescaped(c, [text |-> t, escaped |-> TRUE])
              = [text |-> Append(t, IF c = "n" THEN "nl" ELSE c), escaped |-> FALSE]
<1> DEFINE w == [text |-> t, escaped |-> FALSE]
<1>2. w.text = t /\ w.escaped = FALSE
  OBVIOUS
<1> HIDE DEF w
<1>3. Unescaped("bs", w) = [text |-> t, escaped |-> TRUE]
  BY <1>2 DEF Unescaped
<1>4. ASSUME c # "bs" PROVE Unescaped(c, w) = [text |-> Append(t, c), escaped |-> FALSE]
  BY <1>2, <1>4 DEF Unescaped
<1>5. Unescaped(c, [text |-> t, escaped |-> TRUE])
        = [text |-> Append(t, IF c = "n" THEN "nl" ELSE c), escaped |-> FALSE]
  BY DEF Unescaped
<1> QED
  BY <1>3, <1>4, <1>5 DEF w

LEMMA ReadingIs ==
  ASSUME NEW e \in Seq(Signs), Len(e) >= 2
  PROVE  /\ Reading(e)[1] = Nothing
         /\ \A i \in 2 .. Len(e) - 1 : Reading(e)[i] = Unescaped(e[i], Reading(e)[i - 1])
<1> DEFINE n == Len(e) - 1
           step == [i \in 1 + 1 .. n |-> [w \in Readings |-> Unescaped(e[i], w)]]
<1>1. n \in Nat /\ 1 <= n /\ \A i \in 1 .. n : e[i] \in Signs
  BY LenProperties
<1>2. Nothing \in Readings
  BY EmptySeq DEF Nothing, Readings
<1>3. step \in Steps(1, n, Readings)
  BY <1>1, UnescapedIs DEF Steps
<1>4. PICK f : Follows(f, 1, n, Readings, Nothing, step)
  <2> HIDE DEF step, n
  <2> QED
    BY <1>1, <1>2, <1>3, Recursion
<1>5. f = [i \in 1 .. n |-> IF i = 1 THEN Nothing ELSE Unescaped(e[i], f[i - 1])]
  <2>1. ASSUME NEW i \in 1 .. n, i # 1 PROVE f[i] = Unescaped(e[i], f[i - 1])
    <3>1. i \in 1 + 1 .. n /\ i - 1 \in 1 .. n
      BY <2>1
    <3>2. f[i] = step[i][f[i - 1]] /\ f[i - 1] \in Readings
      BY <3>1, <1>4 DEF Follows
    <3> QED
      BY <3>1, <3>2
  <2> QED
    BY <1>4, <2>1 DEF Follows
<1> DEFINE o == Reading(e)
<1>6. o = [i \in 1 .. n |-> IF i = 1 THEN Nothing ELSE Unescaped(e[i], o[i - 1])]
  BY <1>5 DEF Reading, Nothing
<1> HIDE DEF o
<1>7. o[1] = Nothing
  <2>1. 1 \in 1 .. n
    BY <1>1
  <2> QED
    BY <1>6, <2>1
<1>8. ASSUME NEW i \in 2 .. n PROVE o[i] = Unescaped(e[i], o[i - 1])
  <2>1. i \in 1 .. n /\ i # 1
    OBVIOUS
  <2> QED
    BY <1>6, <2>1
<1> QED
  BY <1>7, <1>8 DEF o, n

LEMMA QuotedReads ==
  ASSUME NEW v \in Seq(Signs), NEW e, NEW p, Layout(v, e, p)
  PROVE  Unquoted(e) = v
<1> DEFINE n == Len(v)
           o == Reading(e)
           G == {i \in 0 .. n : o[p[i] + 1] = [text |-> SubSeq(v, 1, i), escaped |-> FALSE]}
<1>1. /\ n \in Nat /\ p \in [0 .. n -> Nat] /\ p[0] = 0
      /\ e \in Seq(Signs) /\ Len(e) = p[n] + 2
  BY LenProperties DEF Layout
<1>2. Len(e) >= 2 /\ p[n] \in Nat
  BY <1>1
<1>3. o[1] = Nothing /\ \A i \in 2 .. p[n] + 1 : o[i] = Unescaped(e[i], o[i - 1])
  <2>1. Len(e) - 1 = p[n] + 1
    BY <1>1, <1>2
  <2> QED
    BY <2>1, <1>1, <1>2, ReadingIs
<1> HIDE DEF o
<1>4. 0 \in G
  <2>1. SubSeq(v, 1, 0) = <<>>
    BY SubSeqEmpty
  <2>2. p[0] + 1 = 1 /\ 0 \in 0 .. n
    BY <1>1
  <2>3. o[p[0] + 1] = [text |-> SubSeq(v, 1, 0), escaped |-> FALSE]
    BY <1>3, <2>1, <2>2 DEF Nothing
  <2> QED
    BY <2>2, <2>3
<1>5. ASSUME NEW i \in 0 + 1 .. n, i - 1 \in G PROVE i \in G
  <2> DEFINE b == p[i - 1]
             w == SubSeq(v, 1, i - 1)
             c == p[n]
  <2>1. i \in 1 .. n /\ i \in 0 .. n /\ i - 1 \in 0 .. n
    BY <1>1
  <2>2. b \in Nat /\ o[b + 1] = [text |-> w, escaped |-> FALSE]
    BY <1>1, <1>5, <2>1
  <2>3. Append(w, v[i]) = SubSeq(v, 1, i)
    <3>1. w \in Seq(Signs) /\ SubSeq(v, 1, i) \in Seq(Signs) /\ v[i] \in Signs
      BY <2>1
    <3>2. Len(w) = i - 1 /\ \A k \in 1 .. i - 1 : w[k] = v[k]
      BY <2>1
    <3>3. Len(SubSeq(v, 1, i)) = i /\ \A k \in 1 .. i : SubSeq(v, 1, i)[k] = v[k]
      BY <2>1
    <3> HIDE DEF w
    <3>4. /\ Append(w, v[i]) \in Seq(Signs) /\ Len(Append(w, v[i])) = i
          /\ \A k \in 1 .. i : Append(w, v[i])[k] = v[k]
      BY <2>1, <3>1, <3>2
    <3> QED
      BY <3>1, <3>3, <3>4, SeqEqual
  <2>4. /\ v[i] \in Special => /\ p[i] = b + 2 /\ e[b + 2] = "bs"
                               /\ e[b + 3] = IF v[i] = "nl" THEN "n" ELSE v[i]
        /\ v[i] \notin Special => p[i] = b + 1 /\ e[b + 2] = v[i]
    BY <2>1 DEF Layout
  <2>5. p[i] <= c /\ p[i] \in Nat /\ c \in Nat
    BY <1>1, <1>2, <2>1 DEF Layout
  <2> HIDE DEF b, w, c
  <2>6. \A j \in 2 .. c + 1 : o[j] = Unescaped(e[j], o[j - 1])
    BY <1>3 DEF c
  <2>7. CASE v[i] \in Special
    <3>1. b + 2 \in 2 .. c + 1 /\ (b + 2) - 1 = b + 1 /\ b + 3 \in 2 .. c + 1 /\ (b + 3) - 1 = b + 2
      BY <2>2, <2>4, <2>5, <2>7
    <3>2. o[b + 2] = [text |-> w, escaped |-> TRUE]
      <4>1. o[b + 2] = Unescaped("bs", o[b + 1])
        BY <3>1, <2>4, <2>6, <2>7
      <4> QED
        BY <4>1, <2>2, UnescapedCases
    <3>3. o[b + 3] = [text |-> Append(w, v[i]), escaped |-> FALSE]
      <4>1. o[b + 3] = Unescaped(e[b + 3], o[b + 2])
        BY <3>1, <2>6
      <4>2. (IF e[b + 3] = "n" THEN "nl" ELSE e[b + 3]) = v[i]
        BY <2>4, <2>7 DEF Special
      <4> DEFINE d == e[b + 3]
      <4>3. o[b + 3] = Unescaped(d, [text |-> w, escaped |-> TRUE])
        BY <4>1, <3>2
      <4>4. (IF d = "n" THEN "nl" ELSE d) = v[i]
        BY <4>2
      <4> HIDE DEF d
      <4>5. o[b + 3] = [text |-> Append(w, IF d = "n" THEN "nl" ELSE d), escaped |-> FALSE]
        BY <4>3, UnescapedCases
      <4> QED
        BY <4>4, <4>5
    <3>4. p[i] + 1 = b + 3
      BY <2>2, <2>4, <2>7
    <3> QED
      BY <2>1, <2>3, <3>3, <3>4
  <2>8. CASE v[i] \notin Special
    <3>1. b + 2 \in 2 .. c + 1 /\ (b + 2) - 1 = b + 1
      BY <2>2, <2>4, <2>5, <2>8
    <3>2. o[b + 2] = Unescaped(v[i], o[b + 1])
      BY <3>1, <2>4, <2>6, <2>8
    <3>3. o[b + 2] = [text |-> Append(w, v[i]), escaped |-> FALSE]
      BY <3>2, <2>2, <2>8, UnescapedCases DEF Special
    <3>4. p[i] + 1 = b + 2
      BY <2>2, <2>4, <2>8
    <3> QED
      BY <2>1, <2>3, <3>3, <3>4
  <2> QED
    BY <2>7, <2>8
<1>6. n \in G
  <2> HIDE DEF G
  <2>1. \A i \in 0 .. n : i \in G
    BY <1>1, <1>4, <1>5, StepByStep
  <2> QED
    BY <1>1, <2>1
<1>7. o[p[n] + 1].text = SubSeq(v, 1, n)
  BY <1>6
<1>8. SubSeq(v, 1, n) = v
  <2>1. /\ SubSeq(v, 1, n) \in Seq(Signs) /\ Len(SubSeq(v, 1, n)) = n
        /\ \A k \in 1 .. n : SubSeq(v, 1, n)[k] = v[k]
    BY <1>1
  <2> QED
    BY <2>1, SeqEqual
<1>9. Len(e) - 1 = p[n] + 1
  BY <1>1, <1>2
<1> QED
  BY <1>7, <1>8, <1>9 DEF Unquoted, o

\* A line break is written as an escape.
LEMMA LayoutIsALine ==
  ASSUME NEW v \in Seq(Signs), NEW e, NEW p, Layout(v, e, p)
  PROVE  OneLine(e)
<1> DEFINE n == Len(v)
           G == {i \in 0 .. n : \A j \in 1 .. p[i] + 1 : e[j] # "nl"}
<1>1. /\ n \in Nat /\ p \in [0 .. n -> Nat] /\ p[0] = 0
      /\ e \in Seq(Signs) /\ Len(e) = p[n] + 2 /\ e[1] = "dq" /\ e[Len(e)] = "dq"
      /\ \A i \in 1 .. n :
           /\ v[i] \in Special => /\ p[i] = p[i - 1] + 2 /\ e[p[i - 1] + 2] = "bs"
                                  /\ e[p[i - 1] + 3] = IF v[i] = "nl" THEN "n" ELSE v[i]
           /\ v[i] \notin Special => p[i] = p[i - 1] + 1 /\ e[p[i - 1] + 2] = v[i]
  BY LenProperties DEF Layout
<1> HIDE DEF n
<1>2. 0 \in G
  BY <1>1
<1>3. ASSUME NEW i \in 0 + 1 .. n, i - 1 \in G PROVE i \in G
  <2> DEFINE q == p[i - 1]
             r == p[i]
  <2>1. q \in Nat /\ r \in Nat /\ \A j \in 1 .. q + 1 : e[j] # "nl"
    <3>1. i - 1 \in 0 .. n /\ i \in 0 .. n
      BY <1>1
    <3> QED
      BY <3>1, <1>1, <1>3
  <2>2. \/ r = q + 1 /\ e[q + 2] # "nl"
        \/ r = q + 2 /\ e[q + 2] # "nl" /\ e[q + 3] # "nl"
    <3>1. i \in 1 .. n
      OBVIOUS
    <3>2. CASE v[i] \in Special
      <4>1. /\ r = q + 2 /\ e[q + 2] = "bs"
            /\ e[q + 3] = IF v[i] = "nl" THEN "n" ELSE v[i]
        BY <1>1, <3>1, <3>2
      <4> HIDE DEF q, r
      <4>2. e[q + 3] # "nl"
        BY <4>1
      <4> QED
        BY <4>1, <4>2
    <3>3. CASE v[i] \notin Special
      <4>1. r = q + 1 /\ e[q + 2] = v[i]
        BY <1>1, <3>1, <3>3
      <4>2. v[i] # "nl"
        BY <3>3 DEF Special
      <4> QED
        BY <4>1, <4>2
    <3> QED
      BY <3>2, <3>3
  <2> HIDE DEF q, r
  <2>3. \A j \in 1 .. r + 1 : e[j] # "nl"
    BY <2>1, <2>2
  <2> QED
    BY <2>3, <1>1 DEF r
<1> HIDE DEF G
<1>4. n \in G
  <2>1. \A i \in 0 .. n : i \in G
    BY <1>1, <1>2, <1>3, StepByStep
  <2> QED
    BY <2>1, <1>1
<1>5. \A j \in 1 .. p[n] + 1 : e[j] # "nl"
  BY <1>4 DEF G
<1>6. p[n] \in Nat
  BY <1>1
<1>7. \A j \in 1 .. Len(e) : e[j] # "nl"
  <2> DEFINE r == p[n]
  <2>1. r \in Nat /\ Len(e) = r + 2 /\ e[r + 2] = "dq" /\ \A j \in 1 .. r + 1 : e[j] # "nl"
    BY <1>1, <1>5, <1>6
  <2> HIDE DEF r
  <2> QED
    BY <2>1
<1> QED
  BY <1>1, <1>7, LenProperties DEF OneLine

LEMMA QuotedIsRead ==
  ASSUME NEW v \in Seq(Signs), NEW e, NEW p, Layout(v, e, p)
  PROVE  Valid(e) /\ Read(e) = v
<1>0. OneLine(e)
  BY LayoutIsALine
<1>1. Char(e, 1) = "dq"
  <2>1. e \in Seq(Signs) /\ Len(e) = p[Len(v)] + 2 /\ p[Len(v)] \in Nat /\ e[1] = "dq"
    BY LenProperties DEF Layout
  <2>2. 1 \in DOMAIN e
    BY <2>1, LenProperties
  <2> QED
    BY <2>1, <2>2 DEF Char
<1>2. EndOfQuoted(e) = Len(e) /\ Unquoted(e) = v
  BY ClosingQuote, QuotedReads
<1> QED
  BY <1>0, <1>1, <1>2 DEF Valid, Read

\* A value that needs no quotes is one already.
LEMMA PlainIsRead ==
  ASSUME NEW v \in Seq(STRING), v # <<>>, ~NeedsQuotes(v)
  PROVE  Valid(v) /\ Read(v) = v
<1>1. Len(v) \in Nat \ {0} /\ DOMAIN v = 1 .. Len(v) /\ 1 \in DOMAIN v
  BY EmptySeq, LenProperties
<1>2. /\ \A i \in 1 .. Len(v) - 1 : /\ ~(v[i] = ":" /\ v[i + 1] = " ")
                                    /\ ~(v[i] = " " /\ v[i + 1] = "#")
      /\ Last(v) # ":" /\ Last(v) # " "
      /\ v[1] \notin Leads /\ v[1] # " "
      /\ v[1] \in Dashing => Len(v) # 1 /\ v[2] # " "
      /\ \A i \in 1 .. Len(v) : v[i] # "nl"
  BY <1>1 DEF NeedsQuotes
<1>3. Last(v) = v[Len(v)]
  BY DEF Last
<1>4. ASSUME NEW i \in 1 .. Len(v), v[i] = ":" PROVE i < Len(v) /\ v[i + 1] # " "
  <2>1. i # Len(v)
    BY <1>2, <1>3, <1>4
  <2>2. i \in 1 .. Len(v) - 1 /\ i < Len(v)
    <3> DEFINE n == Len(v)
    <3>1. n \in Nat \ {0} /\ i \in 1 .. n /\ i # n
      BY <1>1, <2>1
    <3> HIDE DEF n
    <3>2. i \in 1 .. n - 1 /\ i < n
      BY <3>1
    <3> QED
      BY <3>2 DEF n
  <2> QED
    BY <1>2, <1>4, <2>2
<1>5. ASSUME NEW i \in 1 .. Len(v), v[i] = "#" PROVE v[i - 1] # " "
  <2>1. i # 1
    BY <1>2, <1>5 DEF Leads
  <2>2. i - 1 \in 1 .. Len(v) - 1 /\ (i - 1) + 1 = i
    BY <1>1, <2>1
  <2> QED
    BY <1>2, <1>5, <2>2
<1>6. v[1] \in Dashing => Len(v) > 1 /\ v[2] # " "
  <2>1. ASSUME v[1] \in Dashing PROVE Len(v) > 1
    <3>1. Len(v) # 1
      BY <1>2, <2>1
    <3> DEFINE n == Len(v)
    <3>2. n \in Nat \ {0} /\ n # 1
      BY <1>1, <3>1
    <3> HIDE DEF n
    <3>3. n > 1
      BY <3>2
    <3> QED
      BY <3>3 DEF n
  <2> QED
    BY <1>2, <2>1
<1>7. v[1] \notin Leads \cup {" "}
  BY <1>2
<1>8. PlainText(v)
  BY <1>1, <1>2, <1>4, <1>5, <1>6, <1>7 DEF PlainText
<1>9. Char(v, 1) # "dq"
  BY <1>1, <1>2 DEF Char, Leads
<1> QED
  BY <1>8, <1>9 DEF Valid, Read

\* The brackets open after the character c, when those of s were before it.
Pushed(s, c) ==
  LET pair == [x \in Closing |-> IF x = "]" THEN "[" ELSE "{"] IN
  IF s = Bad THEN Bad
  ELSE IF c \in Opening THEN Append(s, c)
  ELSE IF c \notin Closing THEN s
  ELSE IF s # <<>> /\ Last(s) = pair[c] THEN Front(s) ELSE Bad

LEMMA DepthIs ==
  ASSUME NEW v \in Seq(STRING)
  PROVE  /\ Depth(v)[0] = <<>>
         /\ \A i \in 1 .. Len(v) : Depth(v)[i] = Pushed(Depth(v)[i - 1], v[i])
<1> DEFINE n == Len(v)
           S == Seq(STRING) \cup {Bad}
           step == [i \in 0 + 1 .. n |-> [s \in S |-> Pushed(s, v[i])]]
           pair == [c \in Closing |-> IF c = "]" THEN "[" ELSE "{"]
           d[i \in 0 .. n] ==
             IF i = 0 THEN <<>>
             ELSE LET s == d[i - 1] IN
                  IF s = Bad THEN Bad
                  ELSE IF v[i] \in Opening THEN Append(s, v[i])
                  ELSE IF v[i] \notin Closing THEN s
                  ELSE IF s # <<>> /\ Last(s) = pair[v[i]] THEN Front(s) ELSE Bad
<1>1. n \in Nat /\ \A i \in 1 .. n : v[i] \in STRING
  BY LenProperties
<1>2. Depth(v) = d
  BY DEF Depth
<1>3. step \in Steps(0, n, S)
  <2>1. ASSUME NEW i \in 1 .. n, NEW s \in S PROVE Pushed(s, v[i]) \in S
    <3>1. Bad \in S
      OBVIOUS
    <3>2. CASE s = Bad
      BY <3>1, <3>2 DEF Pushed
    <3>3. CASE s # Bad
      <4>1. s \in Seq(STRING) /\ v[i] \in STRING
        BY <3>3, <1>1
      <4>2. Append(s, v[i]) \in Seq(STRING)
        BY <4>1
      <4>3. s # <<>> => Front(s) \in Seq(STRING)
        BY <4>1, EmptySeq DEF Front
      <4> QED
        BY <3>1, <3>3, <4>1, <4>2, <4>3 DEF Pushed
    <3> QED
      BY <3>2, <3>3
  <2>2. 0 + 1 = 1
    OBVIOUS
  <2> HIDE DEF S, n
  <2>3. step \in [1 .. n -> [S -> S]]
    BY <2>1
  <2> QED
    BY <2>2, <2>3 DEF Steps
<1>4. PICK f : Follows(f, 0, n, S, <<>>, step)
  <2>1. <<>> \in S /\ 0 \in Nat /\ 0 <= n
    BY <1>1
  <2> HIDE DEF S, step, n
  <2> QED
    BY <1>1, <1>3, <2>1, Recursion
<1>5. /\ f \in [0 .. n -> S] /\ f[0] = <<>>
      /\ \A i \in 1 .. n : f[i] = Pushed(f[i - 1], v[i])
  <2>1. f \in [0 .. n -> S] /\ f[0] = <<>>
        /\ \A i \in 0 + 1 .. n : f[i] = step[i][f[i - 1]]
    BY <1>4 DEF Follows
  <2>2. ASSUME NEW i \in 1 .. n PROVE f[i] = Pushed(f[i - 1], v[i])
    <3>1. i \in 0 + 1 .. n /\ i - 1 \in 0 .. n
      BY <1>1
    <3>2. f[i - 1] \in S
      BY <2>1, <3>1
    <3>3. f[i] = step[i][f[i - 1]]
      BY <2>1, <3>1
    <3> HIDE DEF S
    <3> QED
      BY <3>1, <3>2, <3>3
  <2> QED
    BY <2>1, <2>2
<1> HIDE DEF S, step
<1>6. f = [i \in 0 .. n |->
             IF i = 0 THEN <<>>
             ELSE LET s == f[i - 1] IN
                  IF s = Bad THEN Bad
                  ELSE IF v[i] \in Opening THEN Append(s, v[i])
                  ELSE IF v[i] \notin Closing THEN s
                  ELSE IF s # <<>> /\ Last(s) = pair[v[i]] THEN Front(s) ELSE Bad]
  <2>1. f = [i \in 0 .. n |-> f[i]]
    BY <1>5
  <2>2. ASSUME NEW i \in 0 .. n, i # 0
        PROVE  f[i] = LET s == f[i - 1] IN
                      IF s = Bad THEN Bad
                      ELSE IF v[i] \in Opening THEN Append(s, v[i])
                      ELSE IF v[i] \notin Closing THEN s
                      ELSE IF s # <<>> /\ Last(s) = pair[v[i]] THEN Front(s) ELSE Bad
    <3>1. i \in 1 .. n
      BY <2>2, <1>1
    <3>2. f[i] = Pushed(f[i - 1], v[i])
      BY <3>1, <1>5
    <3> QED
      BY <3>2 DEF Pushed
  <2> QED
    BY <2>1, <2>2, <1>5
<1>7. d = [i \in 0 .. n |->
             IF i = 0 THEN <<>>
             ELSE LET s == d[i - 1] IN
                  IF s = Bad THEN Bad
                  ELSE IF v[i] \in Opening THEN Append(s, v[i])
                  ELSE IF v[i] \notin Closing THEN s
                  ELSE IF s # <<>> /\ Last(s) = pair[v[i]] THEN Front(s) ELSE Bad]
  BY <1>6
<1> HIDE DEF d
<1>8. d[0] = <<>>
  <2>1. 0 \in 0 .. n
    BY <1>1
  <2> QED
    BY <2>1, <1>7, Zenon
<1>9. ASSUME NEW i \in 1 .. n PROVE d[i] = Pushed(d[i - 1], v[i])
  <2>1. i \in 0 .. n /\ i # 0
    BY <1>1
  <2> QED
    BY <2>1, <1>7 DEF Pushed
<1> QED
  BY <1>2, <1>8, <1>9

\* Words do not close the first bracket: only the last character does.
LEMMA FlowEnds ==
  ASSUME NEW v \in Seq(STRING), BalancedFlow(v), ListsWords(v)
  PROVE  EndOfFlow(v) = Len(v)
<1> DEFINE n == Len(v)
           d == Depth(v)
           G == {i \in 1 .. n - 1 : d[i] = <<v[1]>>}
           shut == {i \in 2 .. n : d[i] = <<>>}
<1>1. n \in Nat \ {0} /\ v[1] \in Opening /\ d[n] = <<>>
  BY EmptySeq, LenProperties DEF BalancedFlow
<1>2. \A i \in 2 .. n - 1 : v[i] \notin Opening /\ v[i] \notin Closing
  BY DEF ListsWords, Leads, Opening, Closing
<1>3. EndOfFlow(v) = IF shut = {} THEN 0 ELSE Min(shut)
  BY DEF EndOfFlow
<1>4. d[0] = <<>> /\ \A i \in 1 .. n : d[i] = Pushed(d[i - 1], v[i])
  BY DepthIs
<1> HIDE DEF d, n
<1>5. <<v[1]>> # <<>> /\ <<>> # Bad /\ <<v[1]>> # Bad
  <2>1. v[1] # "!"
    BY <1>1 DEF Opening
  <2> QED
    BY <2>1 DEF Bad
<1>6. d[1] = <<v[1]>>
  <2>1. d[1] = Pushed(<<>>, v[1])
    <3>1. 1 \in 1 .. n /\ 1 - 1 = 0
      BY <1>1
    <3> QED
      BY <3>1, <1>4
  <2>2. Pushed(<<>>, v[1]) = Append(<<>>, v[1])
    BY <1>1, <1>5 DEF Pushed
  <2> QED
    BY <2>1, <2>2
<1>7. n # 1
  BY <1>1, <1>5, <1>6
<1>8. n - 1 \in Nat /\ 1 \in 1 .. n - 1
  BY <1>1, <1>7
<1>9. 1 \in G
  BY <1>6, <1>8
<1>10. ASSUME NEW i \in 1 + 1 .. n - 1, i - 1 \in G PROVE i \in G
  <2>1. i \in 2 .. n - 1 /\ i \in 1 .. n /\ i \in 1 .. n - 1
    BY <1>1, <1>8
  <2>2. d[i - 1] = <<v[1]>> /\ d[i] = Pushed(d[i - 1], v[i])
    BY <2>1, <1>4, <1>10
  <2>3. Pushed(<<v[1]>>, v[i]) = <<v[1]>>
    BY <2>1, <1>2, <1>5 DEF Pushed
  <2> QED
    BY <2>1, <2>2, <2>3
<1> HIDE DEF G
<1>11. \A i \in 1 .. n - 1 : i \in G
  BY <1>8, <1>9, <1>10, StepByStep
<1>12. \A i \in 1 .. n - 1 : d[i] # <<>>
  BY <1>5, <1>11 DEF G
<1>13. shut = {n}
  BY <1>1, <1>7, <1>12
<1>14. Min(shut) = n
  <2>1. {n} \in SUBSET Nat /\ {n} # {}
    BY <1>1
  <2>2. Min({n}) \in {n}
    BY <2>1, MinIs
  <2> QED
    BY <2>2, <1>13
<1> QED
  BY <1>3, <1>13, <1>14 DEF n

\* What the caller wrote as YAML.
LEMMA AuthorsFormIsValid ==
  ASSUME NEW v \in Seq(STRING), AuthorsForm(v), ~TakenForYaml(v)
  PROVE  Valid(v)
<1>1. CASE WellformedQuoted(v)
  <2>1. EndOfQuoted(v) = Len(v) /\ OneLine(v)
    BY <1>1 DEF TakenForYaml
  <2>2. Len(v) >= 2 /\ v[1] \in {"dq", "sq"}
    BY <1>1 DEF WellformedQuoted
  <2>3. 1 \in DOMAIN v
    BY <2>2, LenProperties
  <2> QED
    BY <2>1, <2>2, <2>3 DEF Valid, Char
<1>2. CASE BalancedFlow(v)
  <2>1. ListsWords(v)
    BY <1>2 DEF TakenForYaml
  <2>2. v # <<>> /\ v[1] \in Opening
    BY <1>2 DEF BalancedFlow
  <2>3. 1 \in DOMAIN v
    BY <2>2, EmptySeq, LenProperties
  <2>4. EndOfFlow(v) = Len(v)
    BY <1>2, <2>1, FlowEnds
  <2> QED
    BY <2>1, <2>2, <2>3, <2>4 DEF Valid, Char
<1> QED
  BY <1>1, <1>2 DEF AuthorsForm

\* Every value that set is given is written as one YAML value, and reads back
\* as it was given unless it was YAML already (yaml_scalar).
THEOREM ScalarIsReadHolds == Spec => []ScalarIsRead
<1>1. ASSUME NEW v \in Typed, ~TakenForYaml(v)
      PROVE  Valid(Scalar(v)) /\ (~AuthorsForm(v) => Read(Scalar(v)) = v)
  <2>1. v \in Seq(STRING)
    BY NotesAssumption
  <2>2. v \in Seq(Signs)
    BY <2>1 DEF Signs
  <2>3. CASE v = <<>>
    <3>1. Scalar(v) = <<"dq", "dq">>
      BY <2>3 DEF Scalar
    <3>2. Layout(v, Scalar(v), [i \in 0 .. 0 |-> 0])
      BY <2>3, <3>1, EmptyQuotes
    <3> QED
      BY <2>2, <3>2, QuotedIsRead
  <2>4. CASE v # <<>> /\ AuthorsForm(v)
    <3>1. Scalar(v) = v
      BY <2>4 DEF Scalar
    <3> QED
      BY <1>1, <2>1, <2>4, <3>1, AuthorsFormIsValid
  <2>5. CASE v # <<>> /\ ~AuthorsForm(v) /\ ~NeedsQuotes(v)
    <3>1. Scalar(v) = v
      BY <2>5 DEF Scalar
    <3> QED
      BY <2>1, <2>5, <3>1, PlainIsRead
  <2>6. CASE v # <<>> /\ ~AuthorsForm(v) /\ NeedsQuotes(v)
    <3>1. Scalar(v) = <<"dq">> \o Escaped(v) \o <<"dq">>
      BY <2>6 DEF Scalar
    <3>2. PICK p : Layout(v, Scalar(v), p)
      BY <2>2, <2>6, <3>1, EscapedIs
    <3> QED
      BY <2>2, <3>2, QuotedIsRead
  <2> QED
    BY <2>3, <2>4, <2>5, <2>6
<1>2. ScalarIsRead
  BY <1>1 DEF ScalarIsRead
<1> QED
  BY <1>2, PTL

=============================================================================
