--------------------------- MODULE LinkScanProofs ---------------------------
(***************************************************************************)
(* Proofs about links, for every text: the scan and the rewriter agree,    *)
(* and what a rename changes. The recursions of the model are followed     *)
(* line by line and token by token; what one of them computes is found by  *)
(* LeastNumber, a property of sets of numbers, in the place of induction.  *)
(***************************************************************************)
EXTENDS LinkScan, FiniteSetTheorems, FunctionTheorems, SequenceTheorems, TLAPS

----------------------------------------------------------------------------
(* Recursion over numbers.                                                 *)

\* A nonempty set of numbers has a least.
LEMMA LeastNumber ==
  ASSUME NEW T \in SUBSET Nat, T # {}
  PROVE  \E n \in T : \A m \in T : n <= m
\* The intervals up to a number of T are finite, and one of them is minimal.
<1> DEFINE Up == {0 .. n : n \in T}
<1>1. IsWellFoundedOn(StrictSubsetOrdering(Nat), FiniteSubsetsOf(Nat))
  BY FS_StrictSubsetOrderingWellFounded
<1>2. Up \subseteq FiniteSubsetsOf(Nat)
  <2>1. \A n \in T : 0 .. n \in SUBSET Nat /\ IsFiniteSet(0 .. n)
    BY FS_Interval
  <2> QED
    BY <2>1 DEF FiniteSubsetsOf
<1>3. Up # {}
  OBVIOUS
<1>4. PICK x \in Up : \A y \in Up : ~(<<y, x>> \in StrictSubsetOrdering(Nat))
  <2> HIDE DEF Up
  <2> QED
  BY <1>1, <1>2, <1>3, WFMin
<1>5. PICK n \in T : x = 0 .. n
  BY <1>4
<1>6. ASSUME NEW m \in T, m < n
      PROVE  FALSE
  <2>1. <<0 .. m, 0 .. n>> \in StrictSubsetOrdering(Nat)
    <3>1. 0 .. m \in SUBSET Nat /\ 0 .. n \in SUBSET Nat /\ m \in Nat /\ n \in Nat
      OBVIOUS
    <3>2. 0 .. m \subseteq 0 .. n
      BY <1>6, <3>1
    <3>3. n \in 0 .. n /\ n \notin 0 .. m
      BY <1>6, <3>1
    <3> QED
      BY <3>1, <3>2, <3>3 DEF StrictSubsetOrdering
  <2> QED
    BY <1>4, <1>5, <2>1
<1>7. \A m \in T : n <= m
  BY <1>6
<1> QED
  BY <1>7

\* Induction: what holds at the start and is passed on holds everywhere.  The
\* set G holds the numbers for which it does.
LEMMA StepByStep ==
  ASSUME NEW lo \in Nat, NEW hi \in Nat, NEW G, lo \in G,
         \A i \in lo + 1 .. hi : i - 1 \in G => i \in G
  PROVE  \A i \in lo .. hi : i \in G
<1> DEFINE Out == {i \in lo .. hi : i \notin G}
<1>1. CASE Out = {}
  BY <1>1
<1>2. CASE Out # {}
  <2>1. PICK n \in Out : \A m \in Out : n <= m
    <3>1. Out \in SUBSET Nat
      OBVIOUS
    <3> QED
      BY <1>2, <3>1, LeastNumber
  <2>2. n # lo /\ n - 1 \in lo .. hi /\ n - 1 \notin Out
    BY <2>1
  <2> QED
    BY <2>1, <2>2
<1> QED
  BY <1>1, <1>2

\* A function defined by recursion over an interval: it begins with s0, and
\* step[i] gives its value at i from the one before.
Steps(lo, hi, S) == [lo + 1 .. hi -> [S -> S]]
Follows(f, lo, hi, S, s0, step) ==
  /\ f \in [lo .. hi -> S]
  /\ f[lo] = s0
  /\ \A i \in lo + 1 .. hi : f[i] = step[i][f[i - 1]]

\* There is one.
LEMMA Recursion ==
  ASSUME NEW lo \in Nat, NEW hi \in Nat, lo <= hi, NEW S, NEW s0 \in S,
         NEW step \in Steps(lo, hi, S)
  PROVE  \E f : Follows(f, lo, hi, S, s0, step)
<1> USE DEF Steps
<1> DEFINE Is(f, n) ==
      f[lo] = s0 /\ \A i \in lo + 1 .. n : f[i] = step[i][f[i - 1]]
    G == {n \in lo .. hi : \E f \in [lo .. n -> S] : Is(f, n)}
<1>1. lo \in G
  <2> DEFINE f == [i \in lo .. lo |-> s0]
  <2>1. f \in [lo .. lo -> S] /\ Is(f, lo)
    OBVIOUS
  <2> HIDE DEF f, Is
  <2> QED
    BY <2>1
<1>2. ASSUME NEW n \in lo + 1 .. hi, n - 1 \in G
      PROVE  n \in G
  <2>1. PICK f \in [lo .. n - 1 -> S] : Is(f, n - 1)
    BY <1>2
  <2> DEFINE g == [i \in lo .. n |-> IF i = n THEN step[n][f[n - 1]] ELSE f[i]]
  <2>2. n - 1 \in lo .. n - 1 /\ f[n - 1] \in S /\ n # lo
    OBVIOUS
  <2>3. g \in [lo .. n -> S]
    BY <2>2
  <2>4. \A i \in lo .. n - 1 : g[i] = f[i]
    OBVIOUS
  <2>5. Is(g, n)
    <3>1. g[lo] = s0
      BY <2>1, <2>2, <2>4
    <3>2. ASSUME NEW i \in lo + 1 .. n
          PROVE  g[i] = step[i][g[i - 1]]
      <4>1. CASE i = n
        BY <4>1, <2>2, <2>4
      <4>2. CASE i # n
        <5>1. i \in lo + 1 .. n - 1 /\ i \in lo .. n - 1 /\ i - 1 \in lo .. n - 1
          BY <4>2
        <5> QED
          BY <5>1, <2>1, <2>4
      <4> QED
        BY <4>1, <4>2
    <3> QED
      BY <3>1, <3>2
  <2> HIDE DEF g, Is
  <2> QED
    BY <2>3, <2>5
<1>3. hi \in G
  <2>1. \A n \in lo .. hi : n \in G
    <3> HIDE DEF G
    <3> QED
      BY <1>1, <1>2, StepByStep
  <2> QED
    BY <2>1
<1> QED
  BY <1>3 DEF Follows

\* The least of a set of numbers is its least element.
LEMMA MinIs ==
  ASSUME NEW S \in SUBSET Nat, S # {}
  PROVE  Min(S) \in S /\ \A y \in S : Min(S) <= y
BY LeastNumber DEF Min

LEMMA MinIsThat ==
  ASSUME NEW S \in SUBSET Nat, NEW x \in S, \A y \in S : x <= y
  PROVE  Min(S) = x
<1>1. Min(S) \in S /\ Min(S) <= x
  BY MinIs
<1>2. x <= Min(S) /\ x \in Nat /\ Min(S) \in Nat
  BY <1>1
<1> QED
  BY <1>1, <1>2

Spanning == [in : SUBSET Nat, next : Nat]

LEMMA CloserIs ==
  ASSUME NEW X, NEW l \in Seq(X), NEW i \in Nat
  PROVE  Closer(l, i) = 0 \/ Closer(l, i) \in i + 1 .. Len(l)
<1> DEFINE S == {j \in i + 1 .. Len(l) : l[j] = l[i]}
<1>1. S \in SUBSET Nat
  OBVIOUS
<1>2. S # {} => Min(S) \in S
  <2> HIDE DEF S
  <2> QED
    BY <1>1, MinIs
<1> QED
  BY <1>2 DEF Closer, Least

LEMMA SpannedType ==
  ASSUME NEW X, NEW l \in Seq(X), NEW i \in 1 .. Len(l), NEW was \in Spanning
  PROVE  Spanned(l, i, was) \in Spanning
<1>1. Closer(l, i) = 0 \/ Closer(l, i) \in i + 1 .. Len(l)
  BY CloserIs
<1>2. CASE i < was.next \/ l[i] \notin TickRuns \/ Closer(l, i) = 0
  BY <1>2 DEF Spanned
<1>3. CASE ~(i < was.next \/ l[i] \notin TickRuns \/ Closer(l, i) = 0)
  <2>1. Closer(l, i) + 1 \in Nat /\ i .. Closer(l, i) \subseteq Nat /\ was.in \subseteq Nat
    BY <1>1, <1>3 DEF Spanning
  <2>2. Spanned(l, i, was) = [in |-> was.in \cup i .. Closer(l, i), next |-> Closer(l, i) + 1]
    BY <1>3 DEF Spanned
  <2> QED
    BY <2>1, <2>2 DEF Spanning
<1> QED
  BY <1>2, <1>3

LEMMA SpansIs ==
  ASSUME NEW X, NEW l \in Seq(X)
  PROVE  /\ Spans(l) \in [0 .. Len(l) -> Spanning]
         /\ Spans(l)[0] = [in |-> {}, next |-> 1]
         /\ \A i \in 1 .. Len(l) : Spans(l)[i] = Spanned(l, i, Spans(l)[i - 1])
<1> DEFINE n == Len(l)
           s0 == [in |-> {}, next |-> 1]
           step == [i \in 1 .. n |-> [w \in Spanning |-> Spanned(l, i, w)]]
<1>1. n \in Nat /\ s0 \in Spanning
  BY DEF Spanning
<1>2. step \in Steps(0, n, Spanning)
  BY SpannedType DEF Steps
<1>3. PICK f : Follows(f, 0, n, Spanning, s0, step)
  <2> HIDE DEF step, n, s0
  <2> QED
    BY <1>1, <1>2, Recursion
<1>4. f = [i \in 0 .. n |-> IF i = 0 THEN s0 ELSE Spanned(l, i, f[i - 1])]
  <2>1. ASSUME NEW i \in 0 .. n, i # 0 PROVE f[i] = Spanned(l, i, f[i - 1])
    <3>1. i \in 1 .. n /\ i \in 0 + 1 .. n /\ i - 1 \in 0 .. n
      BY <2>1
    <3> QED
      BY <3>1, <1>3 DEF Follows
  <2> QED
    BY <1>3, <2>1 DEF Follows
<1> DEFINE o == Spans(l)
<1>5. o = [i \in 0 .. n |-> IF i = 0 THEN s0 ELSE Spanned(l, i, o[i - 1])]
  BY <1>4 DEF Spans
<1>6. \A i \in 1 .. n : o[i] = Spanned(l, i, o[i - 1])
  <2> HIDE DEF o
  <2>1. ASSUME NEW i \in 1 .. n PROVE i \in 0 .. n /\ i # 0
    OBVIOUS
  <2> QED
    BY <1>5, <2>1
<1>7. o[0] = s0 /\ DOMAIN o = 0 .. n
  <2> HIDE DEF o
  <2> QED
    BY <1>5
<1>8. \A i \in 0 .. n : o[i] \in Spanning
  <2> DEFINE G == {i \in 0 .. n : o[i] \in Spanning}
  <2> HIDE DEF o
  <2>1. 0 \in G
    <3> HIDE DEF n, s0
    <3> QED
      BY <1>1, <1>7
  <2>2. ASSUME NEW i \in 0 + 1 .. n, i - 1 \in G PROVE i \in G
    <3>1. i \in 1 .. Len(l) /\ i \in 0 .. n /\ o[i - 1] \in Spanning
      BY <2>2
    <3> QED
      BY <3>1, <1>6, SpannedType
  <2> HIDE DEF G
  <2>3. \A i \in 0 .. n : i \in G
    BY <1>1, <2>1, <2>2, StepByStep
  <2> QED
    BY <2>3 DEF G
<1> HIDE DEF o
<1>9. o \in [0 .. n -> Spanning]
  BY <1>5, <1>8
<1> QED
  BY <1>6, <1>7, <1>9 DEF o, n

----------------------------------------------------------------------------
(* Masks: inline code, comments and fences.                                *)

\* The tokens a line can hold, those of a masked or renamed line included.
Tokens == STRING \cup {"nul", "u", "md2"}
Lines == Seq(Tokens)
Texts == Seq(Lines)

LEMMA CodeIs ==
  ASSUME NEW l \in Lines
  PROVE  Code(l) \subseteq Nat
<1>1. Spans(l)[Len(l)] \in Spanning
  BY SpansIs DEF Lines
<1> QED
  BY <1>1 DEF Code, Spanning

LEMMA StrippedIs ==
  ASSUME NEW l \in Lines
  PROVE  /\ Stripped(l) \in Lines /\ Len(Stripped(l)) = Len(l)
         /\ DOMAIN Stripped(l) = 1 .. Len(l) /\ DOMAIN l = 1 .. Len(l)
         /\ Len(l) \in Nat
         /\ \A i \in 1 .. Len(l) :
              /\ i \in Code(l) => Stripped(l)[i] = "nul"
              /\ i \notin Code(l) => Stripped(l)[i] = l[i]
<1> DEFINE n == Len(l)
           s == Stripped(l)
<1>1. n \in Nat /\ DOMAIN l = 1 .. n /\ \A i \in 1 .. n : l[i] \in Tokens
  BY DEF Lines
<1>2. s = [i \in 1 .. n |-> IF i \in Code(l) THEN "nul" ELSE l[i]]
  BY <1>1 DEF Stripped
<1> HIDE DEF s, n
<1>3. s \in [1 .. n -> Tokens]
  <2>1. "nul" \in Tokens
    BY DEF Tokens
  <2>2. ASSUME NEW i \in 1 .. n PROVE s[i] \in Tokens
    <3>1. CASE i \in Code(l)
      BY <3>1, <1>2, <2>1
    <3>2. CASE i \notin Code(l)
      BY <3>2, <1>1, <1>2
    <3> QED
      BY <3>1, <3>2
  <2> QED
    BY <1>2, <2>2
<1>4. s \in Seq(Tokens)
  BY <1>1, <1>3, SeqDef
<1>5. Len(s) = n
  BY <1>1, <1>3, <1>4, LenProperties
<1> QED
  BY <1>1, <1>2, <1>4, <1>5 DEF s, n, Lines

LEMMA CommentedIs ==
  ASSUME NEW s \in Lines, NEW b \in BOOLEAN
  PROVE  /\ Commented(s, b) \in [0 .. Len(s) -> BOOLEAN]
         /\ Commented(s, b)[0] = b
         /\ \A i \in 1 .. Len(s) :
              Commented(s, b)[i] = IF Commented(s, b)[i - 1] THEN s[i] # "end"
                                   ELSE s[i] = "comment"
<1> DEFINE n == Len(s)
           step == [i \in 1 .. n |-> [w \in BOOLEAN |->
                      IF w THEN s[i] # "end" ELSE s[i] = "comment"]]
<1>1. n \in Nat
  BY DEF Lines
<1>2. step \in Steps(0, n, BOOLEAN)
  <2>1. ASSUME NEW i \in 1 .. n, NEW w \in BOOLEAN
        PROVE  (IF w THEN s[i] # "end" ELSE s[i] = "comment") \in BOOLEAN
    OBVIOUS
  <2>2. step \in [1 .. n -> [BOOLEAN -> BOOLEAN]]
    BY <2>1, Zenon
  <2>3. 0 + 1 .. n = 1 .. n
    OBVIOUS
  <2> HIDE DEF step, n
  <2> QED
    BY <2>2, <2>3 DEF Steps
<1>3. PICK f : Follows(f, 0, n, BOOLEAN, b, step)
  <2> HIDE DEF step, n
  <2> QED
    BY <1>1, <1>2, Recursion
<1>4. f = [i \in 0 .. n |-> IF i = 0 THEN b
             ELSE IF f[i - 1] THEN s[i] # "end" ELSE s[i] = "comment"]
  <2>1. ASSUME NEW i \in 0 .. n, i # 0
        PROVE  f[i] = IF f[i - 1] THEN s[i] # "end" ELSE s[i] = "comment"
    <3>1. i \in 1 .. n /\ i \in 0 + 1 .. n /\ i - 1 \in 0 .. n
      BY <2>1
    <3>2. f[i] = step[i][f[i - 1]] /\ f[i - 1] \in BOOLEAN
      BY <3>1, <1>3 DEF Follows
    <3> QED
      BY <3>1, <3>2
  <2> QED
    BY <1>3, <2>1 DEF Follows
<1> DEFINE o == Commented(s, b)
<1>5. o = [i \in 0 .. n |-> IF i = 0 THEN b
             ELSE IF o[i - 1] THEN s[i] # "end" ELSE s[i] = "comment"]
  BY <1>4 DEF Commented
<1> HIDE DEF o
<1>6. ASSUME NEW i \in 1 .. n
      PROVE  o[i] = IF o[i - 1] THEN s[i] # "end" ELSE s[i] = "comment"
  <2>1. i \in 0 .. n /\ i # 0
    OBVIOUS
  <2> QED
    BY <1>5, <2>1
<1>7. o[0] = b /\ DOMAIN o = 0 .. n
  <2>1. 0 \in 0 .. n
    BY <1>1
  <2> QED
    BY <1>5, <2>1
<1>8. \A i \in 0 .. n : o[i] \in BOOLEAN
  <2>1. ASSUME NEW i \in 0 .. n PROVE o[i] \in BOOLEAN
    <3>1. CASE i = 0
      BY <3>1, <1>7
    <3>2. CASE i # 0
      <4>1. i \in 1 .. n
        BY <3>2, <2>1
      <4>2. CASE o[i - 1]
        <5>1. o[i] = (s[i] # "end")
          BY <4>1, <4>2, <1>6
        <5> QED
          BY <5>1
      <4>3. CASE ~o[i - 1]
        <5>1. o[i] = (s[i] = "comment")
          BY <4>1, <4>3, <1>6
        <5> QED
          BY <5>1
      <4> QED
        BY <4>2, <4>3
    <3> QED
      BY <3>1, <3>2
  <2> QED
    BY <2>1
<1>9. o \in [0 .. n -> BOOLEAN]
  BY <1>5, <1>8
<1> QED
  BY <1>6, <1>7, <1>9 DEF o, n

\* What a line can be masked with.
Masking == [fence : BOOLEAN, comment : BOOLEAN, fenced : BOOLEAN, in : SUBSET Nat]

MaskOf(l, b) == LineMask(l, b, Commented(Stripped(l), b.comment))

LEMMA MaskType ==
  ASSUME NEW l \in Lines, NEW b \in Masking
  PROVE  MaskOf(l, b) \in Masking
<1> DEFINE w == Commented(Stripped(l), b.comment)
<1>1. w \in [0 .. Len(l) -> BOOLEAN] /\ Len(l) \in Nat
  <2>1. Stripped(l) \in Lines /\ Len(Stripped(l)) = Len(l) /\ Len(l) \in Nat
    BY StrippedIs
  <2>2. b.comment \in BOOLEAN
    BY DEF Masking
  <2> QED
    BY <2>1, <2>2, CommentedIs
<1> HIDE DEF w
<1>2. w[Len(l)] \in BOOLEAN /\ Covered(w) \subseteq Nat
  BY <1>1 DEF Covered
<1>3. CASE ~b.comment /\ (b.fence \/ IsFence(l))
  <2>1. MaskOf(l, b) = [fence |-> b.fence # IsFence(l), comment |-> FALSE,
                        fenced |-> TRUE, in |-> {}]
    BY <1>3 DEF MaskOf, LineMask
  <2> QED
    BY <2>1 DEF Masking
<1>4. CASE ~(~b.comment /\ (b.fence \/ IsFence(l)))
  <2>1. MaskOf(l, b) = [fence |-> FALSE, comment |-> w[Len(l)],
                        fenced |-> FALSE, in |-> Covered(w)]
    BY <1>4 DEF MaskOf, LineMask, w
  <2> QED
    BY <2>1, <1>2 DEF Masking
<1> QED
  BY <1>3, <1>4

LEMMA MasksIs ==
  ASSUME NEW T \in Texts
  PROVE  /\ Masks(T) \in [0 .. Len(T) -> Masking]
         /\ Masks(T)[0] = [fence |-> FALSE, comment |-> FALSE, fenced |-> FALSE, in |-> {}]
         /\ \A n \in 1 .. Len(T) : Masks(T)[n] = MaskOf(T[n], Masks(T)[n - 1])
<1> DEFINE n == Len(T)
           s0 == [fence |-> FALSE, comment |-> FALSE, fenced |-> FALSE, in |-> {}]
           step == [i \in 1 .. n |-> [w \in Masking |-> MaskOf(T[i], w)]]
<1>1. n \in Nat /\ s0 \in Masking /\ \A i \in 1 .. n : T[i] \in Lines
  BY DEF Masking, Texts
<1>2. step \in Steps(0, n, Masking)
  BY <1>1, MaskType DEF Steps
<1>3. PICK f : Follows(f, 0, n, Masking, s0, step)
  <2> HIDE DEF step, n, s0
  <2> QED
    BY <1>1, <1>2, Recursion
<1>4. f = [i \in 0 .. n |-> IF i = 0 THEN s0 ELSE MaskOf(T[i], f[i - 1])]
  <2>1. ASSUME NEW i \in 0 .. n, i # 0 PROVE f[i] = MaskOf(T[i], f[i - 1])
    <3>1. i \in 1 .. n /\ i \in 0 + 1 .. n /\ i - 1 \in 0 .. n
      BY <2>1
    <3> QED
      BY <3>1, <1>3 DEF Follows
  <2> QED
    BY <1>3, <2>1 DEF Follows
<1> DEFINE o == Masks(T)
<1>5. o = [i \in 0 .. n |-> IF i = 0 THEN s0 ELSE MaskOf(T[i], o[i - 1])]
  BY <1>4 DEF Masks, MaskOf
<1> HIDE DEF o, s0
<1>6. ASSUME NEW i \in 1 .. n PROVE o[i] = MaskOf(T[i], o[i - 1])
  <2>1. i \in 0 .. n /\ i # 0
    OBVIOUS
  <2> QED
    BY <1>5, <2>1
<1>7. o[0] = s0 /\ DOMAIN o = 0 .. n
  <2>1. 0 \in 0 .. n
    BY <1>1
  <2> QED
    BY <1>5, <2>1
<1>8. \A i \in 0 .. n : o[i] \in Masking
  <2> DEFINE G == {i \in 0 .. n : o[i] \in Masking}
  <2>1. 0 \in G
    <3>1. 0 \in 0 .. n
      BY <1>1
    <3> QED
      BY <1>1, <1>7, <3>1
  <2>2. ASSUME NEW i \in 0 + 1 .. n, i - 1 \in G PROVE i \in G
    <3>1. i \in 1 .. n /\ i \in 0 .. n /\ o[i - 1] \in Masking
      BY <2>2
    <3> QED
      BY <3>1, <1>1, <1>6, MaskType
  <2> HIDE DEF G
  <2>3. \A i \in 0 .. n : i \in G
    BY <1>1, <2>1, <2>2, StepByStep
  <2> QED
    BY <2>3 DEF G
<1>9. o \in [0 .. n -> Masking]
  BY <1>5, <1>8
<1> QED
  BY <1>6, <1>7, <1>9 DEF o, n, s0

----------------------------------------------------------------------------
(* The matches of a line.                                                  *)

WikiStops(l, i) == {j \in i + 1 .. Len(l) : l[j] \in Stops}
WikiEnds(l, stop) == {j \in stop .. Len(l) : l[j] = "close"}
WikiFits(l, i, stop) ==
  /\ l[i] = "open" /\ stop # i + 1
  /\ l[stop] \notin MdLinks /\ WikiEnds(l, stop) # {}
Wiki(i, stop, to) == [kind |-> "wiki", from |-> i, to |-> to, target |-> i + 1 .. stop - 1]

\* What a match looks like: from [[ over a target without ] | # and without a
\* markdown link, to the next ]].
WikiShape(l, i, stop, to) ==
  /\ stop \in i + 2 .. Len(l) /\ to \in stop .. Len(l)
  /\ l[i] = "open" /\ l[to] = "close"
  /\ l[stop] \in Stops \ MdLinks
  /\ \A j \in i + 1 .. stop - 1 : l[j] \notin Stops
  /\ \A j \in stop .. to - 1 : l[j] # "close"

LEMMA WikiIs ==
  ASSUME NEW l \in Lines, NEW i \in 1 .. Len(l), NEW m \in WikiAt(l, i)
  PROVE  \E stop, to : WikiShape(l, i, stop, to) /\ m = Wiki(i, stop, to)
<1> DEFINE S == WikiStops(l, i)
           stop == Min(S)
           E == WikiEnds(l, stop)
<1>1. WikiAt(l, i) = IF /\ l[i] = "open" /\ S # {}
                        /\ stop # i + 1 /\ l[stop] \notin MdLinks /\ E # {}
                     THEN {Wiki(i, stop, Min(E))} ELSE {}
  BY DEF WikiAt, Wiki, WikiStops, WikiEnds
<1>2. /\ l[i] = "open" /\ S # {} /\ stop # i + 1 /\ l[stop] \notin MdLinks /\ E # {}
      /\ m = Wiki(i, stop, Min(E))
  BY <1>1
<1>3. Len(l) \in Nat /\ S \in SUBSET Nat
  BY DEF Lines, WikiStops
<1>4. stop \in S /\ \A y \in S : stop <= y
  <2> HIDE DEF S
  <2> QED
    BY <1>2, <1>3, MinIs
<1>5. stop \in i + 2 .. Len(l) /\ l[stop] \in Stops
  BY <1>2, <1>3, <1>4 DEF WikiStops
<1>6. ASSUME NEW j \in i + 1 .. stop - 1 PROVE l[j] \notin Stops
  <2>1. j \notin S /\ j \in i + 1 .. Len(l)
    <3> HIDE DEF S
    <3>1. stop \in Nat
      BY <1>3, <1>4
    <3> HIDE DEF stop
    <3> QED
      BY <1>3, <1>4, <1>5, <3>1
  <2> QED
    BY <2>1 DEF WikiStops
<1> HIDE DEF stop, S
<1>7. E \in SUBSET Nat
  BY <1>3, <1>5 DEF WikiEnds
<1>8. Min(E) \in E /\ \A y \in E : Min(E) <= y
  <2> HIDE DEF E
  <2> QED
    BY <1>2, <1>7, MinIs
<1> DEFINE to == Min(E)
<1>9. to \in stop .. Len(l) /\ l[to] = "close"
  BY <1>8 DEF WikiEnds
<1>10. ASSUME NEW j \in stop .. to - 1 PROVE l[j] # "close"
  <2>1. j \notin E /\ j \in stop .. Len(l)
    <3> HIDE DEF E
    <3>1. to \in Nat
      BY <1>8, <1>7
    <3> HIDE DEF to
    <3>2. stop \in Nat /\ j < to
      BY <1>5, <3>1
    <3>3. \A y \in E : to <= y
      BY <1>8 DEF to
    <3> QED
      BY <1>3, <1>5, <1>9, <1>7, <3>1, <3>2, <3>3
  <2> QED
    BY <2>1 DEF WikiEnds
<1> HIDE DEF to
<1>11. WikiShape(l, i, stop, to)
  BY <1>2, <1>5, <1>6, <1>9, <1>10 DEF WikiShape
<1> QED
  BY <1>2, <1>11 DEF to

\* No two matches begin at one place.
LEMMA WikiOnce ==
  ASSUME NEW l, NEW i, NEW m \in WikiAt(l, i)
  PROVE  WikiAt(l, i) = {m}
BY DEF WikiAt

Found == [kind : {"wiki"}, from : Nat, to : Nat, target : SUBSET Nat]
Searching == [found : SUBSET Found, next : Nat]

LEMMA WikiType ==
  ASSUME NEW l \in Lines, NEW i \in 1 .. Len(l), NEW m \in WikiAt(l, i)
  PROVE  m \in Found /\ m.from = i /\ m.to \in i .. Len(l)
<1>1. PICK stop, to : WikiShape(l, i, stop, to) /\ m = Wiki(i, stop, to)
  BY WikiIs
<1>2. stop \in i + 2 .. Len(l) /\ to \in stop .. Len(l) /\ Len(l) \in Nat
  BY <1>1 DEF WikiShape, Lines
<1>3. i + 1 .. stop - 1 \subseteq Nat
  BY <1>2
<1> QED
  BY <1>1, <1>2, <1>3 DEF Wiki, Found

LEMMA SoughtIs ==
  ASSUME NEW l \in Lines, NEW i \in 1 .. Len(l), NEW was \in Searching
  PROVE  /\ (i < was.next \/ WikiAt(l, i) = {}) => Sought(l, i, was) = was
         /\ \A m \in WikiAt(l, i) : ~(i < was.next) =>
              Sought(l, i, was) = [found |-> was.found \cup {m}, next |-> m.to + 1]
<1>1. (i < was.next \/ WikiAt(l, i) = {}) => Sought(l, i, was) = was
  BY DEF Sought
<1>2. ASSUME NEW m \in WikiAt(l, i), ~(i < was.next)
      PROVE  Sought(l, i, was) = [found |-> was.found \cup {m}, next |-> m.to + 1]
  <2>1. WikiAt(l, i) = {m}
    BY WikiOnce
  <2>2. (CHOOSE x \in WikiAt(l, i) : TRUE) = m
    BY <2>1
  <2>3. WikiAt(l, i) # {}
    BY <2>1
  <2> QED
    BY <1>2, <2>1, <2>2, <2>3 DEF Sought
<1> QED
  BY <1>1, <1>2

LEMMA SoughtType ==
  ASSUME NEW l \in Lines, NEW i \in 1 .. Len(l), NEW was \in Searching
  PROVE  Sought(l, i, was) \in Searching
<1>1. CASE i < was.next \/ WikiAt(l, i) = {}
  BY <1>1, SoughtIs
<1>2. CASE ~(i < was.next) /\ WikiAt(l, i) # {}
  <2>1. PICK m : m \in WikiAt(l, i)
    BY <1>2
  <2>2. Sought(l, i, was) = [found |-> was.found \cup {m}, next |-> m.to + 1]
    BY <1>2, <2>1, SoughtIs
  <2>3. m \in Found /\ m.to + 1 \in Nat
    <3>1. m \in Found
      BY <2>1, WikiType
    <3> QED
      BY <3>1 DEF Found
  <2>4. was.found \subseteq Found
    BY DEF Searching
  <2> QED
    BY <2>2, <2>3, <2>4 DEF Searching
<1> QED
  BY <1>1, <1>2

LEMMA SearchIs ==
  ASSUME NEW l \in Lines
  PROVE  /\ Search(l) \in [0 .. Len(l) -> Searching]
         /\ Search(l)[0] = [found |-> {}, next |-> 1]
         /\ \A i \in 1 .. Len(l) : Search(l)[i] = Sought(l, i, Search(l)[i - 1])
<1> DEFINE n == Len(l)
           s0 == [found |-> {}, next |-> 1]
           step == [i \in 1 .. n |-> [w \in Searching |-> Sought(l, i, w)]]
<1>1. n \in Nat /\ s0 \in Searching
  BY DEF Searching, Lines
<1>2. step \in Steps(0, n, Searching)
  BY SoughtType DEF Steps
<1>3. PICK f : Follows(f, 0, n, Searching, s0, step)
  <2> HIDE DEF step, n, s0
  <2> QED
    BY <1>1, <1>2, Recursion
<1>4. f = [i \in 0 .. n |-> IF i = 0 THEN s0 ELSE Sought(l, i, f[i - 1])]
  <2>1. ASSUME NEW i \in 0 .. n, i # 0 PROVE f[i] = Sought(l, i, f[i - 1])
    <3>1. i \in 1 .. n /\ i \in 0 + 1 .. n /\ i - 1 \in 0 .. n
      BY <1>1, <2>1
    <3> QED
      BY <3>1, <1>3 DEF Follows
  <2> QED
    BY <1>3, <2>1 DEF Follows
<1> DEFINE o == Search(l)
<1>5. o = [i \in 0 .. n |-> IF i = 0 THEN s0 ELSE Sought(l, i, o[i - 1])]
  BY <1>4 DEF Search
<1> HIDE DEF o, s0
<1>6. ASSUME NEW i \in 1 .. n PROVE o[i] = Sought(l, i, o[i - 1])
  <2>1. i \in 0 .. n /\ i # 0
    OBVIOUS
  <2> QED
    BY <1>5, <2>1
<1>7. o[0] = s0 /\ DOMAIN o = 0 .. n
  <2>1. 0 \in 0 .. n
    BY <1>1
  <2> QED
    BY <1>5, <2>1
<1>8. \A i \in 0 .. n : o[i] \in Searching
  <2> DEFINE G == {i \in 0 .. n : o[i] \in Searching}
  <2>1. 0 \in G
    <3>1. 0 \in 0 .. n
      BY <1>1
    <3> QED
      BY <1>1, <1>7, <3>1
  <2>2. ASSUME NEW i \in 0 + 1 .. n, i - 1 \in G PROVE i \in G
    <3>1. i \in 1 .. n /\ i \in 0 .. n /\ o[i - 1] \in Searching
      BY <2>2
    <3> QED
      BY <3>1, <1>6, SoughtType
  <2> HIDE DEF G
  <2>3. \A i \in 0 .. n : i \in G
    BY <1>1, <2>1, <2>2, StepByStep
  <2> QED
    BY <2>3 DEF G
<1>9. o \in [0 .. n -> Searching]
  BY <1>5, <1>8
<1> QED
  BY <1>6, <1>7, <1>9 DEF o, n, s0

\* What was found stays found.
LEMMA FoundStays ==
  ASSUME NEW l \in Lines, NEW a \in 0 .. Len(l)
  PROVE  Search(l)[a].found \subseteq Wikis(l)
<1> DEFINE n == Len(l)
           o == Search(l)
           G == {i \in a .. n : o[a].found \subseteq o[i].found}
<1>1. n \in Nat /\ a \in Nat /\ a <= n
  BY DEF Lines
<1>2. a \in G
  BY <1>1
<1>3. ASSUME NEW i \in a + 1 .. n, i - 1 \in G PROVE i \in G
  <2>1. i \in 1 .. n /\ i \in a .. n /\ i - 1 \in 0 .. n
    BY <1>1
  <2>2. o[i] = Sought(l, i, o[i - 1]) /\ o[i - 1] \in Searching
    BY <2>1, SearchIs
  <2>3. o[i - 1].found \subseteq o[i].found
    <3> HIDE DEF o
    <3>1. CASE i < o[i - 1].next \/ WikiAt(l, i) = {}
      BY <3>1, <2>1, <2>2, SoughtIs
    <3>2. CASE ~(i < o[i - 1].next) /\ WikiAt(l, i) # {}
      <4>1. PICK m : m \in WikiAt(l, i)
        BY <3>2
      <4>2. o[i] = [found |-> o[i - 1].found \cup {m}, next |-> m.to + 1]
        BY <3>2, <4>1, <2>1, <2>2, SoughtIs
      <4> QED
        BY <4>2
    <3> QED
      BY <3>1, <3>2
  <2> HIDE DEF o
  <2> QED
    BY <2>1, <2>3, <1>3
<1> HIDE DEF G, o
<1>4. \A i \in a .. n : i \in G
  BY <1>1, <1>2, <1>3, StepByStep
<1>5. n \in G
  BY <1>1, <1>4
<1> QED
  BY <1>5 DEF G, o, Wikis

\* What is found is a match.
LEMMA FoundIs ==
  ASSUME NEW l \in Lines, NEW m \in Wikis(l)
  PROVE  m.from \in 1 .. Len(l) /\ m \in WikiAt(l, m.from)
<1> DEFINE n == Len(l)
           o == Search(l)
           W == {x \in Found : x.from \in 1 .. n /\ x \in WikiAt(l, x.from)}
           G == {i \in 0 .. n : o[i].found \subseteq W}
<1>1. n \in Nat
  BY DEF Lines
<1>2. 0 \in G
  <2>1. o[0].found = {}
    BY SearchIs
  <2> QED
    BY <1>1, <2>1
<1>3. ASSUME NEW i \in 0 + 1 .. n, i - 1 \in G PROVE i \in G
  <2>1. i \in 1 .. n /\ i \in 0 .. n /\ i - 1 \in 0 .. n
    BY <1>1
  <2>2. o[i] = Sought(l, i, o[i - 1]) /\ o[i - 1] \in Searching
    BY <2>1, SearchIs
  <2>0. o[i - 1].found \subseteq W
    BY <1>3
  <2>3. o[i].found \subseteq W
    <3> HIDE DEF o
    <3>1. CASE i < o[i - 1].next \/ WikiAt(l, i) = {}
      <4>1. o[i] = o[i - 1]
        BY <3>1, <2>1, <2>2, SoughtIs
      <4> HIDE DEF W
      <4> QED
        BY <4>1, <2>0
    <3>2. CASE ~(i < o[i - 1].next) /\ WikiAt(l, i) # {}
      <4>1. PICK x : x \in WikiAt(l, i)
        BY <3>2
      <4>2. o[i] = [found |-> o[i - 1].found \cup {x}, next |-> x.to + 1]
        BY <3>2, <4>1, <2>1, <2>2, SoughtIs
      <4>3. x \in W
        BY <4>1, <2>1, WikiType
      <4> HIDE DEF W
      <4> QED
        BY <4>2, <4>3, <2>0
    <3> QED
      BY <3>1, <3>2
  <2> HIDE DEF o, W
  <2> QED
    BY <2>1, <2>3
<1> HIDE DEF G
<1>4. \A i \in 0 .. n : i \in G
  BY <1>1, <1>2, <1>3, StepByStep
<1>5. n \in G
  BY <1>1, <1>4
<1>6. m \in W
  BY <1>5 DEF G, Wikis
<1> QED
  BY <1>6

----------------------------------------------------------------------------
(* The raw line and the masked one.                                        *)

\* What has the shape of a match is one.
LEMMA WikiHas ==
  ASSUME NEW l \in Lines, NEW i \in 1 .. Len(l), NEW stop, NEW to,
         WikiShape(l, i, stop, to)
  PROVE  Wiki(i, stop, to) \in WikiAt(l, i)
<1> DEFINE S == WikiStops(l, i)
           E == WikiEnds(l, stop)
<1>1. /\ Len(l) \in Nat /\ stop \in i + 2 .. Len(l) /\ to \in stop .. Len(l)
      /\ l[i] = "open" /\ l[to] = "close" /\ l[stop] \in Stops \ MdLinks
      /\ \A j \in i + 1 .. stop - 1 : l[j] \notin Stops
      /\ \A j \in stop .. to - 1 : l[j] # "close"
  BY DEF WikiShape, Lines
<1>2. S \in SUBSET Nat /\ stop \in S
  BY <1>1 DEF WikiStops
<1>3. \A y \in S : stop <= y
  <2>1. ASSUME NEW y \in S, ~(stop <= y) PROVE FALSE
    <3>1. y \in i + 1 .. stop - 1 /\ l[y] \in Stops
      BY <1>1, <2>1 DEF WikiStops
    <3> QED
      BY <3>1, <1>1
  <2> QED
    BY <2>1
<1>4. Min(S) = stop
  <2> HIDE DEF S
  <2> QED
    BY <1>2, <1>3, MinIsThat
<1>5. E \in SUBSET Nat /\ to \in E
  BY <1>1 DEF WikiEnds
<1>6. \A y \in E : to <= y
  <2>1. ASSUME NEW y \in E, ~(to <= y) PROVE FALSE
    <3>1. y \in stop .. to - 1 /\ l[y] = "close"
      BY <1>1, <2>1 DEF WikiEnds
    <3> QED
      BY <3>1, <1>1
  <2> QED
    BY <2>1
<1>7. Min(E) = to
  <2> HIDE DEF E
  <2> QED
    BY <1>5, <1>6, MinIsThat
<1>8. stop # i + 1
  BY <1>1
<1>9. /\ S = {j \in i + 1 .. Len(l) : l[j] \in Stops}
      /\ E = {j \in stop .. Len(l) : l[j] = "close"}
  BY DEF WikiStops, WikiEnds
<1> HIDE DEF S, E
<1> QED
  BY <1>1, <1>2, <1>4, <1>5, <1>7, <1>8, <1>9 DEF WikiAt, Wiki

\* A match without a part of a link in code.
Clear(l, m) == \A j \in m.from .. m.to : j \in Code(l) => l[j] \notin Parts

LEMMA ClearRaw ==
  ASSUME NEW l \in Lines, NEW i \in 1 .. Len(l), i \notin Code(l),
         NEW m \in WikiAt(l, i), Clear(l, m)
  PROVE  m \in WikiAt(Stripped(l), i)
<1> DEFINE s == Stripped(l)
<1>1. PICK stop, to : WikiShape(l, i, stop, to) /\ m = Wiki(i, stop, to)
  BY WikiIs
<1>2. /\ s \in Lines /\ Len(s) = Len(l) /\ Len(l) \in Nat
      /\ \A j \in 1 .. Len(l) : /\ j \in Code(l) => s[j] = "nul"
                                /\ j \notin Code(l) => s[j] = l[j]
  BY StrippedIs
<1> HIDE DEF s
<1>3. /\ stop \in i + 2 .. Len(l) /\ to \in stop .. Len(l)
      /\ l[i] = "open" /\ l[to] = "close" /\ l[stop] \in Stops \ MdLinks
      /\ \A j \in i + 1 .. stop - 1 : l[j] \notin Stops
      /\ \A j \in stop .. to - 1 : l[j] # "close"
  BY <1>1 DEF WikiShape
<1>4. \A j \in i .. to : j \in Code(l) => l[j] \notin Parts
  BY <1>1 DEF Clear, Wiki
<1>5. stop \in i .. to /\ to \in i .. to /\ stop \in 1 .. Len(l) /\ to \in 1 .. Len(l)
  BY <1>2, <1>3
<1>6. stop \notin Code(l) /\ to \notin Code(l)
  BY <1>3, <1>4, <1>5 DEF Parts, Stops
<1>7. s[i] = "open" /\ s[to] = "close" /\ s[stop] \in Stops \ MdLinks
  BY <1>2, <1>3, <1>5, <1>6
<1>8. ASSUME NEW j \in i + 1 .. stop - 1 PROVE s[j] \notin Stops
  <2>1. j \in 1 .. Len(l)
    BY <1>2, <1>3
  <2> QED
    BY <2>1, <1>2, <1>3 DEF Stops, MdLinks
<1>9. ASSUME NEW j \in stop .. to - 1 PROVE s[j] # "close"
  <2>1. j \in 1 .. Len(l)
    BY <1>2, <1>3
  <2> QED
    BY <2>1, <1>2, <1>3
<1>10. WikiShape(s, i, stop, to)
  BY <1>2, <1>3, <1>7, <1>8, <1>9 DEF WikiShape
<1>11. i \in 1 .. Len(s)
  BY <1>2
<1> QED
  BY <1>1, <1>2, <1>10, <1>11, WikiHas DEF s

LEMMA ClearStripped ==
  ASSUME NEW l \in Lines, NEW i \in 1 .. Len(l),
         NEW m \in WikiAt(Stripped(l), i), Clear(l, m)
  PROVE  m \in WikiAt(l, i)
<1> DEFINE s == Stripped(l)
<1>2. /\ s \in Lines /\ Len(s) = Len(l) /\ Len(l) \in Nat
      /\ \A j \in 1 .. Len(l) : /\ j \in Code(l) => s[j] = "nul"
                                /\ j \notin Code(l) => s[j] = l[j]
  BY StrippedIs
<1>1. PICK stop, to : WikiShape(s, i, stop, to) /\ m = Wiki(i, stop, to)
  <2>1. i \in 1 .. Len(s) /\ m \in WikiAt(s, i)
    BY <1>2
  <2> HIDE DEF s
  <2> QED
    BY <1>2, <2>1, WikiIs
<1> HIDE DEF s
<1>3. /\ stop \in i + 2 .. Len(l) /\ to \in stop .. Len(l)
      /\ s[i] = "open" /\ s[to] = "close" /\ s[stop] \in Stops \ MdLinks
      /\ \A j \in i + 1 .. stop - 1 : s[j] \notin Stops
      /\ \A j \in stop .. to - 1 : s[j] # "close"
  BY <1>1, <1>2 DEF WikiShape
<1>4. \A j \in i .. to : j \in Code(l) => l[j] \notin Parts
  BY <1>1 DEF Clear, Wiki
<1>5. stop \in 1 .. Len(l) /\ to \in 1 .. Len(l)
  BY <1>2, <1>3
<1>6. stop \notin Code(l) /\ to \notin Code(l) /\ i \notin Code(l)
  BY <1>2, <1>3, <1>5 DEF Stops, MdLinks
<1>7. l[i] = "open" /\ l[to] = "close" /\ l[stop] \in Stops \ MdLinks
  BY <1>2, <1>3, <1>5, <1>6
<1>8. ASSUME NEW j \in i + 1 .. stop - 1 PROVE l[j] \notin Stops
  <2>1. j \in 1 .. Len(l) /\ j \in i .. to
    BY <1>2, <1>3
  <2> QED
    BY <2>1, <1>2, <1>3, <1>4 DEF Parts
<1>9. ASSUME NEW j \in stop .. to - 1 PROVE l[j] # "close"
  <2>1. j \in 1 .. Len(l) /\ j \in i .. to
    BY <1>2, <1>3
  <2>2. "close" \in Parts
    BY DEF Parts, Stops
  <2> QED
    BY <2>1, <2>2, <1>2, <1>3, <1>4
<1>10. WikiShape(l, i, stop, to)
  BY <1>2, <1>3, <1>7, <1>8, <1>9 DEF WikiShape
<1> QED
  BY <1>1, <1>2, <1>10, WikiHas

\* No match of the masked line begins in code.
LEMMA NoneInCode ==
  ASSUME NEW l \in Lines, NEW i \in 1 .. Len(l), i \in Code(l)
  PROVE  WikiAt(Stripped(l), i) = {}
<1>1. Stripped(l)[i] = "nul"
  BY StrippedIs
<1> QED
  BY <1>1 DEF WikiAt

LEMMA ClearSame ==
  ASSUME NEW l \in Lines, NEW i \in 1 .. Len(l), i \notin Code(l),
         NEW m \in WikiAt(l, i) \cup WikiAt(Stripped(l), i), Clear(l, m)
  PROVE  WikiAt(l, i) = {m} /\ WikiAt(Stripped(l), i) = {m}
<1>1. m \in WikiAt(l, i) /\ m \in WikiAt(Stripped(l), i)
  BY ClearRaw, ClearStripped
<1> QED
  BY <1>1, WikiOnce

\* The two searches go on at the same places outside code.
InStep(l, f, g, i) ==
  /\ g.found = {m \in f.found : m.from \notin Code(l)}
  /\ \A j \in i + 1 .. Len(l) : j \notin Code(l) => (j < f.next <=> j < g.next)

\* A line that is cut into links at the same places, raw or masked.
Even(l) ==
  \A m \in Wikis(l) \cup Wikis(Stripped(l)) :
    m.from .. m.to \subseteq Code(l) \/ Clear(l, m)

LEMMA StepsAlike ==
  ASSUME NEW l \in Lines, Even(l), NEW i \in 1 .. Len(l),
         InStep(l, Search(l)[i - 1], Search(Stripped(l))[i - 1], i - 1)
  PROVE  InStep(l, Search(l)[i], Search(Stripped(l))[i], i)
<1> DEFINE s == Stripped(l)
           f == Search(l)[i - 1]
           g == Search(s)[i - 1]
           f1 == Search(l)[i]
           g1 == Search(s)[i]
<1>1. s \in Lines /\ Len(s) = Len(l) /\ Len(l) \in Nat /\ i \in 1 .. Len(s)
      /\ i - 1 \in 0 .. Len(l) /\ i \in 0 .. Len(l)
  BY StrippedIs
<1>2. f1 = Sought(l, i, f) /\ f \in Searching /\ f1 \in Searching
  BY <1>1, SearchIs
<1>3. g1 = Sought(s, i, g) /\ g \in Searching /\ g1 \in Searching
  <2> HIDE DEF s
  <2>1. i - 1 \in 0 .. Len(s) /\ i \in 0 .. Len(s)
    BY <1>1
  <2> QED
    BY <1>1, <2>1, SearchIs
<1>4. f1.found \subseteq Wikis(l)
  BY <1>1, FoundStays
<1>5. g1.found \subseteq Wikis(s)
  <2> HIDE DEF s
  <2>1. i \in 0 .. Len(s)
    BY <1>1
  <2> QED
    BY <1>1, <2>1, FoundStays
<1>6. \A m \in Wikis(l) \cup Wikis(s) : m.from .. m.to \subseteq Code(l) \/ Clear(l, m)
  BY DEF Even
<1>7. InStep(l, f, g, i - 1)
  OBVIOUS
<1>8. \A m \in WikiAt(l, i) : m \in Found /\ m.from = i /\ m.to \in i .. Len(l)
  BY WikiType
<1>9. \A m \in WikiAt(s, i) : m \in Found /\ m.from = i /\ m.to \in i .. Len(l)
  <2> HIDE DEF s
  <2> QED
    BY <1>1, WikiType
<1>10. f.next \in Nat /\ g.next \in Nat
  BY <1>2, <1>3 DEF Searching
<1>11. \A j \in i .. Len(l) : j \notin Code(l) => (j < f.next <=> j < g.next)
  <2>1. (i - 1) + 1 = i
    OBVIOUS
  <2> QED
    BY <2>1, <1>7 DEF InStep
<1>12. g.found = {m \in f.found : m.from \notin Code(l)}
  BY <1>7 DEF InStep
<1>13. i \in Code(l) => WikiAt(s, i) = {}
  BY NoneInCode
<1>14. \A m \in WikiAt(l, i) \cup WikiAt(s, i) : i \notin Code(l) /\ Clear(l, m) =>
          WikiAt(l, i) = {m} /\ WikiAt(s, i) = {m}
  BY ClearSame
<1>15. \A j \in i + 1 .. Len(l) : j \in i .. Len(l)
  BY <1>1
<1> HIDE DEF s, f, g, f1, g1
<1>20. CASE i \in Code(l)
  <2>1. g1 = g
    BY <1>20, <1>13, <1>3, <1>1, SoughtIs
  <2>2. CASE i < f.next \/ WikiAt(l, i) = {}
    <3>1. f1 = f
      BY <2>2, <1>2, SoughtIs
    <3> QED
      BY <3>1, <2>1, <1>11, <1>12, <1>15 DEF InStep, f1, g1, s
  <2>3. CASE ~(i < f.next) /\ WikiAt(l, i) # {}
    <3>1. PICK m : m \in WikiAt(l, i)
      BY <2>3
    <3>2. f1 = [found |-> f.found \cup {m}, next |-> m.to + 1]
      BY <2>3, <3>1, <1>2, SoughtIs
    <3>3. m \in Wikis(l)
      BY <3>2, <1>4
    <3>4. m.from = i /\ m.to \in i .. Len(l)
      BY <3>1, <1>8
    <3>5. l[i] = "open" /\ "open" \in Parts
      BY <3>1 DEF WikiAt, Parts
    <3>6. i \in m.from .. m.to
      BY <3>4, <1>1
    <3>7. ~Clear(l, m)
      BY <3>5, <3>6, <1>20 DEF Clear
    <3>8. i .. m.to \subseteq Code(l)
      BY <3>3, <3>4, <3>7, <1>6
    <3>9. ASSUME NEW j \in i + 1 .. Len(l), j \notin Code(l)
          PROVE  ~(j < m.to + 1) /\ ~(j < g.next)
      <4>1. j \notin i .. m.to
        BY <3>8, <3>9
      <4>2. ~(j < m.to + 1)
        BY <4>1, <3>4, <1>1
      <4>3. ~(j < f.next)
        BY <2>3, <1>10, <1>1
      <4> QED
        BY <4>2, <4>3, <3>9, <1>11, <1>15
    <3>10. {x \in f1.found : x.from \notin Code(l)} = g.found
      BY <3>2, <3>4, <1>12, <1>20
    <3>11. f1.next = m.to + 1
      BY <3>2
    <3> QED
      BY <3>9, <3>10, <3>11, <2>1 DEF InStep, f1, g1, s
  <2> QED
    BY <2>2, <2>3
<1>21. CASE i \notin Code(l)
  <2>0. i < f.next <=> i < g.next
    <3>1. i \in i .. Len(l)
      BY <1>1
    <3> QED
      BY <3>1, <1>11, <1>21
  <2>1. CASE i < f.next \/ WikiAt(l, i) \cup WikiAt(s, i) = {}
    <3>1. f1 = f
      BY <2>1, <1>2, SoughtIs
    <3>2. g1 = g
      BY <2>1, <2>0, <1>3, <1>1, SoughtIs
    <3> QED
      BY <3>1, <3>2, <1>11, <1>12, <1>15 DEF InStep, f1, g1, s
  <2>2. CASE ~(i < f.next) /\ WikiAt(l, i) \cup WikiAt(s, i) # {}
    <3>1. PICK m : /\ m \in WikiAt(l, i) \cup WikiAt(s, i)
                   /\ m \in f1.found \cup g1.found
      <4>1. CASE WikiAt(l, i) # {}
        <5>1. PICK m : m \in WikiAt(l, i)
          BY <4>1
        <5>2. f1 = [found |-> f.found \cup {m}, next |-> m.to + 1]
          BY <2>2, <5>1, <1>2, SoughtIs
        <5> QED
          BY <5>1, <5>2
      <4>2. CASE WikiAt(s, i) # {}
        <5>1. PICK m : m \in WikiAt(s, i)
          BY <4>2
        <5>2. g1 = [found |-> g.found \cup {m}, next |-> m.to + 1]
          BY <2>2, <2>0, <5>1, <1>3, <1>1, SoughtIs
        <5> QED
          BY <5>1, <5>2
      <4> QED
        BY <4>1, <4>2, <2>2
    <3>2. m.from = i /\ m.to \in i .. Len(l)
      BY <3>1, <1>8, <1>9
    <3>3. ~(m.from .. m.to \subseteq Code(l))
      <4>1. i \in m.from .. m.to
        BY <3>2, <1>1
      <4> QED
        BY <4>1, <1>21
    <3>4. Clear(l, m)
      BY <3>1, <3>3, <1>4, <1>5, <1>6
    <3>5. m \in WikiAt(l, i) /\ m \in WikiAt(s, i)
      BY <3>1, <3>4, <1>14, <1>21
    <3>6. f1 = [found |-> f.found \cup {m}, next |-> m.to + 1]
      BY <2>2, <3>5, <1>2, SoughtIs
    <3>7. g1 = [found |-> g.found \cup {m}, next |-> m.to + 1]
      BY <2>2, <2>0, <3>5, <1>3, <1>1, SoughtIs
    <3>8. g1.found = {x \in f1.found : x.from \notin Code(l)}
      BY <3>2, <3>6, <3>7, <1>12, <1>21
    <3>9. f1.next = g1.next
      BY <3>6, <3>7
    <3> QED
      BY <3>8, <3>9 DEF InStep, f1, g1, s
  <2> QED
    BY <2>1, <2>2
<1> QED
  BY <1>20, <1>21

LEMMA WikisAgree ==
  ASSUME NEW l \in Lines, Even(l)
  PROVE  Wikis(Stripped(l)) = {m \in Wikis(l) : m.from \notin Code(l)}
<1> DEFINE s == Stripped(l)
           n == Len(l)
           G == {i \in 0 .. n : InStep(l, Search(l)[i], Search(s)[i], i)}
<1>1. s \in Lines /\ Len(s) = n /\ n \in Nat
  BY StrippedIs
<1>2. 0 \in G
  <2>1. Search(l)[0] = [found |-> {}, next |-> 1]
    BY SearchIs
  <2>2. Search(s)[0] = [found |-> {}, next |-> 1]
    <3> HIDE DEF s
    <3> QED
      BY <1>1, SearchIs
  <2> HIDE DEF s
  <2>3. InStep(l, Search(l)[0], Search(s)[0], 0)
    BY <2>1, <2>2 DEF InStep
  <2> QED
    BY <1>1, <2>3
<1>3. ASSUME NEW i \in 0 + 1 .. n, i - 1 \in G PROVE i \in G
  <2>1. i \in 1 .. n /\ i \in 0 .. n
    BY <1>1
  <2>2. InStep(l, Search(l)[i], Search(s)[i], i)
    BY <2>1, <1>3, StepsAlike
  <2> QED
    BY <2>1, <2>2
<1> HIDE DEF G
<1>4. \A i \in 0 .. n : i \in G
  BY <1>1, <1>2, <1>3, StepByStep
<1>5. n \in G
  BY <1>1, <1>4
<1> QED
  BY <1>5, <1>1 DEF G, InStep, Wikis

----------------------------------------------------------------------------
(* What the scan finds and what the rewriter finds.                        *)

LEMMA MdIs ==
  ASSUME NEW l \in Lines, NEW m \in MdAt(l)
  PROVE  /\ m.from \in 1 .. Len(l) /\ l[m.from] \in MdLinks
         /\ m.kind = "md" /\ m.to = m.from /\ m.target = {m.from}
         /\ m = [kind |-> "md", from |-> m.from, to |-> m.from, target |-> {m.from}]
BY DEF MdAt, Lines

LEMMA MdHas ==
  ASSUME NEW l \in Lines, NEW i \in 1 .. Len(l), l[i] \in MdLinks
  PROVE  [kind |-> "md", from |-> i, to |-> i, target |-> {i}] \in MdAt(l)
<1>1. i \in {j \in DOMAIN l : l[j] \in MdLinks}
  BY DEF Lines
<1> QED
  BY <1>1 DEF MdAt

LEMMA WikiKind ==
  ASSUME NEW l \in Lines, NEW m \in Wikis(l)
  PROVE  m.kind = "wiki" /\ m \in Matches(l)
<1>1. m.from \in 1 .. Len(l) /\ m \in WikiAt(l, m.from)
  BY FoundIs
<1>2. m \in Found
  BY <1>1, WikiType
<1> QED
  BY <1>2 DEF Found, Matches

LEMMA EvenIs ==
  ASSUME NEW T \in Texts, ~Swallows(T), NEW n \in 1 .. Len(T)
  PROVE  T[n] \in Lines /\ Even(T[n])
<1> DEFINE l == T[n]
<1>1. l \in Lines /\ Stripped(l) \in Lines /\ n \in DOMAIN T
  BY StrippedIs DEF Texts
<1>2. ASSUME NEW m \in Wikis(l) \cup Wikis(Stripped(l)),
             ~(m.from .. m.to \subseteq Code(l))
      PROVE  Clear(l, m)
  <2>1. m \in Matches(l) \cup Matches(Stripped(l)) /\ m.kind = "wiki"
    BY <1>1, WikiKind
  <2>2. ~ \E i \in (m.from .. m.to) \cap Code(l) : l[i] \in Parts
    BY <2>1, <1>1, <1>2 DEF Swallows
  <2> QED
    BY <2>2 DEF Clear
<1> QED
  BY <1>1, <1>2 DEF Even

\* A comment that covers a [[ covers what follows it.
LEMMA CoversNext ==
  ASSUME NEW s \in Lines, NEW b \in BOOLEAN, NEW i \in 1 .. Len(s), s[i] = "open",
         i + 1 <= Len(s), i \in Covered(Commented(s, b))
  PROVE  i + 1 \in Covered(Commented(s, b))
<1> DEFINE w == Commented(s, b)
<1>1. w \in [0 .. Len(s) -> BOOLEAN] /\ Len(s) \in Nat
  BY CommentedIs DEF Lines
<1>2. w[i] = IF w[i - 1] THEN s[i] # "end" ELSE s[i] = "comment"
  BY CommentedIs, SMTT(30)
<1>3. i - 1 \in 0 .. Len(s) /\ i \in 0 .. Len(s) /\ i + 1 \in 0 .. Len(s) /\ (i + 1) - 1 = i
      /\ i + 1 # 0
  BY <1>1
<1>4. w[i - 1] \/ w[i]
  BY DEF Covered
<1> HIDE DEF w
<1>5. w[i]
  <2>1. CASE w[i - 1]
    BY <2>1, <1>2
  <2> QED
    BY <2>1, <1>4
<1>6. DOMAIN w = 0 .. Len(s)
  BY <1>1
<1>7. i + 1 \in {k \in DOMAIN w \ {0} : w[k - 1] \/ w[k]}
  BY <1>3, <1>5, <1>6
<1> QED
  BY <1>7 DEF Covered, w

\* The indices a line is masked with.
Closed(l, K) ==
  \A i \in 1 .. Len(l) :
    i \in K /\ Stripped(l)[i] = "open" /\ i + 1 <= Len(l) => i + 1 \in K

LEMMA LineAgrees ==
  ASSUME NEW l \in Lines, Even(l), NEW K, Closed(l, K), NEW m
  PROVE  (m \in Matches(Stripped(l)) /\ m.target \cap (K \cup Code(l)) = {})
           <=> (/\ m \in Matches(l)
                /\ ({m.from} \cup m.target) \cap (K \cup Code(l)) = {})
<1> DEFINE s == Stripped(l)
           C == Code(l)
<1>1. /\ s \in Lines /\ Len(s) = Len(l) /\ Len(l) \in Nat
      /\ \A i \in 1 .. Len(l) : /\ i \in C => s[i] = "nul"
                                /\ i \notin C => s[i] = l[i]
  BY StrippedIs
<1>2. Wikis(s) = {x \in Wikis(l) : x.from \notin C}
  BY WikisAgree
<1>3. \A i \in 1 .. Len(l) : i \in K /\ s[i] = "open" /\ i + 1 <= Len(l) => i + 1 \in K
  BY DEF Closed
<1> HIDE DEF s, C
<1>4. ASSUME m \in Matches(s), m.target \cap (K \cup C) = {}
      PROVE  m \in Matches(l) /\ ({m.from} \cup m.target) \cap (K \cup C) = {}
  <2>1. CASE m \in MdAt(s)
    <3>1. /\ m.from \in 1 .. Len(l) /\ s[m.from] \in MdLinks /\ m.target = {m.from}
          /\ m = [kind |-> "md", from |-> m.from, to |-> m.from, target |-> {m.from}]
      BY <2>1, <1>1, MdIs
    <3>2. l[m.from] \in MdLinks
      BY <3>1, <1>1, <1>4
    <3>3. m \in MdAt(l)
      BY <3>1, <3>2, MdHas
    <3> QED
      BY <3>1, <3>3, <1>4 DEF Matches
  <2>2. CASE m \in Wikis(s)
    <3>1. m \in Wikis(l) /\ m.from \notin C
      BY <2>2, <1>2
    <3>2. m.from \in 1 .. Len(s) /\ m \in WikiAt(s, m.from)
      BY <2>2, <1>1, FoundIs
    <3> DEFINE i == m.from
    <3>3. PICK stop, to : WikiShape(s, i, stop, to) /\ m = Wiki(i, stop, to)
      BY <3>2, <1>1, WikiIs
    <3>4. s[i] = "open" /\ stop \in i + 2 .. Len(l) /\ m.target = i + 1 .. stop - 1
      BY <3>3, <1>1 DEF WikiShape, Wiki
    <3> HIDE DEF i
    <3>5. i \in 1 .. Len(l)
      BY <3>2, <1>1 DEF i
    <3>6. i + 1 \in m.target /\ i + 1 <= Len(l)
      BY <3>4, <3>5, <1>1
    <3>7. i \notin K
      BY <3>4, <3>5, <3>6, <1>3, <1>4
    <3> QED
      BY <3>1, <3>7, <1>4 DEF Matches, i
  <2> QED
    BY <2>1, <2>2, <1>4 DEF Matches
<1>5. ASSUME m \in Matches(l), ({m.from} \cup m.target) \cap (K \cup C) = {}
      PROVE  m \in Matches(s) /\ m.target \cap (K \cup C) = {}
  <2>1. CASE m \in MdAt(l)
    <3>1. /\ m.from \in 1 .. Len(l) /\ l[m.from] \in MdLinks
          /\ m = [kind |-> "md", from |-> m.from, to |-> m.from, target |-> {m.from}]
      BY <2>1, MdIs
    <3>2. s[m.from] \in MdLinks
      BY <3>1, <1>1, <1>5
    <3>3. m \in MdAt(s)
      BY <3>1, <3>2, <1>1, MdHas
    <3> QED
      BY <3>3, <1>5 DEF Matches
  <2>2. CASE m \in Wikis(l)
    BY <2>2, <1>2, <1>5 DEF Matches
  <2> QED
    BY <2>1, <2>2, <1>5 DEF Matches
<1> QED
  BY <1>4, <1>5 DEF s, C

\* Where a link is, and where the rewriter finds one to the old name.
LinkAt(T, n, m) ==
  /\ n \in DOMAIN T /\ ~Masks(T)[n].fenced /\ m \in Matches(Stripped(T[n]))
  /\ m.target \cap (Masks(T)[n].in \cup Code(T[n])) = {}
RewritableAt(T, n, m) ==
  /\ n \in DOMAIN T /\ ~Masks(T)[n].fenced /\ m \in Matches(T[n])
  /\ TargetOf(T[n], m) = <<"t">>
  /\ ({m.from} \cup m.target) \cap (Masks(T)[n].in \cup Code(T[n])) = {}

LEMMA LinksAre ==
  ASSUME NEW T, NEW x
  PROVE  x \in Links(T) <=> \E n, m : x = <<n, m>> /\ LinkAt(T, n, m)
<1> DEFINE open(n) == {m \in Matches(Stripped(T[n])) :
                         m.target \cap (Masks(T)[n].in \cup Code(T[n])) = {}}
           D == {k \in DOMAIN T : ~Masks(T)[k].fenced}
<1>1. Links(T) = UNION {{n} \X open(n) : n \in D}
  BY DEF Links
<1>2. \A n, m : LinkAt(T, n, m) <=> n \in D /\ m \in open(n)
  BY DEF LinkAt
<1> HIDE DEF open, D
<1>3. x \in Links(T) <=> \E n \in D : x \in {n} \X open(n)
  BY <1>1
<1> QED
  BY <1>2, <1>3

LEMMA RewritableAre ==
  ASSUME NEW T, NEW x
  PROVE  x \in Rewritable(T) <=> \E n, m : x = <<n, m>> /\ RewritableAt(T, n, m)
<1> DEFINE open(n) ==
             {m \in Matches(T[n]) :
                /\ TargetOf(T[n], m) = <<"t">>
                /\ ({m.from} \cup m.target) \cap (Masks(T)[n].in \cup Code(T[n])) = {}}
           D == {k \in DOMAIN T : ~Masks(T)[k].fenced}
<1>1. Rewritable(T) = UNION {{n} \X open(n) : n \in D}
  BY DEF Rewritable
<1>2. \A n, m : RewritableAt(T, n, m) <=> n \in D /\ m \in open(n)
  BY DEF RewritableAt
<1> HIDE DEF open, D
<1>3. x \in Rewritable(T) <=> \E n \in D : x \in {n} \X open(n)
  BY <1>1
<1> QED
  BY <1>2, <1>3

LEMMA ToIs ==
  ASSUME NEW T, NEW x
  PROVE  x \in LinksTo(T, "t") <=>
           \E n, m : x = <<n, m>> /\ LinkAt(T, n, m) /\ TargetOf(T[n], m) = <<"t">>
<1>1. x \in LinksTo(T, "t") <=> x \in Links(T) /\ TargetOf(T[x[1]], x[2]) = <<"t">>
  BY DEF LinksTo
<1> QED
  BY <1>1, LinksAre

LEMMA MaskIsClosed ==
  ASSUME NEW T \in Texts, NEW n \in 1 .. Len(T), ~Masks(T)[n].fenced
  PROVE  Closed(T[n], Masks(T)[n].in)
<1> DEFINE l == T[n]
           s == Stripped(l)
           b == Masks(T)[n - 1]
<1>1. l \in Lines
  BY DEF Texts
<1>2. b \in Masking /\ Masks(T)[n] = MaskOf(l, b)
  <2>1. n - 1 \in 0 .. Len(T)
    BY DEF Texts
  <2> QED
    BY <2>1, MasksIs
<1>3. s \in Lines /\ Len(s) = Len(l) /\ b.comment \in BOOLEAN
  BY <1>1, <1>2, StrippedIs DEF Masking
<1>4. Masks(T)[n].in = Covered(Commented(s, b.comment))
  <2>1. ~(~b.comment /\ (b.fence \/ IsFence(l)))
    BY <1>2 DEF MaskOf, LineMask
  <2> QED
    BY <2>1, <1>2 DEF MaskOf, LineMask
<1> HIDE DEF l, s, b
<1>5. ASSUME NEW i \in 1 .. Len(l), i \in Masks(T)[n].in, s[i] = "open", i + 1 <= Len(l)
      PROVE  i + 1 \in Masks(T)[n].in
  <2>1. i \in 1 .. Len(s) /\ i + 1 <= Len(s) /\ i \in Covered(Commented(s, b.comment))
    BY <1>3, <1>4, <1>5
  <2> QED
    BY <2>1, <1>3, <1>4, <1>5, CoversNext
<1> QED
  BY <1>5 DEF Closed, l, s

\* The scan and the rewriter find the same links in a text that is cut into
\* links at the same places, raw or masked (link_targets_in, _rewrite_links).
LEMMA SameLinks ==
  ASSUME NEW T \in Texts, ~Swallows(T)
  PROVE  Rewritable(T) = LinksTo(T, "t")
<1>1. ASSUME NEW n, NEW m
      PROVE  RewritableAt(T, n, m) <=> LinkAt(T, n, m) /\ TargetOf(T[n], m) = <<"t">>
  <2>1. CASE n \in DOMAIN T /\ ~Masks(T)[n].fenced
    <3>1. n \in 1 .. Len(T)
      BY <2>1 DEF Texts
    <3>2. T[n] \in Lines /\ Even(T[n])
      BY <3>1, EvenIs
    <3>3. Closed(T[n], Masks(T)[n].in)
      BY <3>1, <2>1, MaskIsClosed
    <3>4. (m \in Matches(Stripped(T[n])) /\ m.target \cap (Masks(T)[n].in \cup Code(T[n])) = {})
           <=> (/\ m \in Matches(T[n])
                /\ ({m.from} \cup m.target) \cap (Masks(T)[n].in \cup Code(T[n])) = {})
      BY <3>2, <3>3, LineAgrees
    <3> QED
      BY <2>1, <3>4 DEF LinkAt, RewritableAt
  <2>2. CASE ~(n \in DOMAIN T /\ ~Masks(T)[n].fenced)
    BY <2>2 DEF LinkAt, RewritableAt
  <2> QED
    BY <2>1, <2>2
<1>2. ASSUME NEW x PROVE x \in Rewritable(T) <=> x \in LinksTo(T, "t")
  BY <1>1, RewritableAre, ToIs
<1> QED
  BY <1>2

----------------------------------------------------------------------------
(* The renamed text has its links where the old one had them.              *)

\* Two lines that differ in names, or in where a markdown link leads.
Alike(l, r) ==
  /\ l \in Lines /\ r \in Lines /\ Len(l) = Len(r)
  /\ \A i \in 1 .. Len(l) :
       \/ r[i] = l[i]
       \/ l[i] = "t" /\ r[i] = "u"
       \/ l[i] = "md" /\ r[i] = "md2"

LEMMA AlikeIs ==
  ASSUME NEW l, NEW r, Alike(l, r)
  PROVE  /\ Len(l) = Len(r) /\ Len(l) \in Nat /\ DOMAIN l = 1 .. Len(l) /\ DOMAIN r = 1 .. Len(l)
         /\ \A i \in 1 .. Len(l) : \A k \in TickRuns \cup {"open", "close", "pipe", "comment", "end"} :
              r[i] = k <=> l[i] = k
         /\ \A i \in 1 .. Len(l) :
              /\ r[i] \in MdLinks <=> l[i] \in MdLinks
              /\ r[i] \in Stops <=> l[i] \in Stops
              /\ r[i] \in TickRuns <=> l[i] \in TickRuns
              /\ l[i] \in TickRuns => r[i] = l[i]
BY DEF Alike, TickRuns, MdLinks, Stops, Lines

LEMMA AlikeCloser ==
  ASSUME NEW l, NEW r, Alike(l, r), NEW i \in 1 .. Len(l), l[i] \in TickRuns
  PROVE  Closer(r, i) = Closer(l, i)
<1>1. ASSUME NEW j \in i + 1 .. Len(l) PROVE r[j] = r[i] <=> l[j] = l[i]
  <2>1. j \in 1 .. Len(l)
    BY AlikeIs
  <2>2. r[i] = l[i]
    BY AlikeIs
  <2> QED
    BY <2>1, <2>2, AlikeIs
<1>2. {j \in i + 1 .. Len(l) : l[j] = l[i]} = {j \in i + 1 .. Len(r) : r[j] = r[i]}
  BY <1>1, AlikeIs
<1> QED
  BY <1>2 DEF Closer

LEMMA AlikeSpanned ==
  ASSUME NEW l, NEW r, Alike(l, r), NEW i \in 1 .. Len(l), NEW was
  PROVE  Spanned(r, i, was) = Spanned(l, i, was)
<1>1. CASE l[i] \in TickRuns
  <2>1. r[i] \in TickRuns /\ Closer(r, i) = Closer(l, i)
    BY <1>1, AlikeCloser, AlikeIs
  <2> QED
    BY <2>1, <1>1 DEF Spanned
<1>2. CASE l[i] \notin TickRuns
  <2>1. r[i] \notin TickRuns
    BY <1>2, AlikeIs
  <2> QED
    BY <2>1, <1>2 DEF Spanned
<1> QED
  BY <1>1, <1>2

LEMMA AlikeCode ==
  ASSUME NEW l, NEW r, Alike(l, r)
  PROVE  Code(r) = Code(l)
<1> DEFINE n == Len(l)
           G == {i \in 0 .. n : Spans(r)[i] = Spans(l)[i]}
<1>1. l \in Lines /\ r \in Lines /\ Len(r) = n /\ n \in Nat
  BY AlikeIs DEF Alike
<1>2. 0 \in G
  <2>1. Spans(l)[0] = Spans(r)[0]
    BY <1>1, SpansIs DEF Lines
  <2> QED
    BY <1>1, <2>1
<1>3. ASSUME NEW i \in 0 + 1 .. n, i - 1 \in G PROVE i \in G
  <2>1. i \in 1 .. n /\ i \in 0 .. n /\ i \in 1 .. Len(r)
    BY <1>1
  <2>2. Spans(l)[i] = Spanned(l, i, Spans(l)[i - 1])
    BY <1>1, <2>1, SpansIs DEF Lines
  <2>3. Spans(r)[i] = Spanned(r, i, Spans(r)[i - 1])
    BY <1>1, <2>1, SpansIs DEF Lines
  <2>4. Spans(r)[i - 1] = Spans(l)[i - 1]
    BY <1>3
  <2>5. Spanned(r, i, Spans(l)[i - 1]) = Spanned(l, i, Spans(l)[i - 1])
    BY <2>1, AlikeSpanned
  <2> QED
    BY <2>1, <2>2, <2>3, <2>4, <2>5
<1> HIDE DEF G
<1>4. \A i \in 0 .. n : i \in G
  BY <1>1, <1>2, <1>3, StepByStep
<1>5. n \in G
  BY <1>1, <1>4
<1> QED
  BY <1>1, <1>5 DEF G, Code

LEMMA AlikeStripped ==
  ASSUME NEW l, NEW r, Alike(l, r)
  PROVE  Alike(Stripped(l), Stripped(r))
<1>1. l \in Lines /\ r \in Lines /\ Len(r) = Len(l)
  BY DEF Alike
<1>2. Code(r) = Code(l)
  BY AlikeCode
<1>3. /\ Stripped(l) \in Lines /\ Len(Stripped(l)) = Len(l)
      /\ \A i \in 1 .. Len(l) :
           /\ i \in Code(l) => Stripped(l)[i] = "nul"
           /\ i \notin Code(l) => Stripped(l)[i] = l[i]
  BY <1>1, StrippedIs
<1>4. /\ Stripped(r) \in Lines /\ Len(Stripped(r)) = Len(l)
      /\ \A i \in 1 .. Len(l) :
           /\ i \in Code(l) => Stripped(r)[i] = "nul"
           /\ i \notin Code(l) => Stripped(r)[i] = r[i]
  BY <1>1, <1>2, StrippedIs
<1> QED
  BY <1>3, <1>4 DEF Alike

LEMMA AlikeCommented ==
  ASSUME NEW l, NEW r, Alike(l, r), NEW b \in BOOLEAN
  PROVE  Commented(r, b) = Commented(l, b)
<1> DEFINE n == Len(l)
           f == Commented(l, b)
           g == Commented(r, b)
           G == {i \in 0 .. n : g[i] = f[i]}
<1>1. l \in Lines /\ r \in Lines /\ Len(r) = n /\ n \in Nat
  BY AlikeIs DEF Alike
<1>2. /\ f \in [0 .. n -> BOOLEAN] /\ f[0] = b
      /\ \A i \in 1 .. n : f[i] = IF f[i - 1] THEN l[i] # "end" ELSE l[i] = "comment"
  BY <1>1, CommentedIs
<1>3. /\ g \in [0 .. n -> BOOLEAN] /\ g[0] = b
      /\ \A i \in 1 .. n : g[i] = IF g[i - 1] THEN r[i] # "end" ELSE r[i] = "comment"
  BY <1>1, CommentedIs
<1>4. \A i \in 1 .. n : (r[i] = "end" <=> l[i] = "end") /\ (r[i] = "comment" <=> l[i] = "comment")
  BY AlikeIs
<1> HIDE DEF f, g
<1>5. 0 \in G
  BY <1>1, <1>2, <1>3
<1>6. ASSUME NEW i \in 0 + 1 .. n, i - 1 \in G PROVE i \in G
  <2>1. i \in 1 .. n /\ i \in 0 .. n /\ g[i - 1] = f[i - 1]
    BY <1>1, <1>6
  <2>2. g[i] = f[i]
    <3>1. CASE f[i - 1]
      <4>1. f[i] = (l[i] # "end") /\ g[i] = (r[i] # "end")
        BY <3>1, <2>1, <1>2, <1>3
      <4> QED
        BY <4>1, <2>1, <1>4
    <3>2. CASE ~f[i - 1]
      <4>1. f[i] = (l[i] = "comment") /\ g[i] = (r[i] = "comment")
        BY <3>2, <2>1, <1>2, <1>3
      <4> QED
        BY <4>1, <2>1, <1>4
    <3> QED
      BY <3>1, <3>2
  <2> QED
    BY <2>1, <2>2
<1> HIDE DEF G
<1>7. \A i \in 0 .. n : i \in G
  BY <1>1, <1>5, <1>6, StepByStep
<1>8. \A i \in 0 .. n : g[i] = f[i]
  BY <1>7 DEF G
<1>9. g = f
  BY <1>2, <1>3, <1>8
<1> QED
  BY <1>9 DEF f, g

LEMMA AlikeFence ==
  ASSUME NEW l, NEW r, Alike(l, r)
  PROVE  IsFence(r) <=> IsFence(l)
<1>1. ASSUME NEW x \in Lines PROVE IsFence(x) <=> Len(x) = 1 /\ x[1] = "tick3"
  BY DEF IsFence, FenceLine, Lines
<1>2. Len(l) = 1 => (r[1] = "tick3" <=> l[1] = "tick3")
  <2>1. "tick3" \in TickRuns
    BY DEF TickRuns
  <2> QED
    BY <2>1, AlikeIs
<1>3. l \in Lines /\ r \in Lines /\ Len(r) = Len(l)
  BY DEF Alike
<1> QED
  BY <1>1, <1>2, <1>3

LEMMA AlikeMask ==
  ASSUME NEW l, NEW r, Alike(l, r), NEW b \in Masking
  PROVE  MaskOf(r, b) = MaskOf(l, b)
<1>1. Commented(Stripped(r), b.comment) = Commented(Stripped(l), b.comment)
  <2>1. b.comment \in BOOLEAN
    BY DEF Masking
  <2> QED
    BY <2>1, AlikeStripped, AlikeCommented
<1>2. (IsFence(r) <=> IsFence(l)) /\ Len(r) = Len(l)
  BY AlikeFence DEF Alike
<1>3. IsFence(r) = IsFence(l)
  BY <1>2 DEF IsFence
<1> QED
  BY <1>1, <1>2, <1>3 DEF MaskOf, LineMask

AlikeTexts(T, U) ==
  /\ T \in Texts /\ U \in Texts /\ Len(U) = Len(T)
  /\ \A n \in 1 .. Len(T) : Alike(T[n], U[n])

LEMMA AlikeMasks ==
  ASSUME NEW T, NEW U, AlikeTexts(T, U)
  PROVE  \A n \in 0 .. Len(T) : Masks(U)[n] = Masks(T)[n]
<1> DEFINE k == Len(T)
           G == {i \in 0 .. k : Masks(U)[i] = Masks(T)[i]}
<1>1. T \in Texts /\ U \in Texts /\ Len(U) = k /\ k \in Nat
  BY DEF AlikeTexts, Texts
<1>2. 0 \in G
  <2>1. Masks(U)[0] = Masks(T)[0]
    BY <1>1, MasksIs
  <2> QED
    BY <1>1, <2>1
<1>3. ASSUME NEW i \in 0 + 1 .. k, i - 1 \in G PROVE i \in G
  <2>1. i \in 1 .. k /\ i \in 0 .. k /\ i \in 1 .. Len(U) /\ i - 1 \in 0 .. k
    BY <1>1
  <2>2. Masks(T)[i] = MaskOf(T[i], Masks(T)[i - 1]) /\ Masks(T)[i - 1] \in Masking
    BY <1>1, <2>1, MasksIs
  <2>3. Masks(U)[i] = MaskOf(U[i], Masks(U)[i - 1])
    BY <1>1, <2>1, MasksIs
  <2>4. Masks(U)[i - 1] = Masks(T)[i - 1]
    BY <1>3
  <2>5. Alike(T[i], U[i])
    BY <2>1 DEF AlikeTexts
  <2>6. MaskOf(U[i], Masks(T)[i - 1]) = MaskOf(T[i], Masks(T)[i - 1])
    BY <2>2, <2>5, AlikeMask
  <2> QED
    BY <2>1, <2>2, <2>3, <2>4, <2>6
<1> HIDE DEF G
<1>4. \A i \in 0 .. k : i \in G
  BY <1>1, <1>2, <1>3, StepByStep
<1> QED
  BY <1>4 DEF G

LEMMA AlikeWiki ==
  ASSUME NEW l, NEW r, Alike(l, r), NEW i \in 1 .. Len(l)
  PROVE  WikiAt(r, i) = WikiAt(l, i)
<1>1. Len(r) = Len(l) /\ Len(l) \in Nat /\ (r[i] = "open" <=> l[i] = "open")
  BY AlikeIs
<1>2. WikiStops(r, i) = WikiStops(l, i)
  <2>1. ASSUME NEW j \in i + 1 .. Len(l) PROVE r[j] \in Stops <=> l[j] \in Stops
    <3>1. j \in 1 .. Len(l)
      BY <1>1
    <3> QED
      BY <3>1, AlikeIs
  <2> QED
    BY <2>1, <1>1 DEF WikiStops
<1> DEFINE S == WikiStops(l, i)
           stop == Min(S)
<1>3. CASE S = {}
  BY <1>2, <1>3 DEF WikiAt, WikiStops
<1>4. CASE S # {}
  <2>1. stop \in S /\ S \in SUBSET Nat
    <3>1. S \in SUBSET Nat
      BY <1>1 DEF WikiStops
    <3> HIDE DEF S
    <3> QED
      BY <3>1, <1>4, MinIs
  <2>2. stop \in 1 .. Len(l)
    <3> HIDE DEF stop
    <3> QED
      BY <2>1, <1>1 DEF WikiStops
  <2>3. r[stop] \in MdLinks <=> l[stop] \in MdLinks
    BY <2>2, AlikeIs
  <2>4. WikiEnds(r, stop) = WikiEnds(l, stop)
    <3> HIDE DEF stop
    <3>1. ASSUME NEW j \in stop .. Len(l) PROVE r[j] = "close" <=> l[j] = "close"
      <4>1. j \in 1 .. Len(l)
        BY <2>2, <1>1
      <4> QED
        BY <4>1, AlikeIs
    <3> QED
      BY <3>1, <1>1 DEF WikiEnds
  <2>5. WikiAt(l, i) = IF /\ l[i] = "open" /\ S # {} /\ stop # i + 1
                          /\ l[stop] \notin MdLinks /\ WikiEnds(l, stop) # {}
                       THEN {Wiki(i, stop, Min(WikiEnds(l, stop)))} ELSE {}
    BY DEF WikiAt, Wiki, WikiStops, WikiEnds
  <2>6. WikiAt(r, i) = IF /\ r[i] = "open" /\ S # {} /\ stop # i + 1
                          /\ r[stop] \notin MdLinks /\ WikiEnds(r, stop) # {}
                       THEN {Wiki(i, stop, Min(WikiEnds(r, stop)))} ELSE {}
    <3>1. WikiAt(r, i) = LET x == Min(WikiStops(r, i)) IN
                         IF /\ r[i] = "open" /\ WikiStops(r, i) # {} /\ x # i + 1
                            /\ r[x] \notin MdLinks /\ WikiEnds(r, x) # {}
                         THEN {Wiki(i, x, Min(WikiEnds(r, x)))} ELSE {}
      BY DEF WikiAt, Wiki, WikiStops, WikiEnds
    <3> QED
      BY <3>1, <1>2
  <2> HIDE DEF S, stop
  <2> QED
    BY <2>3, <2>4, <2>5, <2>6, <1>1
<1> QED
  BY <1>3, <1>4

LEMMA AlikeWikis ==
  ASSUME NEW l, NEW r, Alike(l, r)
  PROVE  Wikis(r) = Wikis(l)
<1> DEFINE n == Len(l)
           G == {i \in 0 .. n : Search(r)[i] = Search(l)[i]}
<1>1. l \in Lines /\ r \in Lines /\ Len(r) = n /\ n \in Nat
  BY AlikeIs DEF Alike
<1>2. 0 \in G
  <2>1. Search(l)[0] = Search(r)[0]
    BY <1>1, SearchIs
  <2> QED
    BY <1>1, <2>1
<1>3. ASSUME NEW i \in 0 + 1 .. n, i - 1 \in G PROVE i \in G
  <2>1. i \in 1 .. n /\ i \in 0 .. n /\ i \in 1 .. Len(r)
    BY <1>1
  <2>2. Search(l)[i] = Sought(l, i, Search(l)[i - 1])
    BY <1>1, <2>1, SearchIs
  <2>3. Search(r)[i] = Sought(r, i, Search(r)[i - 1])
    BY <1>1, <2>1, SearchIs
  <2>4. Search(r)[i - 1] = Search(l)[i - 1]
    BY <1>3
  <2>5. WikiAt(r, i) = WikiAt(l, i)
    BY <2>1, AlikeWiki
  <2>6. Sought(r, i, Search(l)[i - 1]) = Sought(l, i, Search(l)[i - 1])
    BY <2>5 DEF Sought
  <2> QED
    BY <2>1, <2>2, <2>3, <2>4, <2>6
<1> HIDE DEF G
<1>4. \A i \in 0 .. n : i \in G
  BY <1>1, <1>2, <1>3, StepByStep
<1>5. n \in G
  BY <1>1, <1>4
<1> QED
  BY <1>1, <1>5 DEF G, Wikis

LEMMA AlikeMatches ==
  ASSUME NEW l, NEW r, Alike(l, r)
  PROVE  Matches(r) = Matches(l)
<1>1. {j \in DOMAIN r : r[j] \in MdLinks} = {j \in DOMAIN l : l[j] \in MdLinks}
  BY AlikeIs
<1>2. MdAt(r) = MdAt(l)
  BY <1>1 DEF MdAt
<1> QED
  BY <1>2, AlikeWikis DEF Matches

LEMMA AlikeLinks ==
  ASSUME NEW T, NEW U, AlikeTexts(T, U)
  PROVE  Links(U) = Links(T)
<1>1. ASSUME NEW n, NEW m PROVE LinkAt(U, n, m) <=> LinkAt(T, n, m)
  <2>1. DOMAIN T = 1 .. Len(T) /\ DOMAIN U = 1 .. Len(T)
    BY DEF AlikeTexts, Texts
  <2>2. CASE n \in 1 .. Len(T)
    <3>1. n \in 0 .. Len(T)
      BY <2>2
    <3>2. Masks(U)[n] = Masks(T)[n]
      BY <3>1, AlikeMasks
    <3>3. Alike(T[n], U[n])
      BY <2>2 DEF AlikeTexts
    <3>4. Matches(Stripped(U[n])) = Matches(Stripped(T[n])) /\ Code(U[n]) = Code(T[n])
      BY <3>3, AlikeStripped, AlikeMatches, AlikeCode
    <3> QED
      BY <2>1, <2>2, <3>2, <3>4 DEF LinkAt
  <2>3. CASE n \notin 1 .. Len(T)
    BY <2>1, <2>3 DEF LinkAt
  <2> QED
    BY <2>2, <2>3
<1>2. ASSUME NEW x PROVE x \in Links(U) <=> x \in Links(T)
  BY <1>1, LinksAre
<1> QED
  BY <1>2

\* The names that rename writes.
Renamed(x) == IF x = "md" THEN "md2" ELSE "u"

LEMMA TargetIs ==
  ASSUME NEW l \in Lines, NEW m \in Matches(l) \cup Matches(Stripped(l)),
         TargetOf(l, m) = <<"t">>
  PROVE  /\ m.kind \in {"md", "wiki"}
         /\ m.from \in 1 .. Len(l)
         /\ m.kind = "md" => m.target = {m.from} /\ l[m.from] = "md"
         /\ m.kind = "wiki" => /\ m.from + 1 \in 1 .. Len(l) /\ m.target = {m.from + 1}
                               /\ l[m.from + 1] = "t"
<1> DEFINE s == Stripped(l)
<1>1. s \in Lines /\ Len(s) = Len(l) /\ Len(l) \in Nat
  BY StrippedIs
<1>2. PICK k \in {l, s} : m \in Matches(k)
  OBVIOUS
<1>3. k \in Lines /\ Len(k) = Len(l)
  BY <1>1, <1>2
<1> HIDE DEF s
<1>4. CASE m \in MdAt(k)
  <2>1. m.from \in 1 .. Len(l) /\ m.kind = "md" /\ m.target = {m.from}
    BY <1>3, <1>4, MdIs
  <2>2. TargetOf(l, m) = IF l[m.from] = "md" THEN <<"t">> ELSE <<"u">>
    BY <2>1 DEF TargetOf
  <2>3. <<"u">> # <<"t">>
    OBVIOUS
  <2> QED
    BY <2>1, <2>2, <2>3
<1>5. CASE m \in Wikis(k)
  <2>1. m.from \in 1 .. Len(k) /\ m \in WikiAt(k, m.from) /\ m.kind = "wiki"
    BY <1>3, <1>5, FoundIs, WikiKind
  <2> DEFINE i == m.from
  <2>2. PICK stop, to : WikiShape(k, i, stop, to) /\ m = Wiki(i, stop, to)
    BY <2>1, <1>3, WikiIs
  <2>3. i \in 1 .. Len(l) /\ stop \in i + 2 .. Len(l) /\ m.target = i + 1 .. stop - 1
    BY <2>1, <2>2, <1>3 DEF WikiShape, Wiki
  <2> HIDE DEF i
  <2> DEFINE a == i + 1
             z == stop - 1
  <2>4. a \in 1 .. Len(l) /\ z \in a .. Len(l)
    BY <1>1, <2>3
  <2>5. Min(m.target) = a
    <3>1. m.target \in SUBSET Nat /\ a \in m.target /\ \A y \in m.target : a <= y
      BY <2>3, <2>4, <1>1
    <3> HIDE DEF a
    <3> QED
      BY <3>1, MinIsThat
  <2>6. Max(m.target) = z
    <3>1. \A y \in m.target : y <= z
      BY <2>3, <2>4, <1>1
    <3>2. z \in m.target /\ m.target \in SUBSET Int
      BY <2>3, <2>4, <1>1
    <3> HIDE DEF z
    <3>3. \A x \in m.target : (\A y \in m.target : y <= x) => x = z
      BY <3>1, <3>2
    <3> QED
      BY <3>1, <3>2, <3>3 DEF Max
  <2>7. SubSeq(l, a, z) = <<"t">>
    BY <2>1, <2>5, <2>6 DEF TargetOf
  <2> HIDE DEF a, z
  <2>8. Len(SubSeq(l, a, z)) = z - a + 1 /\ SubSeq(l, a, z)[1] = l[a]
    BY <2>4, <1>1, SubSeqProperties DEF Lines
  <2>9. z = a /\ l[a] = "t"
    BY <2>7, <2>8, <2>4, <1>1
  <2>10. m.target = {a}
    BY <2>3, <2>9, <2>4, <1>1 DEF a, z
  <2> QED
    BY <2>1, <2>3, <2>4, <2>9, <2>10, <1>3 DEF a, i
<1> QED
  BY <1>2, <1>4, <1>5 DEF Matches, s

----------------------------------------------------------------------------
(* Where the links to the note are.                                        *)

\* Where the target of a link to the note is.
Place(x) == <<x[1], IF x[2].kind = "md" THEN x[2].from ELSE x[2].from + 1>>
Places(T) == UNION {{n} \X (1 .. Len(T[n])) : n \in 1 .. Len(T)}

LEMMA PlacesAreFinite ==
  ASSUME NEW T \in Texts
  PROVE  IsFiniteSet(Places(T))
<1> DEFINE k == Len(T)
           f == [n \in 1 .. k |-> {n} \X (1 .. Len(T[n]))]
           S == {f[n] : n \in 1 .. k}
<1>1. k \in Nat /\ \A n \in 1 .. k : Len(T[n]) \in Nat
  <2>1. \A n \in 1 .. k : T[n] \in Lines
    BY DEF Texts
  <2> QED
    BY <2>1 DEF Texts, Lines
<1>2. IsFiniteSet(1 .. k)
  BY <1>1, FS_Interval
<1>3. f \in Surjection(1 .. k, S)
  BY DEF Surjection
<1>4. IsFiniteSet(S)
  <2> HIDE DEF f, S
  <2> QED
    BY <1>2, <1>3, FS_Surjection
<1>5. \A x \in S : IsFiniteSet(x)
  <2>1. ASSUME NEW n \in 1 .. k PROVE IsFiniteSet(f[n])
    <3> DEFINE z == Len(T[n])
    <3>0. z \in Int /\ 1 \in Int
      BY <1>1
    <3> HIDE DEF z
    <3>1. IsFiniteSet(1 .. z)
      BY <3>0, FS_Interval
    <3>2. IsFiniteSet({n})
      BY FS_Singleton
    <3>3. IsFiniteSet({n} \X (1 .. z))
      BY <3>1, <3>2, FS_Product
    <3> QED
      BY <3>3 DEF z
  <2> HIDE DEF f
  <2> QED
    BY <2>1
<1>6. IsFiniteSet(UNION S)
  <2> HIDE DEF S
  <2> QED
    BY <1>4, <1>5, FS_UNION
<1>7. UNION S = Places(T)
  BY DEF Places
<1> QED
  BY <1>6, <1>7

\* A match is known by its kind and where it begins.
LEMMA MatchOnce ==
  ASSUME NEW l \in Lines, NEW m \in Matches(l), NEW k \in Matches(l),
         m.kind = k.kind, m.from = k.from
  PROVE  m = k
<1>1. CASE m \in MdAt(l)
  <2>1. m = [kind |-> "md", from |-> m.from, to |-> m.from, target |-> {m.from}]
    BY <1>1, MdIs
  <2>2. k \notin Wikis(l)
    <3>1. m.kind = "md"
      BY <1>1, MdIs
    <3> QED
      BY <3>1, WikiKind
  <2>3. k = [kind |-> "md", from |-> k.from, to |-> k.from, target |-> {k.from}]
    BY <2>2, MdIs DEF Matches
  <2> QED
    BY <2>1, <2>3
<1>2. CASE m \in Wikis(l)
  <2>1. m.kind = "wiki" /\ m \in WikiAt(l, m.from)
    BY <1>2, WikiKind, FoundIs
  <2>2. k \in Wikis(l)
    <3>1. k \in MdAt(l) => k.kind = "md"
      BY MdIs
    <3> QED
      BY <3>1, <2>1 DEF Matches
  <2>3. k \in WikiAt(l, k.from)
    BY <2>2, FoundIs
  <2>4. WikiAt(l, m.from) = {m}
    BY <2>1, WikiOnce
  <2> QED
    BY <2>3, <2>4
<1> QED
  BY <1>1, <1>2 DEF Matches

\* A link to the note, as the scan or the rewriter finds it.
LEMMA ToPlace ==
  ASSUME NEW T \in Texts, NEW x \in LinksTo(T, "t")
  PROVE  /\ x = <<x[1], x[2]>> /\ LinkAt(T, x[1], x[2])
         /\ x[1] \in 1 .. Len(T) /\ T[x[1]] \in Lines
         /\ x[2] \in Matches(Stripped(T[x[1]])) /\ TargetOf(T[x[1]], x[2]) = <<"t">>
         /\ Place(x) \in Places(T) /\ x[2].target = {Place(x)[2]}
         /\ T[x[1]][Place(x)[2]] = IF x[2].kind = "md" THEN "md" ELSE "t"
         /\ x[2].kind \in {"md", "wiki"} /\ x[2].from \in Nat
<1>1. PICK n, m : x = <<n, m>> /\ LinkAt(T, n, m) /\ TargetOf(T[n], m) = <<"t">>
  BY ToIs
<1>2. n \in 1 .. Len(T) /\ T[n] \in Lines /\ m \in Matches(Stripped(T[n]))
  BY <1>1 DEF LinkAt, Texts
<1>3. /\ m.kind \in {"md", "wiki"}
      /\ m.from \in 1 .. Len(T[n])
      /\ m.kind = "md" => m.target = {m.from} /\ T[n][m.from] = "md"
      /\ m.kind = "wiki" => /\ m.from + 1 \in 1 .. Len(T[n]) /\ m.target = {m.from + 1}
                            /\ T[n][m.from + 1] = "t"
  BY <1>1, <1>2, TargetIs
<1> DEFINE p == IF m.kind = "md" THEN m.from ELSE m.from + 1
<1>4. /\ p \in 1 .. Len(T[n]) /\ m.target = {p}
      /\ T[n][p] = IF m.kind = "md" THEN "md" ELSE "t"
  BY <1>3
<1>5. Place(x) = <<n, p>> /\ x[1] = n /\ x[2] = m
  BY <1>1 DEF Place
<1> HIDE DEF p
<1>6. Place(x) \in Places(T)
  BY <1>2, <1>4, <1>5 DEF Places
<1> QED
  BY <1>1, <1>2, <1>3, <1>4, <1>5, <1>6

LEMMA RewritablePlace ==
  ASSUME NEW T \in Texts, NEW x \in Rewritable(T)
  PROVE  /\ x = <<x[1], x[2]>> /\ RewritableAt(T, x[1], x[2])
         /\ x[1] \in 1 .. Len(T) /\ T[x[1]] \in Lines
         /\ x[2] \in Matches(T[x[1]])
         /\ Place(x) \in Places(T) /\ x[2].target = {Place(x)[2]}
         /\ T[x[1]][Place(x)[2]] = IF x[2].kind = "md" THEN "md" ELSE "t"
         /\ x[2].kind \in {"md", "wiki"} /\ x[2].from \in Nat
<1>1. PICK n, m : x = <<n, m>> /\ RewritableAt(T, n, m)
  BY RewritableAre
<1>2. /\ n \in 1 .. Len(T) /\ T[n] \in Lines /\ m \in Matches(T[n])
      /\ TargetOf(T[n], m) = <<"t">>
  BY <1>1 DEF RewritableAt, Texts
<1>3. /\ m.kind \in {"md", "wiki"}
      /\ m.from \in 1 .. Len(T[n])
      /\ m.kind = "md" => m.target = {m.from} /\ T[n][m.from] = "md"
      /\ m.kind = "wiki" => /\ m.from + 1 \in 1 .. Len(T[n]) /\ m.target = {m.from + 1}
                            /\ T[n][m.from + 1] = "t"
  BY <1>2, TargetIs
<1> DEFINE p == IF m.kind = "md" THEN m.from ELSE m.from + 1
<1>4. /\ p \in 1 .. Len(T[n]) /\ m.target = {p}
      /\ T[n][p] = IF m.kind = "md" THEN "md" ELSE "t"
  BY <1>3
<1>5. Place(x) = <<n, p>> /\ x[1] = n /\ x[2] = m
  BY <1>1 DEF Place
<1> HIDE DEF p
<1>6. Place(x) \in Places(T)
  BY <1>2, <1>4, <1>5 DEF Places
<1> QED
  BY <1>1, <1>2, <1>3, <1>4, <1>5, <1>6

LEMMA SamePlace ==
  ASSUME NEW x, NEW y, Place(x) = Place(y), x[2].kind = y[2].kind,
         x[2].kind \in {"md", "wiki"}, x[2].from \in Nat, y[2].from \in Nat
  PROVE  x[1] = y[1] /\ x[2].from = y[2].from
BY DEF Place

LEMMA ToOnce ==
  ASSUME NEW T \in Texts, NEW x \in LinksTo(T, "t"), NEW y \in LinksTo(T, "t"),
         Place(x) = Place(y)
  PROVE  x = y
<1>1. x[1] = y[1]
  BY DEF Place
<1>2. x[2].kind = y[2].kind
  <2>1. /\ T[x[1]][Place(x)[2]] = IF x[2].kind = "md" THEN "md" ELSE "t"
        /\ T[y[1]][Place(y)[2]] = IF y[2].kind = "md" THEN "md" ELSE "t"
        /\ x[2].kind \in {"md", "wiki"} /\ y[2].kind \in {"md", "wiki"}
    BY ToPlace
  <2> QED
    BY <2>1, <1>1
<1>3. x[2].from = y[2].from
  BY <1>2, ToPlace, SamePlace
<1>4. /\ Stripped(T[x[1]]) \in Lines /\ x[2] \in Matches(Stripped(T[x[1]]))
      /\ y[2] \in Matches(Stripped(T[x[1]]))
  BY <1>1, ToPlace, StrippedIs
<1>5. x[2] = y[2]
  BY <1>2, <1>3, <1>4, MatchOnce
<1> QED
  BY <1>1, <1>5, ToPlace

LEMMA RewritableOnce ==
  ASSUME NEW T \in Texts, NEW x \in Rewritable(T), NEW y \in Rewritable(T),
         Place(x) = Place(y)
  PROVE  x = y
<1>1. x[1] = y[1]
  BY DEF Place
<1>2. x[2].kind = y[2].kind
  <2>1. /\ T[x[1]][Place(x)[2]] = IF x[2].kind = "md" THEN "md" ELSE "t"
        /\ T[y[1]][Place(y)[2]] = IF y[2].kind = "md" THEN "md" ELSE "t"
        /\ x[2].kind \in {"md", "wiki"} /\ y[2].kind \in {"md", "wiki"}
    BY RewritablePlace
  <2> QED
    BY <2>1, <1>1
<1>3. x[2].from = y[2].from
  BY <1>2, RewritablePlace, SamePlace
<1>4. /\ T[x[1]] \in Lines /\ x[2] \in Matches(T[x[1]]) /\ y[2] \in Matches(T[x[1]])
  BY <1>1, RewritablePlace
<1>5. x[2] = y[2]
  BY <1>2, <1>3, <1>4, MatchOnce
<1> QED
  BY <1>1, <1>5, RewritablePlace

LEMMA RewritableIsFinite ==
  ASSUME NEW T \in Texts
  PROVE  IsFiniteSet(Rewritable(T))
<1> DEFINE f == [x \in Rewritable(T) |-> Place(x)]
<1>1. f \in [Rewritable(T) -> Places(T)]
  BY RewritablePlace
<1>2. f \in Injection(Rewritable(T), Places(T))
  BY <1>1, RewritableOnce DEF Injection, IsInjective
<1> QED
  BY <1>2, PlacesAreFinite, FS_Injection

----------------------------------------------------------------------------
(* The replacements, from right to left.                                   *)

\* A match lies in its line, and its target in it.
LEMMA SpanIs ==
  ASSUME NEW l \in Lines, NEW m \in Matches(l)
  PROVE  /\ m.from \in 1 .. Len(l) /\ m.to \in m.from .. Len(l)
         /\ m.target \subseteq m.from .. m.to
<1>1. CASE m \in MdAt(l)
  <2>1. m.from \in 1 .. Len(l) /\ m.to = m.from /\ m.target = {m.from} /\ Len(l) \in Nat
    BY <1>1, MdIs DEF Lines
  <2> QED
    BY <2>1
<1>2. CASE m \in Wikis(l)
  <2>1. m.from \in 1 .. Len(l) /\ m \in WikiAt(l, m.from) /\ Len(l) \in Nat
    BY <1>2, FoundIs DEF Lines
  <2>2. PICK stop, to : WikiShape(l, m.from, stop, to) /\ m = Wiki(m.from, stop, to)
    BY <2>1, WikiIs
  <2>3. stop \in m.from + 2 .. Len(l) /\ to \in stop .. Len(l)
    BY <2>2 DEF WikiShape
  <2>4. m.to = to /\ m.target = m.from + 1 .. stop - 1
    BY <2>2 DEF Wiki
  <2> QED
    BY <2>1, <2>3, <2>4
<1> QED
  BY <1>1, <1>2 DEF Matches

\* Token i of line l where the matches of F that begin after a are replaced.
NewToken(l, F, a, i) ==
  IF \E m \in F : m.from > a /\ i \in m.target THEN Renamed(l[i]) ELSE l[i]

NewLine(l, F, a) == [i \in 1 .. Len(l) |-> NewToken(l, F, a, i)]

LEMMA NewLineIs ==
  ASSUME NEW l \in Lines, NEW F, NEW a
  PROVE  /\ NewLine(l, F, a) \in Lines /\ Len(NewLine(l, F, a)) = Len(l)
         /\ \A i \in 1 .. Len(l) : NewLine(l, F, a)[i] = NewToken(l, F, a, i)
<1> DEFINE r == NewLine(l, F, a)
<1>1. \A i \in 1 .. Len(l) : l[i] \in Tokens /\ Renamed(l[i]) \in Tokens
  BY DEF Lines, Renamed, Tokens
<1>2. \A i \in 1 .. Len(l) : NewToken(l, F, a, i) \in Tokens
  BY <1>1 DEF NewToken
<1>3. r \in [1 .. Len(l) -> Tokens] /\ Len(l) \in Nat
  BY <1>2 DEF NewLine, Lines
<1>4. \A i \in 1 .. Len(l) : r[i] = NewToken(l, F, a, i)
  BY DEF NewLine
<1> HIDE DEF r
<1>5. r \in Seq(Tokens)
  BY <1>3, SeqDef
<1> QED
  BY <1>3, <1>4, <1>5, LenProperties DEF r, Lines

LEMMA ReplacementIs ==
  ASSUME NEW l \in Lines, NEW m \in Matches(l)
  PROVE  /\ Replacement(l, m) \in Lines /\ Len(Replacement(l, m)) = m.to - m.from + 1
         /\ \A k \in 1 .. m.to - m.from + 1 :
              Replacement(l, m)[k] =
                IF m.from + k - 1 \in m.target THEN Renamed(l[m.from + k - 1])
                ELSE l[m.from + k - 1]
<1> DEFINE r == Replacement(l, m)
           c == m.to - m.from + 1
           N(i) == IF i \in m.target THEN Renamed(l[i]) ELSE l[i]
<1>1. /\ m.from \in 1 .. Len(l) /\ m.to \in m.from .. Len(l) /\ Len(l) \in Nat
      /\ \A i \in 1 .. Len(l) : l[i] \in Tokens
  BY SpanIs DEF Lines
<1>2. c \in Nat
  BY <1>1
<1>3. r = [k \in 1 .. c |-> N(m.from + k - 1)]
  BY DEF Replacement, Renamed
<1>4. \A i \in 1 .. Len(l) : N(i) \in Tokens
  BY <1>1 DEF Renamed, Tokens
<1>5. \A k \in 1 .. c : m.from + k - 1 \in 1 .. Len(l)
  BY <1>1
<1> HIDE DEF r
<1>6. r \in [1 .. c -> Tokens] /\ \A k \in 1 .. c : r[k] = N(m.from + k - 1)
  <2> HIDE DEF N, c
  <2> QED
    BY <1>3, <1>4, <1>5
<1>7. r \in Seq(Tokens) /\ Len(r) = c
  <2> HIDE DEF N, c
  <2> QED
    BY <1>2, <1>6, SeqDef, LenProperties
<1> QED
  BY <1>6, <1>7 DEF r, Lines

\* The shape of a line with one match replaced: what comes before the match,
\* the replacement, and what comes after to.
Around(w, m, r, to) == SubSeq(w, 1, m.from - 1) \o r \o SubSeq(w, to + 1, Len(w))

IsAround(v, w, m, r, to) ==
  /\ v \in Lines
  /\ Len(v) = m.from - 1 + Len(r) + (IF to + 1 <= Len(w) THEN Len(w) - to ELSE 0)
  /\ \A i \in 1 .. Len(v) :
       v[i] = IF i < m.from THEN w[i]
              ELSE IF i < m.from + Len(r) THEN r[i - (m.from - 1)]
              ELSE w[to + (i - (m.from - 1) - Len(r))]

LEMMA AroundIs ==
  ASSUME NEW w \in Lines, NEW m, NEW r \in Lines, NEW to \in Nat,
         m.from \in Nat \ {0}, m.from - 1 <= Len(w)
  PROVE  IsAround(Around(w, m, r, to), w, m, r, to)
<1> DEFINE a == m.from - 1
           x == SubSeq(w, 1, a)
           y == SubSeq(w, to + 1, Len(w))
           c == IF to + 1 <= Len(w) THEN Len(w) - to ELSE 0
<1>1. /\ a \in Nat /\ a <= Len(w) /\ Len(w) \in Nat /\ Len(r) \in Nat /\ c \in Nat
      /\ m.from = a + 1
      /\ \A i \in 1 .. Len(w) : w[i] \in Tokens
  BY DEF Lines
<1> HIDE DEF a
<1>2. x \in Lines /\ Len(x) = a /\ \A i \in 1 .. a : x[i] = w[i]
  <2>1. \A i \in 1 .. a : w[i] \in Tokens
    BY <1>1
  <2>2. /\ x \in Seq(Tokens) /\ Len(x) = IF 1 <= a THEN a - 1 + 1 ELSE 0
        /\ \A i \in 1 .. a - 1 + 1 : x[i] = w[1 + i - 1]
    BY <1>1, <2>1, SubSeqProperties
  <2> HIDE DEF x
  <2> QED
    BY <1>1, <2>2 DEF Lines
<1>3. y \in Lines /\ Len(y) = c /\ \A i \in 1 .. c : y[i] = w[to + i]
  <2> DEFINE b == to + 1
             n == Len(w)
  <2>0. b \in Nat \ {0} /\ n \in Nat /\ b = to + 1 /\ \A i \in 1 .. n : w[i] \in Tokens
    BY <1>1
  <2>1. y = SubSeq(w, b, n)
    OBVIOUS
  <2> HIDE DEF b, n, y
  <2>2. \A i \in b .. n : w[i] \in Tokens
    BY <2>0
  <2>3. /\ y \in Seq(Tokens) /\ Len(y) = IF b <= n THEN n - b + 1 ELSE 0
        /\ \A i \in 1 .. n - b + 1 : y[i] = w[b + i - 1]
    BY <2>0, <2>1, <2>2, SubSeqProperties
  <2>4. c = IF b <= n THEN n - b + 1 ELSE 0
    BY <2>0 DEF n
  <2> HIDE DEF c
  <2>5. \A i \in 1 .. c : y[i] = w[to + i]
    <3>1. ASSUME NEW i \in 1 .. c PROVE y[i] = w[to + i]
      <4>1. i \in 1 .. n - b + 1 /\ b + i - 1 = to + i
        BY <2>0, <2>4, <3>1
      <4> QED
        BY <4>1, <2>3
    <3> QED
      BY <3>1
  <2> QED
    BY <2>3, <2>4, <2>5 DEF Lines
<1> DEFINE xr == x \o r
           z == xr \o y
<1>4. Around(w, m, r, to) = z
  BY DEF Around, a
<1> HIDE DEF x, y, c
<1>5. /\ xr \in Lines /\ Len(xr) = a + Len(r)
      /\ \A i \in 1 .. a + Len(r) : xr[i] = IF i <= a THEN w[i] ELSE r[i - a]
  <2>1. /\ xr \in Seq(Tokens) /\ Len(xr) = Len(x) + Len(r)
        /\ \A i \in 1 .. Len(x) + Len(r) : xr[i] = IF i <= Len(x) THEN x[i] ELSE r[i - Len(x)]
    BY <1>2, ConcatProperties DEF Lines
  <2> HIDE DEF xr
  <2> QED
    BY <1>1, <1>2, <2>1 DEF Lines
<1> HIDE DEF xr
<1>6. /\ z \in Lines /\ Len(z) = a + Len(r) + c
      /\ \A i \in 1 .. a + Len(r) + c : z[i] = IF i <= a + Len(r) THEN xr[i] ELSE y[i - (a + Len(r))]
  <2>1. /\ z \in Seq(Tokens) /\ Len(z) = Len(xr) + Len(y)
        /\ \A i \in 1 .. Len(xr) + Len(y) : z[i] = IF i <= Len(xr) THEN xr[i] ELSE y[i - Len(xr)]
    <3>1. xr \in Seq(Tokens) /\ y \in Seq(Tokens)
      BY <1>3, <1>5 DEF Lines
    <3> QED
      BY <3>1, ConcatProperties
  <2> HIDE DEF z
  <2> QED
    BY <1>1, <1>3, <1>5, <2>1 DEF Lines
<1> HIDE DEF z
<1>7. ASSUME NEW i \in 1 .. Len(z)
      PROVE  z[i] = IF i < m.from THEN w[i]
                    ELSE IF i < m.from + Len(r) THEN r[i - (m.from - 1)]
                    ELSE w[to + (i - (m.from - 1) - Len(r))]
  <2>0. i \in 1 .. a + Len(r) + c /\ m.from - 1 = a
    BY <1>1, <1>6
  <2>1. CASE i <= a + Len(r)
    <3>1. i \in 1 .. a + Len(r) /\ z[i] = xr[i]
      BY <1>1, <1>6, <2>0, <2>1
    <3>2. CASE i <= a
      <4>1. i < m.from /\ z[i] = w[i]
        BY <1>1, <1>5, <3>1, <3>2
      <4> QED
        BY <4>1
    <3>3. CASE ~(i <= a)
      <4>1. ~(i < m.from) /\ i < m.from + Len(r) /\ i - (m.from - 1) = i - a
        BY <1>1, <2>0, <2>1, <3>3
      <4>2. z[i] = r[i - a]
        BY <1>5, <3>1, <3>3
      <4> QED
        BY <4>1, <4>2
    <3> QED
      BY <3>2, <3>3
  <2>2. CASE ~(i <= a + Len(r))
    <3>1. z[i] = y[i - (a + Len(r))] /\ i - (a + Len(r)) \in 1 .. c
      BY <1>1, <1>6, <2>0, <2>2
    <3>2. z[i] = w[to + (i - (a + Len(r)))]
      BY <1>3, <3>1
    <3>3. i - (a + Len(r)) = i - (m.from - 1) - Len(r)
      BY <1>1, <2>0
    <3> QED
      BY <1>1, <2>0, <2>2, <3>2, <3>3
  <2> QED
    BY <2>1, <2>2
<1>8. Len(z) = m.from - 1 + Len(r) + (IF to + 1 <= Len(w) THEN Len(w) - to ELSE 0)
  BY <1>6 DEF a, c
<1> QED
  BY <1>4, <1>6, <1>7, <1>8 DEF IsAround

\* A replacement makes a line of a line, and spares what is left of it.
LEMMA ReplacedIs ==
  ASSUME NEW l \in Lines, NEW F \in SUBSET Matches(l), NEW d \in Slips,
         NEW p \in 1 .. Len(l), NEW w \in Lines, p - 1 <= Len(w)
  PROVE  /\ (\A m \in F : m.from # p) => Replaced(l, F, d, p, w) = w
         /\ (\E m \in F : m.from = p) => \E m \in F :
              /\ m.from = p
              /\ Replaced(l, F, d, p, w) =
                   Around(w, m, Replacement(l, m), m.to - (IF Holds(F, m) THEN d ELSE 0))
         /\ Replaced(l, F, d, p, w) \in Lines
         /\ p - 1 <= Len(Replaced(l, F, d, p, w))
<1>1. CASE \A m \in F : m.from # p
  <2>1. Replaced(l, F, d, p, w) = w
    BY <1>1 DEF Replaced
  <2> QED
    BY <2>1, <1>1
<1>2. CASE \E m \in F : m.from = p
  <2> DEFINE m == CHOOSE x \in F : x.from = p
             s == IF Holds(F, m) THEN d ELSE 0
             r == Replacement(l, m)
             to == m.to - s
  <2>1. m \in F /\ m.from = p
    BY <1>2
  <2>2. Replaced(l, F, d, p, w) =
          SubSeq(w, 1, p - 1) \o Replacement(l, m) \o SubSeq(w, m.to + 1 - s, Len(w))
    BY <1>2 DEF Replaced
  <2> HIDE DEF m
  <2>3. d \in -1 .. 1 /\ s \in -1 .. 1
    BY SlipsAssumption
  <2>4. /\ m.from \in 1 .. Len(l) /\ m.to \in m.from .. Len(l) /\ Len(l) \in Nat
        /\ r \in Lines /\ Len(r) = m.to - m.from + 1
    BY <2>1, SpanIs, ReplacementIs DEF Lines
  <2> HIDE DEF s
  <2>5. to \in Nat /\ to + 1 = m.to + 1 - s
    <3> DEFINE e == m.to
    <3>1. e \in Nat /\ e >= 1 /\ to = e - s
      BY <2>4
    <3> HIDE DEF e, to
    <3>2. to \in Nat /\ to + 1 = e + 1 - s
      BY <2>3, <3>1
    <3> QED
      BY <3>2 DEF e
  <2>6. Replaced(l, F, d, p, w) = Around(w, m, r, to)
    <3>1. Replaced(l, F, d, p, w) =
            SubSeq(w, 1, m.from - 1) \o r \o SubSeq(w, to + 1, Len(w))
      <4> HIDE DEF to
      <4> QED
        BY <2>1, <2>2, <2>5
    <3> HIDE DEF to, r
    <3> QED
      BY <3>1 DEF Around
  <2> HIDE DEF to, r
  <2>7. m.from \in Nat \ {0} /\ m.from - 1 <= Len(w)
    BY <2>1, <2>4
  <2>8. /\ Around(w, m, r, to) \in Lines
        /\ Len(Around(w, m, r, to)) =
              m.from - 1 + Len(r) + (IF to + 1 <= Len(w) THEN Len(w) - to ELSE 0)
    <3>1. IsAround(Around(w, m, r, to), w, m, r, to)
      BY <2>4, <2>5, <2>7, AroundIs
    <3> QED
      BY <3>1 DEF IsAround
  <2>9. p - 1 <= Len(Around(w, m, r, to))
    <3> DEFINE c == IF to + 1 <= Len(w) THEN Len(w) - to ELSE 0
    <3>1. Len(w) \in Nat /\ c \in Nat
      BY <2>5 DEF Lines
    <3>2. Len(Around(w, m, r, to)) = p - 1 + Len(r) + c
      BY <2>1, <2>8
    <3>3. Len(r) \in Nat
      BY <2>4
    <3> HIDE DEF c
    <3> QED
      BY <3>1, <3>2, <3>3
  <2>10. \E x \in F : /\ x.from = p
                      /\ Replaced(l, F, d, p, w) =
                           Around(w, x, Replacement(l, x), x.to - (IF Holds(F, x) THEN d ELSE 0))
    BY <2>1, <2>6 DEF to, s, r
  <2> QED
    BY <2>6, <2>8, <2>9, <2>10, <1>2
<1> QED
  BY <1>1, <1>2

LEMMA RewrittenLineIs ==
  ASSUME NEW l \in Lines, NEW F \in SUBSET Matches(l), NEW d \in Slips
  PROVE  /\ RewrittenLine(l, F, d) \in [0 .. Len(l) -> Lines]
         /\ RewrittenLine(l, F, d)[0] = l
         /\ \A k \in 1 .. Len(l) :
              RewrittenLine(l, F, d)[k] =
                Replaced(l, F, d, Len(l) + 1 - k, RewrittenLine(l, F, d)[k - 1])
<1> DEFINE n == Len(l)
           R(k, w) == Replaced(l, F, d, n + 1 - k, w)
           step == [k \in 1 .. n |-> [w \in Lines |-> IF n - k <= Len(w) THEN R(k, w) ELSE w]]
<1>1. n \in Nat
  BY DEF Lines
<1>2. ASSUME NEW k \in 1 .. n, NEW w \in Lines, n - k <= Len(w)
      PROVE  R(k, w) \in Lines /\ n - k <= Len(R(k, w))
  <2> DEFINE p == n + 1 - k
  <2>1. p \in 1 .. Len(l) /\ p - 1 <= Len(w) /\ p - 1 = n - k
    BY <1>1, <1>2
  <2> HIDE DEF p
  <2>2. /\ Replaced(l, F, d, p, w) \in Lines
        /\ p - 1 <= Len(Replaced(l, F, d, p, w))
    BY <2>1, ReplacedIs
  <2> QED
    BY <2>1, <2>2 DEF p
<1> HIDE DEF R
<1>3. step \in Steps(0, n, Lines)
  <2>1. \A k \in 1 .. n : \A w \in Lines : (IF n - k <= Len(w) THEN R(k, w) ELSE w) \in Lines
    BY <1>2
  <2>2. 0 + 1 = 1
    OBVIOUS
  <2> HIDE DEF n
  <2> QED
    BY <2>1, <2>2 DEF Steps
<1>4. PICK f : Follows(f, 0, n, Lines, l, step)
  <2> HIDE DEF step, n
  <2> QED
    BY <1>1, <1>3, Recursion
<1>5. /\ f \in [0 .. n -> Lines] /\ f[0] = l
      /\ \A k \in 1 .. n : f[k] = step[k][f[k - 1]]
  <2>1. \A k \in 0 + 1 .. n : f[k] = step[k][f[k - 1]]
    BY <1>4 DEF Follows
  <2>2. 0 + 1 = 1
    OBVIOUS
  <2> QED
    BY <1>4, <2>1, <2>2 DEF Follows
<1>6. \A k \in 1 .. n : f[k - 1] \in Lines /\
        f[k] = IF n - k <= Len(f[k - 1]) THEN R(k, f[k - 1]) ELSE f[k - 1]
  <2>1. ASSUME NEW k \in 1 .. n
        PROVE  f[k - 1] \in Lines /\
               f[k] = IF n - k <= Len(f[k - 1]) THEN R(k, f[k - 1]) ELSE f[k - 1]
    <3>1. k - 1 \in 0 .. n
      BY <1>1
    <3>2. f[k - 1] \in Lines
      BY <1>5, <3>1
    <3> QED
      BY <1>5, <3>2
  <2> QED
    BY <2>1
<1> HIDE DEF step
<1>7. \A k \in 0 .. n : n - k <= Len(f[k])
  <2> DEFINE G == {k \in 0 .. n : n - k <= Len(f[k])}
  <2>1. 0 \in G
    BY <1>1, <1>5
  <2>2. ASSUME NEW k \in 0 + 1 .. n, k - 1 \in G PROVE k \in G
    <3>1. k \in 1 .. n /\ k \in 0 .. n
      BY <1>1
    <3>2. n - (k - 1) <= Len(f[k - 1]) /\ f[k - 1] \in Lines /\ Len(f[k - 1]) \in Nat
      BY <2>2, <1>6, <3>1 DEF Lines
    <3>3. n - k <= Len(f[k - 1])
      <4> HIDE DEF n
      <4> QED
        BY <1>1, <3>1, <3>2
    <3>4. f[k] = R(k, f[k - 1])
      BY <1>6, <3>1, <3>3
    <3>5. n - k <= Len(f[k])
      BY <1>2, <3>1, <3>2, <3>3, <3>4
    <3> QED
      BY <3>1, <3>5
  <2> HIDE DEF G, n
  <2>3. \A k \in 0 .. n : k \in G
    BY <1>1, <2>1, <2>2, StepByStep
  <2> QED
    BY <2>3 DEF G
<1>8. \A k \in 1 .. n : f[k] = R(k, f[k - 1])
  <2>1. ASSUME NEW k \in 1 .. n PROVE f[k] = R(k, f[k - 1])
    <3>1. k - 1 \in 0 .. n /\ n - (k - 1) <= Len(f[k - 1]) /\ Len(f[k - 1]) \in Nat
      <4>1. k - 1 \in 0 .. n
        BY <1>1
      <4>2. n - (k - 1) <= Len(f[k - 1])
        BY <4>1, <1>7
      <4>3. f[k - 1] \in Lines
        BY <4>1, <1>5
      <4> QED
        BY <4>1, <4>2, <4>3 DEF Lines
    <3>2. n - k <= Len(f[k - 1])
      <4> HIDE DEF n
      <4> QED
        BY <1>1, <3>1
    <3> QED
      BY <1>6, <3>2
  <2> QED
    BY <2>1
<1>9. f = [k \in 0 .. n |-> IF k = 0 THEN l ELSE Replaced(l, F, d, n + 1 - k, f[k - 1])]
  <2>1. ASSUME NEW k \in 0 .. n, k # 0
        PROVE  f[k] = Replaced(l, F, d, n + 1 - k, f[k - 1])
    <3>1. k \in 1 .. n
      BY <1>1, <2>1
    <3> QED
      BY <3>1, <1>8 DEF R
  <2> QED
    BY <1>5, <2>1
<1> DEFINE o == RewrittenLine(l, F, d)
           e == [k \in 0 .. n |-> IF k = 0 THEN l ELSE Replaced(l, F, d, n + 1 - k, o[k - 1])]
<1>10. o = e
  BY <1>9 DEF RewrittenLine
<1> HIDE DEF o
<1>11. o[0] = l /\ \A k \in 1 .. n : o[k] = Replaced(l, F, d, n + 1 - k, o[k - 1])
  <2>1. 0 \in 0 .. n /\ \A k \in 1 .. n : k \in 0 .. n /\ k # 0
    BY <1>1
  <2> QED
    BY <1>10, <2>1
<1> HIDE DEF e
<1>12. \A k \in 0 .. n : o[k] = f[k]
  <2> DEFINE G == {k \in 0 .. n : o[k] = f[k]}
  <2>1. 0 \in G
    BY <1>1, <1>5, <1>11
  <2>2. ASSUME NEW k \in 0 + 1 .. n, k - 1 \in G PROVE k \in G
    <3>1. k \in 1 .. n /\ k \in 0 .. n /\ o[k - 1] = f[k - 1]
      BY <1>1, <2>2
    <3> QED
      BY <3>1, <1>8, <1>11 DEF R
  <2> HIDE DEF G, n
  <2>3. \A k \in 0 .. n : k \in G
    BY <1>1, <2>1, <2>2, StepByStep
  <2> QED
    BY <2>3 DEF G
<1>13. o \in [0 .. n -> Lines]
  <2>1. o = [k \in 0 .. n |-> o[k]]
    BY <1>10 DEF e
  <2>2. \A k \in 0 .. n : o[k] \in Lines
    BY <1>5, <1>12
  <2> QED
    BY <2>1, <2>2
<1> QED
  BY <1>11, <1>13 DEF o

\* None of the matches begins within another.
Apart(F) == \A x, y \in F : x # y => y.from \notin x.from .. x.to

\* Then a replacement does what it should.
LEMMA ReplacedApart ==
  ASSUME NEW l \in Lines, NEW F \in SUBSET Matches(l), NEW d \in Slips, Apart(F),
         NEW p \in 1 .. Len(l)
  PROVE  Replaced(l, F, d, p, NewLine(l, F, p)) = NewLine(l, F, p - 1)
<1> DEFINE w == NewLine(l, F, p)
           z == NewLine(l, F, p - 1)
           n == Len(l)
<1>1. /\ w \in Lines /\ Len(w) = n /\ \A i \in 1 .. n : w[i] = NewToken(l, F, p, i)
      /\ z \in Lines /\ Len(z) = n /\ \A i \in 1 .. n : z[i] = NewToken(l, F, p - 1, i)
  BY NewLineIs
<1>2. n \in Nat
  BY DEF Lines
<1>3. \A m \in F : /\ m.from \in 1 .. n /\ m.to \in m.from .. n
                   /\ m.target \subseteq m.from .. m.to
  BY SpanIs
<1> HIDE DEF w, z
<1>4. p - 1 <= Len(w)
  BY <1>1, <1>2
<1>5. CASE \A m \in F : m.from # p
  <2>1. \A m \in F : m.from > p <=> m.from > p - 1
    BY <1>2, <1>3, <1>5
  <2>2. \A i \in 1 .. n : w[i] = z[i]
    BY <1>1, <2>1 DEF NewToken
  <2>3. w = z
    BY <1>1, <2>2, SeqEqual DEF Lines
  <2>4. Replaced(l, F, d, p, w) = w
    BY <1>1, <1>4, <1>5, ReplacedIs
  <2> QED
    BY <2>3, <2>4 DEF w, z
<1>6. CASE \E m \in F : m.from = p
  <2>1. PICK m \in F :
          /\ m.from = p
          /\ Replaced(l, F, d, p, w) =
               Around(w, m, Replacement(l, m), m.to - (IF Holds(F, m) THEN d ELSE 0))
    BY <1>1, <1>4, <1>6, ReplacedIs
  <2>2. ~Holds(F, m)
    BY DEF Holds, Apart
  <2> DEFINE r == Replacement(l, m)
             to == m.to
             v == Around(w, m, r, to)
  <2>3. to \in p .. n
    BY <1>3, <2>1
  <2>4. Replaced(l, F, d, p, w) = v
    <3>1. to - 0 = to
      BY <2>3, <1>2
    <3> QED
      BY <2>1, <2>2, <3>1
  <2>5. /\ r \in Lines /\ Len(r) = to - p + 1
        /\ \A k \in 1 .. to - p + 1 :
             r[k] = IF p + k - 1 \in m.target THEN Renamed(l[p + k - 1]) ELSE l[p + k - 1]
    BY <2>1, ReplacementIs
  <2> HIDE DEF r, v
  <2>a. to \in Nat /\ m.from \in Nat \ {0} /\ m.from - 1 <= Len(w)
    BY <1>1, <1>2, <2>1, <2>3
  <2>b. IsAround(v, w, m, r, to)
    <3> HIDE DEF to
    <3> QED
      BY <1>1, <2>5, <2>a, AroundIs DEF v
  <2> HIDE DEF to
  <2> DEFINE c == Len(r)
  <2>c. c = to - p + 1 /\ c \in Nat
    BY <2>3, <2>5, <1>2
  <2>6. /\ v \in Lines
        /\ Len(v) = p - 1 + c + (IF to + 1 <= n THEN n - to ELSE 0)
        /\ \A i \in 1 .. Len(v) :
             v[i] = IF i < p THEN w[i]
                    ELSE IF i < p + c THEN r[i - (p - 1)]
                    ELSE w[to + (i - (p - 1) - c)]
    BY <2>b, <2>1, <1>1 DEF IsAround
  <2> HIDE DEF n, c
  <2>7. Len(v) = n
    BY <1>2, <2>3, <2>6, <2>c
  <2>8. ASSUME NEW i \in 1 .. n PROVE v[i] = z[i]
    <3> DEFINE Later == \E x \in F : x.from > p /\ i \in x.target
               Now == \E x \in F : x.from > p - 1 /\ i \in x.target
    <3>0. /\ w[i] = IF Later THEN Renamed(l[i]) ELSE l[i]
          /\ z[i] = IF Now THEN Renamed(l[i]) ELSE l[i]
      BY <1>1 DEF NewToken
    <3>a. Now <=> Later \/ i \in m.target
      <4>1. \A x \in F : x.from > p - 1 <=> x.from > p \/ x = m
        <5>1. \A x \in F : x.from = p => x = m
          <6>1. p \in m.from .. m.to
            BY <2>1, <2>3, <1>2 DEF to
          <6> QED
            BY <6>1, <2>1 DEF Apart
        <5> QED
          BY <1>2, <1>3, <2>1, <5>1
      <4> QED
        BY <4>1
    <3>b. Later => i > to
      <4>1. ASSUME NEW x \in F, x.from > p, i \in x.target PROVE i > to
        <5>1. x.from \notin m.from .. m.to /\ x.from \in 1 .. n
          BY <1>3, <2>1, <4>1 DEF Apart
        <5>2. x.from > to
          BY <1>2, <2>1, <2>3, <4>1, <5>1 DEF to
        <5>3. i \in x.from .. x.to /\ x.to \in Nat
          BY <1>2, <1>3, <4>1
        <5> QED
          BY <1>2, <2>3, <5>1, <5>2, <5>3
      <4> QED
        BY <4>1
    <3>c. i \in m.target => i \in p .. to
      BY <1>3, <2>1 DEF to
    <3>1. CASE i < p
      <4>1. ~Later /\ ~Now
        <5>1. ~(i > to) /\ ~(i \in p .. to)
          BY <1>2, <2>3, <3>1
        <5> HIDE DEF Later, Now
        <5> QED
          BY <5>1, <3>a, <3>b, <3>c
      <4>2. v[i] = w[i]
        BY <2>6, <2>7, <3>1
      <4> HIDE DEF Later, Now
      <4> QED
        BY <3>0, <4>1, <4>2
    <3>2. CASE i \in p .. to
      <4>1. ~Later
        <5>1. ~(i > to)
          BY <1>2, <2>3, <3>2
        <5> HIDE DEF Later, Now
        <5> QED
          BY <5>1, <3>b
      <4>2. v[i] = r[i - (p - 1)]
        <5>1. ~(i < p) /\ i < p + c
          BY <1>2, <2>3, <2>c, <3>2
        <5> QED
          BY <2>6, <2>7, <5>1
      <4>3. r[i - (p - 1)] = IF i \in m.target THEN Renamed(l[i]) ELSE l[i]
        <5> DEFINE k == i - (p - 1)
        <5>1. k \in 1 .. to - p + 1 /\ p + k - 1 = i
          BY <1>2, <2>3, <3>2
        <5> HIDE DEF k
        <5>2. r[k] = IF p + k - 1 \in m.target THEN Renamed(l[p + k - 1]) ELSE l[p + k - 1]
          BY <2>5, <5>1
        <5>3. r[k] = IF i \in m.target THEN Renamed(l[i]) ELSE l[i]
          BY <5>1, <5>2
        <5> QED
          BY <5>3 DEF k
      <4> HIDE DEF Later, Now
      <4> QED
        BY <3>0, <3>a, <4>1, <4>2, <4>3
    <3>3. CASE i > to
      <4>1. i \notin m.target
        BY <1>2, <2>3, <3>3, <3>c
      <4>2. v[i] = w[i]
        <5>1. ~(i < p) /\ ~(i < p + c) /\ to + (i - (p - 1) - c) = i
          BY <1>2, <2>3, <2>c, <3>3
        <5> QED
          BY <2>6, <2>7, <5>1
      <4> HIDE DEF Later, Now
      <4> QED
        BY <3>0, <3>a, <4>1, <4>2
    <3>4. i < p \/ i \in p .. to \/ i > to
      BY <1>2, <2>3
    <3> QED
      BY <3>1, <3>2, <3>3, <3>4
  <2>9. v = z
    BY <1>1, <2>6, <2>7, <2>8, SeqEqual DEF Lines
  <2> QED
    BY <2>4, <2>9 DEF w, z
<1> QED
  BY <1>5, <1>6

LEMMA LineApart ==
  ASSUME NEW l \in Lines, NEW F \in SUBSET Matches(l), NEW d \in Slips, Apart(F)
  PROVE  RewrittenLine(l, F, d)[Len(l)] = NewLine(l, F, 0)
<1> DEFINE n == Len(l)
           o == RewrittenLine(l, F, d)
           G == {k \in 0 .. n : o[k] = NewLine(l, F, n - k)}
<1>1. n \in Nat
  BY DEF Lines
<1>2. o[0] = l /\ \A k \in 1 .. n : o[k] = Replaced(l, F, d, n + 1 - k, o[k - 1])
  BY RewrittenLineIs
<1> HIDE DEF o
<1>3. 0 \in G
  <2>1. \A m \in F : ~(m.from > n)
    BY <1>1, SpanIs
  <2>2. \A i \in 1 .. n : NewLine(l, F, n)[i] = l[i]
    BY <2>1, NewLineIs DEF NewToken
  <2>3. NewLine(l, F, n) = l
    BY <2>2, NewLineIs, SeqEqual DEF Lines
  <2>4. n - 0 = n /\ 0 \in 0 .. n
    BY <1>1
  <2> QED
    BY <1>2, <2>3, <2>4
<1>4. ASSUME NEW k \in 0 + 1 .. n, k - 1 \in G PROVE k \in G
  <2> DEFINE p == n + 1 - k
  <2>1. /\ k \in 1 .. n /\ k \in 0 .. n /\ p \in 1 .. n
        /\ n - (k - 1) = p /\ n - k = p - 1
    BY <1>1
  <2>2. o[k - 1] = NewLine(l, F, p)
    BY <1>4, <2>1
  <2>3. o[k] = Replaced(l, F, d, p, NewLine(l, F, p))
    BY <1>2, <2>1, <2>2
  <2> HIDE DEF p
  <2>4. o[k] = NewLine(l, F, p - 1)
    BY <2>1, <2>3, ReplacedApart
  <2> QED
    BY <2>1, <2>4
<1> HIDE DEF G
<1>5. n \in G
  <2>1. \A k \in 0 .. n : k \in G
    BY <1>1, <1>3, <1>4, StepByStep
  <2> QED
    BY <1>1, <2>1
<1>6. o[n] = NewLine(l, F, n - n) /\ n - n = 0
  BY <1>1, <1>5 DEF G
<1> QED
  BY <1>6 DEF o

----------------------------------------------------------------------------
(* The rewritten text.                                                     *)

FoundIn(T, n) == {x[2] : x \in {y \in Rewritable(T) : y[1] = n}}

\* The text with every link in its place, whatever lies within it.
InPlace(T) == [n \in DOMAIN T |-> NewLine(T[n], FoundIn(T, n), 0)]

LEMMA FoundInIs ==
  ASSUME NEW T \in Texts, NEW n \in 1 .. Len(T)
  PROVE  /\ T[n] \in Lines /\ FoundIn(T, n) \in SUBSET Matches(T[n])
         /\ \A m : m \in FoundIn(T, n) <=> <<n, m>> \in Rewritable(T)
<1>1. T[n] \in Lines
  BY DEF Texts
<1>2. \A x \in Rewritable(T) : x = <<x[1], x[2]>> /\ x[2] \in Matches(T[x[1]])
  BY RewritablePlace
<1>3. ASSUME NEW m PROVE m \in FoundIn(T, n) <=> <<n, m>> \in Rewritable(T)
  <2>1. m \in FoundIn(T, n) => <<n, m>> \in Rewritable(T)
    BY <1>2 DEF FoundIn
  <2>2. <<n, m>> \in Rewritable(T) => m \in FoundIn(T, n)
    <3>1. <<n, m>>[1] = n /\ <<n, m>>[2] = m
      OBVIOUS
    <3> QED
      BY <3>1 DEF FoundIn
  <2> QED
    BY <2>1, <2>2
<1>4. FoundIn(T, n) \subseteq Matches(T[n])
  BY <1>2 DEF FoundIn
<1> QED
  BY <1>1, <1>3, <1>4

\* A rename makes a text of a text.
LEMMA RewrittenIsAText ==
  ASSUME NEW T \in Texts, NEW d \in Slips
  PROVE  Rewritten(T, Rewritable(T), d) \in Texts
<1> DEFINE U == Rewritten(T, Rewritable(T), d)
           L(n) == RewrittenLine(T[n], FoundIn(T, n), d)[Len(T[n])]
<1>1. Len(T) \in Nat /\ DOMAIN T = 1 .. Len(T)
  BY DEF Texts
<1>2. U = [n \in 1 .. Len(T) |-> L(n)]
  BY <1>1 DEF Rewritten, FoundIn
<1>3. ASSUME NEW n \in 1 .. Len(T) PROVE L(n) \in Lines
  <2>1. T[n] \in Lines /\ FoundIn(T, n) \in SUBSET Matches(T[n])
    BY FoundInIs
  <2>2. RewrittenLine(T[n], FoundIn(T, n), d) \in [0 .. Len(T[n]) -> Lines]
    BY <2>1, RewrittenLineIs
  <2>3. Len(T[n]) \in 0 .. Len(T[n])
    BY <2>1 DEF Lines
  <2> QED
    BY <2>2, <2>3
<1> HIDE DEF L, U
<1>4. U \in [1 .. Len(T) -> Lines]
  BY <1>2, <1>3
<1>5. U \in Seq(Lines)
  BY <1>1, <1>4, SeqDef
<1> QED
  BY <1>5 DEF U, Texts

\* Of links of which none holds another, it rewrites each in its place.
LEMMA RewrittenInPlace ==
  ASSUME NEW T \in Texts, NEW d \in Slips, ~Overlaps(T)
  PROVE  Rewritten(T, Rewritable(T), d) = InPlace(T)
<1>1. DOMAIN T = 1 .. Len(T)
  BY DEF Texts
<1>2. ASSUME NEW n \in 1 .. Len(T)
      PROVE  RewrittenLine(T[n], FoundIn(T, n), d)[Len(T[n])] = NewLine(T[n], FoundIn(T, n), 0)
  <2> DEFINE F == FoundIn(T, n)
  <2>1. /\ T[n] \in Lines /\ F \in SUBSET Matches(T[n])
        /\ \A m : m \in F <=> <<n, m>> \in Rewritable(T)
    BY FoundInIs
  <2> HIDE DEF F
  <2>2. Apart(F)
    <3>1. ASSUME NEW x \in F, NEW y \in F, x # y, y.from \in x.from .. x.to PROVE FALSE
      <4> DEFINE a == <<n, x>>
                 b == <<n, y>>
      <4>1. a \in Rewritable(T) /\ b \in Rewritable(T)
        BY <2>1
      <4>2. a # b /\ a[1] = b[1] /\ a[2] = x /\ b[2] = y
        BY <3>1
      <4> HIDE DEF a, b
      <4> QED
        BY <3>1, <4>1, <4>2 DEF Overlaps
    <3> QED
      BY <3>1 DEF Apart
  <2> QED
    BY <2>1, <2>2, LineApart DEF F
<1> QED
  BY <1>1, <1>2 DEF Rewritten, FoundIn, InPlace

\* What it is then.
LEMMA RewrittenIs ==
  ASSUME NEW T \in Texts
  PROVE  /\ AlikeTexts(T, InPlace(T))
         /\ \A n \in 1 .. Len(T) : \A i \in 1 .. Len(T[n]) :
              IF \E x \in Rewritable(T) : Place(x) = <<n, i>>
              THEN InPlace(T)[n][i] = Renamed(T[n][i]) /\ T[n][i] \in {"t", "md"}
              ELSE InPlace(T)[n][i] = T[n][i]
<1> DEFINE U == InPlace(T)
           Hit(n, i) == \E x \in Rewritable(T) : x[1] = n /\ i \in x[2].target
           Line(n) == [i \in 1 .. Len(T[n]) |-> IF Hit(n, i) THEN Renamed(T[n][i]) ELSE T[n][i]]
<1>1. /\ Len(T) \in Nat /\ DOMAIN T = 1 .. Len(T)
      /\ \A n \in 1 .. Len(T) : T[n] \in Lines
  BY DEF Texts
<1>2. \A n \in 1 .. Len(T) : Len(T[n]) \in Nat /\ DOMAIN T[n] = 1 .. Len(T[n])
  BY <1>1 DEF Lines
<1>3. U = [n \in 1 .. Len(T) |-> Line(n)]
  <2>1. ASSUME NEW n \in 1 .. Len(T) PROVE NewLine(T[n], FoundIn(T, n), 0) = Line(n)
    <3>1. /\ FoundIn(T, n) \in SUBSET Matches(T[n]) /\ T[n] \in Lines
          /\ \A m : m \in FoundIn(T, n) <=> <<n, m>> \in Rewritable(T)
      BY FoundInIs
    <3>2. \A m \in FoundIn(T, n) : m.from > 0
      BY <3>1, SpanIs
    <3>3. ASSUME NEW i
          PROVE  (\E m \in FoundIn(T, n) : m.from > 0 /\ i \in m.target) <=> Hit(n, i)
      <4>1. ASSUME NEW m \in FoundIn(T, n), i \in m.target PROVE Hit(n, i)
        <5> DEFINE x == <<n, m>>
        <5>1. x \in Rewritable(T) /\ x[1] = n /\ x[2] = m
          BY <3>1
        <5> HIDE DEF x
        <5> QED
          BY <4>1, <5>1
      <4>2. ASSUME Hit(n, i) PROVE \E m \in FoundIn(T, n) : m.from > 0 /\ i \in m.target
        <5>1. PICK x \in Rewritable(T) : x[1] = n /\ i \in x[2].target
          BY <4>2
        <5>2. x[2] \in FoundIn(T, n)
          BY <5>1 DEF FoundIn
        <5> QED
          BY <5>1, <5>2, <3>2
      <4> QED
        BY <4>1, <4>2
    <3> HIDE DEF Hit
    <3> QED
      BY <3>3 DEF NewLine, NewToken
  <2> HIDE DEF Line
  <2> QED
    BY <1>1, <2>1 DEF InPlace
<1>4. ASSUME NEW n, NEW i PROVE Hit(n, i) <=> \E x \in Rewritable(T) : Place(x) = <<n, i>>
  <2>1. \A x \in Rewritable(T) : x[1] = n /\ i \in x[2].target <=> Place(x) = <<n, i>>
    <3>1. ASSUME NEW x \in Rewritable(T)
          PROVE  x[1] = n /\ i \in x[2].target <=> Place(x) = <<n, i>>
      <4>1. x[2].target = {Place(x)[2]} /\ Place(x) = <<x[1], Place(x)[2]>>
        BY RewritablePlace DEF Place
      <4> QED
        BY <4>1
    <3> QED
      BY <3>1
  <2> QED
    BY <2>1
<1>5. ASSUME NEW n, NEW i, Hit(n, i) PROVE T[n][i] \in {"t", "md"}
  <2>1. PICK x \in Rewritable(T) : Place(x) = <<n, i>>
    BY <1>4, <1>5
  <2>2. x[1] = n /\ Place(x)[2] = i
    BY <2>1 DEF Place
  <2> QED
    BY <2>2, RewritablePlace
<1> HIDE DEF Hit
<1>6. ASSUME NEW n \in 1 .. Len(T)
      PROVE  Line(n) \in Lines /\ Len(Line(n)) = Len(T[n]) /\ Alike(T[n], Line(n))
  <2> DEFINE k == Len(T[n])
  <2>1. \A i \in 1 .. k : Line(n)[i] = IF Hit(n, i) THEN Renamed(T[n][i]) ELSE T[n][i]
    OBVIOUS
  <2>2. \A i \in 1 .. k : T[n][i] \in Tokens
    BY <1>1 DEF Lines
  <2>3. \A i \in 1 .. k : Line(n)[i] \in Tokens
    <3>1. ASSUME NEW i \in 1 .. k PROVE Line(n)[i] \in Tokens
      <4>1. CASE Hit(n, i)
        BY <4>1 DEF Renamed, Tokens
      <4>2. CASE ~Hit(n, i)
        BY <4>2, <2>2
      <4> QED
        BY <4>1, <4>2
    <3> QED
      BY <3>1
  <2>4. Line(n) \in [1 .. k -> Tokens] /\ k \in Nat
    BY <2>3, <1>2
  <2>5. Line(n) \in Lines /\ Len(Line(n)) = k
    <3> HIDE DEF Line
    <3>1. Line(n) \in Seq(Tokens)
      BY <2>4, SeqDef
    <3> QED
      BY <3>1, <2>4, LenProperties DEF Lines
  <2>6. ASSUME NEW i \in 1 .. k
        PROVE  \/ Line(n)[i] = T[n][i]
               \/ T[n][i] = "t" /\ Line(n)[i] = "u"
               \/ T[n][i] = "md" /\ Line(n)[i] = "md2"
    BY <2>1, <1>5 DEF Renamed
  <2> HIDE DEF Line
  <2> QED
    BY <2>5, <2>6, <1>1 DEF Alike
<1>7. U \in Texts /\ Len(U) = Len(T)
  <2>1. U \in [1 .. Len(T) -> Lines]
    <3> HIDE DEF Line, U
    <3> QED
      BY <1>3, <1>6
  <2> HIDE DEF U
  <2>2. U \in Seq(Lines)
    BY <1>1, <2>1, SeqDef
  <2> QED
    BY <1>1, <2>1, <2>2, LenProperties DEF Texts
<1>8. AlikeTexts(T, U)
  <2> HIDE DEF Line, U
  <2> QED
    BY <1>3, <1>6, <1>7 DEF AlikeTexts
<1>9. ASSUME NEW n \in 1 .. Len(T), NEW i \in 1 .. Len(T[n])
      PROVE  IF \E x \in Rewritable(T) : Place(x) = <<n, i>>
              THEN U[n][i] = Renamed(T[n][i]) /\ T[n][i] \in {"t", "md"}
              ELSE U[n][i] = T[n][i]
  <2>1. U[n][i] = IF Hit(n, i) THEN Renamed(T[n][i]) ELSE T[n][i]
    BY <1>3
  <2> HIDE DEF U
  <2> QED
    BY <2>1, <1>4, <1>5
<1> QED
  BY <1>8, <1>9

----------------------------------------------------------------------------
(* What holds of every text, and of a rename.                              *)

\* A markdown link that the scan finds is one the rewriter finds.
LEMMA MdIsRewritable ==
  ASSUME NEW T \in Texts, NEW n, NEW m, LinkAt(T, n, m), m.kind = "md",
         T[n][m.from] = "md"
  PROVE  RewritableAt(T, n, m) /\ Place(<<n, m>>) = <<n, m.from>>
<1>1. /\ n \in DOMAIN T /\ ~Masks(T)[n].fenced /\ m \in Matches(Stripped(T[n]))
      /\ m.target \cap (Masks(T)[n].in \cup Code(T[n])) = {}
  BY DEF LinkAt
<1>2. T[n] \in Lines /\ Stripped(T[n]) \in Lines /\ Len(Stripped(T[n])) = Len(T[n])
  BY <1>1, StrippedIs DEF Texts
<1>3. m \in MdAt(Stripped(T[n]))
  <2>1. m \notin Wikis(Stripped(T[n]))
    BY <1>2, WikiKind
  <2> QED
    BY <2>1, <1>1 DEF Matches
<1>4. /\ m.from \in 1 .. Len(T[n]) /\ m.target = {m.from}
      /\ m = [kind |-> "md", from |-> m.from, to |-> m.from, target |-> {m.from}]
  BY <1>2, <1>3, MdIs
<1>5. m \in Matches(T[n])
  <2>1. T[n][m.from] \in MdLinks
    BY DEF MdLinks
  <2> QED
    BY <2>1, <1>2, <1>4, MdHas DEF Matches
<1>6. TargetOf(T[n], m) = <<"t">>
  BY DEF TargetOf
<1>7. RewritableAt(T, n, m)
  BY <1>1, <1>4, <1>5, <1>6 DEF RewritableAt
<1> QED
  BY <1>7 DEF Place

LEMMA SliceOfOne ==
  ASSUME NEW l \in Lines, NEW i \in 1 .. Len(l)
  PROVE  SubSeq(l, i, i) = <<l[i]>>
<1>1. l[i] \in Tokens /\ i \in Int
  BY DEF Lines
<1>2. \A j \in i .. i : l[j] \in Tokens
  BY <1>1
<1>3. /\ SubSeq(l, i, i) \in Seq(Tokens)
      /\ Len(SubSeq(l, i, i)) = IF i <= i THEN i - i + 1 ELSE 0
      /\ \A j \in 1 .. i - i + 1 : SubSeq(l, i, i)[j] = l[i + j - 1]
  BY <1>1, <1>2, SubSeqProperties
<1> DEFINE q == SubSeq(l, i, i)
<1>4. q \in Seq(Tokens) /\ Len(q) = 1 /\ q[1] = l[i]
  BY <1>1, <1>3
<1> HIDE DEF q
<1>5. q = <<l[i]>>
  BY <1>4
<1> QED
  BY <1>5 DEF q

\* Unless a link to the old name is left, the rewriter has been where the scan
\* finds a link to it.
LEMMA ToIsRewritten ==
  ASSUME NEW T \in Texts, Stale(InPlace(T)) = {}, NEW y \in LinksTo(T, "t")
  PROVE  \E x \in Rewritable(T) : Place(x) = Place(y)
<1> DEFINE U == InPlace(T)
           n == y[1]
           m == y[2]
           i == Place(y)[2]
<1>1. /\ y = <<n, m>> /\ LinkAt(T, n, m) /\ n \in 1 .. Len(T) /\ T[n] \in Lines
      /\ m.target = {i} /\ T[n][i] = (IF m.kind = "md" THEN "md" ELSE "t")
      /\ m.kind \in {"md", "wiki"} /\ TargetOf(T[n], m) = <<"t">>
      /\ Place(y) \in Places(T)
  BY ToPlace
<1>2. Place(y) = <<n, i>>
  BY DEF Place
<1>3. CASE m.kind = "md"
  <2>1. i = m.from
    BY <1>3 DEF Place
  <2>2. RewritableAt(T, n, m)
    BY <2>1, <1>1, <1>3, MdIsRewritable
  <2>3. y \in Rewritable(T)
    BY <2>2, <1>1, RewritableAre
  <2> QED
    BY <2>3
<1>4. CASE m.kind = "wiki" /\ ~ \E x \in Rewritable(T) : Place(x) = Place(y)
  <2>1. i \in 1 .. Len(T[n])
    <3>1. PICK k \in 1 .. Len(T) : <<n, i>> \in {k} \X (1 .. Len(T[k]))
      BY <1>1, <1>2 DEF Places
    <3> QED
      BY <3>1
  <2>2. U[n][i] = T[n][i]
    BY <1>1, <1>2, <1>4, <2>1, RewrittenIs
  <2>3. AlikeTexts(T, U)
    BY RewrittenIs
  <2>4. y \in Links(T)
    BY <1>1, LinksAre
  <2> HIDE DEF U
  <2>5. y \in Links(U)
    BY <2>3, <2>4, AlikeLinks
  <2>6. TargetOf(U[n], m) = <<"t">>
    <3>1. i \in Nat
      BY <2>1
    <3>2. Min({i}) = i
      <4> HIDE DEF i
      <4>1. {i} \in SUBSET Nat /\ \A z \in {i} : i <= z
        BY <3>1
      <4> QED
        BY <4>1, MinIsThat
    <3>3. Max({i}) = i
      <4> HIDE DEF i
      <4>1. i \in {i} /\ \A z \in {i} : i >= z
        BY <3>1
      <4>2. \A x \in {i} : x = i
        OBVIOUS
      <4> QED
        BY <4>1, <4>2 DEF Max
    <3>4. TargetOf(U[n], m) = SubSeq(U[n], i, i)
      BY <1>1, <1>4, <3>2, <3>3 DEF TargetOf
    <3>5. SubSeq(U[n], i, i) = <<"t">>
      <4>1. U[n] \in Lines /\ Len(U[n]) = Len(T[n]) /\ i \in 1 .. Len(U[n]) /\ U[n][i] = "t"
        BY <2>1, <2>2, <2>3, <1>1, <1>4 DEF AlikeTexts, Alike
      <4> DEFINE u == U[n]
      <4>2. u \in Lines /\ i \in 1 .. Len(u) /\ u[i] = "t"
        BY <4>1
      <4> HIDE DEF u, i
      <4>3. SubSeq(u, i, i) = <<u[i]>>
        BY <4>2, SliceOfOne
      <4> QED
        BY <4>2, <4>3 DEF u
    <3> QED
      BY <3>4, <3>5
  <2>7. y \in Stale(U)
    BY <2>5, <2>6, <1>4 DEF Stale, LinksTo
  <2> QED
    BY <2>7 DEF U
<1> QED
  BY <1>1, <1>3, <1>4

\* With as many links found as rewritten, none but those found are rewritten.
LEMMA RewrittenIsTo ==
  ASSUME NEW T \in Texts, Stale(InPlace(T)) = {},
         Cardinality(LinksTo(T, "t")) = Cardinality(Rewritable(T)),
         NEW x \in Rewritable(T)
  PROVE  \E y \in LinksTo(T, "t") : Place(y) = Place(x)
<1> DEFINE S == LinksTo(T, "t")
           R == Rewritable(T)
           f == [y \in S |-> CHOOSE z \in R : Place(z) = Place(y)]
<1>1. \A y \in S : f[y] \in R /\ Place(f[y]) = Place(y)
  <2>1. \A y \in S : \E z \in R : Place(z) = Place(y)
    BY ToIsRewritten
  <2> HIDE DEF S, R
  <2> QED
    BY <2>1
<1>2. f \in [S -> R]
  <2> HIDE DEF S, R
  <2> QED
    BY <1>1
<1>3. \A y, z \in S : f[y] = f[z] => y = z
  <2> SUFFICES ASSUME NEW y \in S, NEW z \in S, f[y] = f[z] PROVE y = z
    OBVIOUS
  <2> HIDE DEF f
  <2>1. Place(y) = Place(z)
    BY <1>1
  <2> QED
    BY <2>1, ToOnce
<1> HIDE DEF f
<1>4. f \in Injection(S, R)
  <2> HIDE DEF S, R
  <2> QED
    BY <1>2, <1>3 DEF Injection, IsInjective
<1>5. f \in Surjection(S, R)
  BY <1>4, RewritableIsFinite, FS_Injection
<1>6. \E y \in S : f[y] = x
  BY <1>5 DEF Surjection
<1> QED
  BY <1>1, <1>6

\* Every line is a sequence of tokens.
TypeInv == text \in Texts

\* Every text the author or a rename makes is one.
THEOREM TypeCorrect == Spec => []TypeInv
<1>1. Init => TypeInv
  BY DEF Init, TypeInv, Texts
<1>2. TypeInv /\ [Next]_text => TypeInv'
  <2> SUFFICES ASSUME TypeInv, [Next]_text PROVE TypeInv'
    OBVIOUS
  <2>1. ASSUME NEW l \in FirstLines \cup MoreLines, Type(l) PROVE TypeInv'
    <3>1. l \in Seq(STRING)
      BY LinesAssumption
    <3>2. l \in Lines
      <4>1. \A i \in 1 .. Len(l) : l[i] \in Tokens
        BY <3>1 DEF Tokens
      <4>2. l \in [1 .. Len(l) -> Tokens] /\ Len(l) \in Nat
        BY <3>1, <4>1
      <4> QED
        BY <4>2, SeqDef DEF Lines
    <3> QED
      BY <3>2, <2>1 DEF Type, TypeInv, Texts
  <2>2. CASE Rename
    BY <2>2, RewrittenIsAText DEF Rename, TypeInv
  <2>3. CASE UNCHANGED text
    BY <2>3 DEF TypeInv
  <2> QED
    BY <2>1, <2>2, <2>3 DEF Next
<1> QED
  BY <1>1, <1>2, PTL DEF Spec

\* The scan and the rewriter find the same links of the renamed note, in any
\* text that is cut into links at the same places, raw or masked.
THEOREM CountsAgreeHolds == Spec => []CountsAgree
<1>1. TypeInv => CountsAgree
  BY SameLinks DEF TypeInv, CountsAgree
<1> QED
  BY <1>1, TypeCorrect, PTL

\* No link to the old name is left.
LEMMA NoneLeft ==
  ASSUME NEW T \in Texts, Stale(InPlace(T)) = {}
  PROVE  LinksTo(InPlace(T), "t") = {}
<1> DEFINE U == InPlace(T)
<1>1. AlikeTexts(T, U) /\ Links(U) = Links(T)
  BY RewrittenIs, AlikeLinks
<1>2. U \in Texts
  BY <1>1 DEF AlikeTexts
<1>3. ASSUME NEW y \in LinksTo(U, "t") PROVE FALSE
  <2> DEFINE n == y[1]
             m == y[2]
             i == Place(y)[2]
  <2> HIDE DEF U
  <2>1. /\ y = <<n, m>> /\ LinkAt(U, n, m) /\ n \in 1 .. Len(U) /\ U[n] \in Lines
        /\ U[n][i] = (IF m.kind = "md" THEN "md" ELSE "t") /\ m.kind \in {"md", "wiki"}
        /\ m.target = {i} /\ Place(y) \in Places(U)
    BY <1>2, ToPlace
  <2>2. m.kind = "md"
    <3>1. m.kind # "wiki"
      BY <1>3 DEF Stale, U
    <3> QED
      BY <3>1, <2>1
  <2>3. y \in Links(T)
    BY <1>1, <1>3 DEF LinksTo
  <2>4. LinkAt(T, n, m)
    <3>1. PICK a, b : y = <<a, b>> /\ LinkAt(T, a, b)
      BY <2>3, LinksAre
    <3> QED
      BY <3>1
  <2>5. i = m.from
    BY <2>2 DEF Place
  <2>6. Len(U) = Len(T) /\ Alike(T[n], U[n])
    BY <1>1, <2>1 DEF AlikeTexts
  <2>7. i \in 1 .. Len(T[n])
    <3>1. <<n, i>> \in Places(U)
      BY <2>1 DEF Place
    <3>2. PICK k \in 1 .. Len(U) : <<n, i>> \in {k} \X (1 .. Len(U[k]))
      BY <3>1 DEF Places
    <3>3. i \in 1 .. Len(U[n])
      BY <3>2
    <3> QED
      BY <3>3, <2>6 DEF Alike
  <2>8. T[n][i] = "md"
    BY <2>1, <2>2, <2>6, <2>7 DEF Alike
  <2>9. RewritableAt(T, n, m) /\ Place(<<n, m>>) = <<n, m.from>>
    BY <2>2, <2>4, <2>5, <2>8, MdIsRewritable
  <2>10. y \in Rewritable(T) /\ Place(y) = <<n, i>>
    BY <2>1, <2>5, <2>9, RewritableAre
  <2>11. U[n][i] = "md2"
    <3>1. U[n][i] = Renamed(T[n][i])
      BY <2>1, <2>6, <2>7, <2>10, RewrittenIs DEF U
    <3> QED
      BY <3>1, <2>8 DEF Renamed
  <2> QED
    BY <2>1, <2>2, <2>11
<1> QED
  BY <1>3

\* What a rename does to a text.
LEMMA RenameIs ==
  ASSUME TypeInv, Rename, ~Overlaps(text)
  PROVE  /\ LinksTo(text', "t") = {}
         /\ Links(text') = Links(text)
         /\ DOMAIN text' = DOMAIN text
         /\ \A n \in DOMAIN text :
              /\ DOMAIN text'[n] = DOMAIN text[n]
              /\ \A i \in DOMAIN text[n] : text'[n][i] # text[n][i] =>
                   \E x \in LinksTo(text, "t") : x[1] = n /\ i \in x[2].target
<1>1. /\ text \in Texts /\ text' = InPlace(text) /\ Stale(InPlace(text)) = {}
      /\ Cardinality(LinksTo(text, "t")) = Cardinality(Rewritable(text))
  <2>1. PICK d \in Slips : text' = Rewritten(text, Rewritable(text), d)
    BY DEF Rename
  <2>2. text' = InPlace(text)
    BY <2>1, RewrittenInPlace DEF TypeInv
  <2> QED
    BY <2>2 DEF TypeInv, Rename
<1>2. LinksTo(text', "t") = {}
  BY <1>1, NoneLeft
<1>3. Links(text') = Links(text)
  BY <1>1, RewrittenIs, AlikeLinks
<1>4. ASSUME NEW n \in DOMAIN text, NEW i \in DOMAIN text[n], text'[n][i] # text[n][i]
      PROVE  \E x \in LinksTo(text, "t") : x[1] = n /\ i \in x[2].target
  <2>1. n \in 1 .. Len(text) /\ i \in 1 .. Len(text[n])
    BY <1>1 DEF Texts, Lines
  <2>2. PICK x \in Rewritable(text) : Place(x) = <<n, i>>
    BY <1>1, <1>4, <2>1, RewrittenIs
  <2>3. PICK y \in LinksTo(text, "t") : Place(y) = <<n, i>>
    BY <1>1, <2>2, RewrittenIsTo
  <2>4. y[1] = n /\ Place(y)[2] = i
    BY <2>3 DEF Place
  <2>5. y[2].target = {i}
    BY <2>4, <1>1, ToPlace
  <2> QED
    BY <2>4, <2>5
<1>5. /\ DOMAIN text' = DOMAIN text
      /\ \A n \in DOMAIN text : DOMAIN text'[n] = DOMAIN text[n]
  <2>1. AlikeTexts(text, text')
    BY <1>1, RewrittenIs
  <2> QED
    BY <2>1, AlikeIs DEF AlikeTexts, Texts
<1> QED
  BY <1>2, <1>3, <1>4, <1>5

\* After a rename of links of which none holds another, every link that named
\* the note names it still, no other link has changed, and nothing else in the
\* text has.
THEOREM RenameFollowsHolds == Spec => RenameFollows
<1>1. TypeInv /\ [Next]_text =>
        [Rename /\ ~Overlaps(text) =>
          /\ LinksTo(text', "t") = {}
          /\ {<<x[1], x[2].from>> : x \in Links(text')}
               = {<<x[1], x[2].from>> : x \in Links(text)}
          /\ DOMAIN text' = DOMAIN text
          /\ \A n \in DOMAIN text :
               /\ DOMAIN text'[n] = DOMAIN text[n]
               /\ \A i \in DOMAIN text[n] : text'[n][i] # text[n][i] =>
                    \E x \in LinksTo(text, "t") : x[1] = n /\ i \in x[2].target]_text
  BY RenameIs
<1> QED
  BY <1>1, TypeCorrect, PTL DEF Spec, RenameFollows

=============================================================================
