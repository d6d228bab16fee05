-------------------------- MODULE NoteLinesProofs ---------------------------
(***************************************************************************)
(* Proofs about the operators that cut a text up and put it together, for  *)
(* every text: what splice keeps and writes, and where sections, fences    *)
(* and frontmatter are. What a recursive function computes is found by     *)
(* LeastNumber, a property of sets of numbers, in the place of induction.  *)
(***************************************************************************)
EXTENDS NoteLines, FiniteSetTheorems, SequenceTheorems, TLAPS

----------------------------------------------------------------------------
(* Recursion over numbers, and lists of numbers.                           *)

\* A nonempty set of numbers has a least.
LEMMA LeastNumber ==
  ASSUME NEW T \in SUBSET Nat, T # {}
  PROVE  \E n \in T : \A m \in T : n <= m
\* The intervals up to a number of T are finite, and one of them is minimal.
<1> DEFINE Up == {0 .. n : n \in T}
<1>1. IsWellFoundedOn(StrictSubsetOrdering(Nat), FiniteSubsetsOf(Nat))
  BY FS_StrictSubsetOrderingWellFounded
<1>2. Up \subseteq FiniteSubsetsOf(Nat)
  <2>1. \A n \in T : 0 .. n \in SUBSET Nat /\ IsFiniteSet(0 .. n)
    BY FS_Interval
  <2> QED
    BY <2>1 DEF FiniteSubsetsOf
<1>3. Up # {}
  OBVIOUS
<1>4. PICK x \in Up : \A y \in Up : ~(<<y, x>> \in StrictSubsetOrdering(Nat))
  <2> HIDE DEF Up
  <2> QED
  BY <1>1, <1>2, <1>3, WFMin
<1>5. PICK n \in T : x = 0 .. n
  BY <1>4
<1>6. ASSUME NEW m \in T, m < n
      PROVE  FALSE
  <2>1. <<0 .. m, 0 .. n>> \in StrictSubsetOrdering(Nat)
    <3>1. 0 .. m \in SUBSET Nat /\ 0 .. n \in SUBSET Nat /\ m \in Nat /\ n \in Nat
      OBVIOUS
    <3>2. 0 .. m \subseteq 0 .. n
      BY <1>6, <3>1
    <3>3. n \in 0 .. n /\ n \notin 0 .. m
      BY <1>6, <3>1
    <3> QED
      BY <3>1, <3>2, <3>3 DEF StrictSubsetOrdering
  <2> QED
    BY <1>4, <1>5, <2>1
<1>7. \A m \in T : n <= m
  BY <1>6
<1> QED
  BY <1>7

\* Induction: what holds at the start and is passed on holds everywhere.  The
\* set G holds the numbers for which it does.
LEMMA StepByStep ==
  ASSUME NEW lo \in Nat, NEW hi \in Nat, NEW G, lo \in G,
         \A i \in lo + 1 .. hi : i - 1 \in G => i \in G
  PROVE  \A i \in lo .. hi : i \in G
<1> DEFINE Out == {i \in lo .. hi : i \notin G}
<1>1. CASE Out = {}
  BY <1>1
<1>2. CASE Out # {}
  <2>1. PICK n \in Out : \A m \in Out : n <= m
    <3>1. Out \in SUBSET Nat
      OBVIOUS
    <3> QED
      BY <1>2, <3>1, LeastNumber
  <2>2. n # lo /\ n - 1 \in lo .. hi /\ n - 1 \notin Out
    BY <2>1
  <2> QED
    BY <2>1, <2>2
<1> QED
  BY <1>1, <1>2

\* A function defined by recursion over an interval: it begins with s0, and
\* step[i] gives its value at i from the one before.
Steps(lo, hi, S) == [lo + 1 .. hi -> [S -> S]]
Follows(f, lo, hi, S, s0, step) ==
  /\ f \in [lo .. hi -> S]
  /\ f[lo] = s0
  /\ \A i \in lo + 1 .. hi : f[i] = step[i][f[i - 1]]

\* There is one.
LEMMA Recursion ==
  ASSUME NEW lo \in Nat, NEW hi \in Nat, lo <= hi, NEW S, NEW s0 \in S,
         NEW step \in Steps(lo, hi, S)
  PROVE  \E f : Follows(f, lo, hi, S, s0, step)
<1> USE DEF Steps
<1> DEFINE Is(f, n) ==
      f[lo] = s0 /\ \A i \in lo + 1 .. n : f[i] = step[i][f[i - 1]]
    G == {n \in lo .. hi : \E f \in [lo .. n -> S] : Is(f, n)}
<1>1. lo \in G
  <2> DEFINE f == [i \in lo .. lo |-> s0]
  <2>1. f \in [lo .. lo -> S] /\ Is(f, lo)
    OBVIOUS
  <2> HIDE DEF f, Is
  <2> QED
    BY <2>1
<1>2. ASSUME NEW n \in lo + 1 .. hi, n - 1 \in G
      PROVE  n \in G
  <2>1. PICK f \in [lo .. n - 1 -> S] : Is(f, n - 1)
    BY <1>2
  <2> DEFINE g == [i \in lo .. n |-> IF i = n THEN step[n][f[n - 1]] ELSE f[i]]
  <2>2. n - 1 \in lo .. n - 1 /\ f[n - 1] \in S /\ n # lo
    OBVIOUS
  <2>3. g \in [lo .. n -> S]
    BY <2>2
  <2>4. \A i \in lo .. n - 1 : g[i] = f[i]
    OBVIOUS
  <2>5. Is(g, n)
    <3>1. g[lo] = s0
      BY <2>1, <2>2, <2>4
    <3>2. ASSUME NEW i \in lo + 1 .. n
          PROVE  g[i] = step[i][g[i - 1]]
      <4>1. CASE i = n
        BY <4>1, <2>2, <2>4
      <4>2. CASE i # n
        <5>1. i \in lo + 1 .. n - 1 /\ i \in lo .. n - 1 /\ i - 1 \in lo .. n - 1
          BY <4>2
        <5> QED
          BY <5>1, <2>1, <2>4
      <4> QED
        BY <4>1, <4>2
    <3> QED
      BY <3>1, <3>2
  <2> HIDE DEF g, Is
  <2> QED
    BY <2>3, <2>5
<1>3. hi \in G
  <2>1. \A n \in lo .. hi : n \in G
    <3> HIDE DEF G
    <3> QED
      BY <1>1, <1>2, StepByStep
  <2> QED
    BY <2>1
<1> QED
  BY <1>3 DEF Follows

LEMMA OpenFenceIs ==
  ASSUME NEW T \in Seq(LineSet), NEW fm \in 0 .. Len(T)
  PROVE  /\ OpenFence(T, fm) \in [fm .. Len(T) -> Bodies]
         /\ OpenFence(T, fm)[fm] = NoMarker
         /\ \A i \in fm + 1 .. Len(T) :
              OpenFence(T, fm)[i] = Fenced(T[i], OpenFence(T, fm)[i - 1])
<1> DEFINE n == Len(T)
           step == [i \in fm + 1 .. n |-> [m \in Bodies |-> Fenced(T[i], m)]]
<1>1. n \in Nat /\ fm \in Nat /\ fm <= n
  OBVIOUS
<1>2. NoMarker \in Bodies
  BY DEF NoMarker, Bodies
<1>3. step \in [fm + 1 .. n -> [Bodies -> Bodies]]
  <2>1. \A i \in 1 .. n : T[i] \in LineSet
    OBVIOUS
  <2>2. \A i \in 1 .. n : T[i].body \in Bodies
    BY <2>1 DEF LineSet
  <2> QED
    BY <2>2, <1>2 DEF Fenced
<1>4. PICK f : Follows(f, fm, n, Bodies, NoMarker, step)
  <2>1. step \in Steps(fm, n, Bodies)
    BY <1>3 DEF Steps
  <2> HIDE DEF step, n
  <2> QED
    BY <1>1, <1>2, <2>1, Recursion
<1>5. f = [i \in fm .. n |-> IF i = fm THEN NoMarker ELSE Fenced(T[i], f[i - 1])]
  <2>1. ASSUME NEW i \in fm .. n, i # fm PROVE f[i] = Fenced(T[i], f[i - 1])
    <3>1. i \in fm + 1 .. n /\ i - 1 \in fm .. n
      BY <2>1
    <3> QED
      BY <3>1, <1>4 DEF Follows
  <2> QED
    BY <1>4, <2>1 DEF Follows
<1> DEFINE o == OpenFence(T, fm)
<1>6. o = [i \in fm .. n |-> IF i = fm THEN NoMarker ELSE Fenced(T[i], o[i - 1])]
  BY <1>5 DEF OpenFence
<1>7. \A i \in fm + 1 .. n : o[i] = Fenced(T[i], o[i - 1])
  <2> HIDE DEF o
  <2> QED
    BY <1>6
<1>8. o[fm] = NoMarker
  <2> HIDE DEF o
  <2> QED
    BY <1>6
<1>9. o \in [fm .. n -> Bodies]
  <2> DEFINE G == {i \in fm .. n : o[i] \in Bodies}
  <2>1. fm \in G
    BY <1>2, <1>8
  <2>2. ASSUME NEW i \in fm + 1 .. n, i - 1 \in G
        PROVE  i \in G
    <3>1. step[i][o[i - 1]] \in Bodies
      BY <1>3, <2>2
    <3> QED
      BY <3>1, <1>7, <2>2
  <2>3. \A i \in fm .. n : i \in G
    <3> HIDE DEF G, n
    <3> QED
      BY <1>1, <2>1, <2>2, StepByStep
  <2> QED
    BY <2>3, <1>6
<1> QED
  BY <1>7, <1>8, <1>9

LEMMA MinIs ==
  ASSUME NEW S \in SUBSET Nat, S # {}
  PROVE  Min(S) \in S /\ \A x \in S : Min(S) <= x
<1>1. PICK n \in S : \A m \in S : n <= m
  BY LeastNumber
<1>2. \E x \in S : \A y \in S : x <= y
  BY <1>1
<1> QED
  BY <1>2 DEF Min

LEMMA MaxIs ==
  ASSUME NEW S \in SUBSET Nat, S # {}, NEW hi \in Nat, \A x \in S : x <= hi
  PROVE  Max(S) \in S /\ \A x \in S : x <= Max(S)
<1> DEFINE T == {hi - x : x \in S}
<1>0. \A x \in S : hi - x \in Nat
  OBVIOUS
<1>1. T \in SUBSET Nat /\ T # {}
  BY <1>0
<1>2. PICK n \in T : \A m \in T : n <= m
  BY <1>1, LeastNumber
<1>3. PICK x \in S : n = hi - x
  BY <1>2
<1>4. \A y \in S : x >= y
  <2> SUFFICES ASSUME NEW y \in S PROVE x >= y
    OBVIOUS
  <2>1. hi - y \in T
    OBVIOUS
  <2> QED
    BY <1>2, <1>3, <2>1, x \in Nat, y \in Nat
<1>5. \E z \in S : \A y \in S : z >= y
  BY <1>4
<1> DEFINE z == CHOOSE z \in S : \A y \in S : z >= y
<1>6. z \in S /\ \A y \in S : z >= y
  BY <1>5
<1> QED
  BY <1>6 DEF Max

\* s lists the numbers of S in order.
Lists(s, S) ==
  /\ s \in Seq(Nat)
  /\ \A i, j \in 1 .. Len(s) : i < j => s[i] < s[j]
  /\ \A x : x \in S <=> \E i \in 1 .. Len(s) : s[i] = x

LEMMA ListsMore ==
  ASSUME NEW s, NEW S, Lists(s, S), NEW n \in Nat, \A x \in S : x < n
  PROVE  Lists(Append(s, n), S \cup {n})
<1> DEFINE t == Append(s, n)
<1>1. s \in Seq(Nat) /\ Len(s) \in Nat
  BY DEF Lists
<1>2. t \in Seq(Nat) /\ Len(t) = Len(s) + 1
      /\ (\A i \in 1 .. Len(s) : t[i] = s[i]) /\ t[Len(s) + 1] = n
  BY <1>1
<1>3. \A i \in 1 .. Len(s) : s[i] < n
  BY DEF Lists
<1>4. \A i, j \in 1 .. Len(t) : i < j => t[i] < t[j]
  <2> SUFFICES ASSUME NEW i \in 1 .. Len(t), NEW j \in 1 .. Len(t), i < j
               PROVE  t[i] < t[j]
    OBVIOUS
  <2>1. i \in 1 .. Len(s)
    BY <1>1, <1>2
  <2>2. CASE j = Len(s) + 1
    BY <2>1, <2>2, <1>2, <1>3
  <2>3. CASE j # Len(s) + 1
    <3>1. j \in 1 .. Len(s)
      BY <2>3, <1>1, <1>2
    <3> QED
      BY <2>1, <3>1, <1>2 DEF Lists
  <2> QED
    BY <2>2, <2>3
<1>5. \A x : x \in S \cup {n} <=> \E i \in 1 .. Len(t) : t[i] = x
  <2> SUFFICES ASSUME NEW x
               PROVE  x \in S \cup {n} <=> \E i \in 1 .. Len(t) : t[i] = x
    OBVIOUS
  <2>1. x \in S <=> \E i \in 1 .. Len(s) : s[i] = x
    BY DEF Lists
  <2>2. 1 .. Len(t) = (1 .. Len(s)) \cup {Len(s) + 1}
    BY <1>1, <1>2
  <2> HIDE DEF t
  <2> QED
    BY <2>1, <2>2, <1>2
<1> HIDE DEF t
<1>6. Lists(t, S \cup {n})
  BY <1>2, <1>4, <1>5 DEF Lists
<1> QED
  BY <1>6 DEF t

\* There is one way to list them.
LEMMA ListsOnce ==
  ASSUME NEW s, NEW t, NEW S, Lists(s, S), Lists(t, S)
  PROVE  s = t
<1>1. /\ s \in Seq(Nat) /\ Len(s) \in Nat /\ t \in Seq(Nat) /\ Len(t) \in Nat
      /\ \A i \in 1 .. Len(s) : s[i] \in Nat
      /\ \A i \in 1 .. Len(t) : t[i] \in Nat
  BY DEF Lists
<1> DEFINE Same(j) == /\ j <= Len(s) <=> j <= Len(t)
                      /\ j <= Len(s) => s[j] = t[j]
           G == {i \in Nat : \A j \in 1 .. i : Same(j)}
<1>2. 0 \in G
  OBVIOUS
<1>3. ASSUME NEW n \in Nat \ {0}, n - 1 \in G
      PROVE  n \in G
  <2>0. \A j \in 1 .. n - 1 : Same(j)
    <3> HIDE DEF Same
    <3> QED
      BY <1>3
  <2>1. \A j \in 1 .. n - 1 : /\ j <= Len(s) => j <= Len(t) /\ s[j] = t[j]
                              /\ j <= Len(t) => j <= Len(s) /\ s[j] = t[j]
    BY <2>0
  <2>2. ASSUME n <= Len(s)
        PROVE  \E j \in 1 .. Len(t) : t[j] = s[n] /\ j >= n
    <3>1. n \in 1 .. Len(s)
      BY <2>2, <1>1
    <3>2. PICK j \in 1 .. Len(t) : t[j] = s[n]
      BY <3>1 DEF Lists
    <3>3. ~(j < n)
      <4> SUFFICES ASSUME j < n PROVE FALSE
        OBVIOUS
      <4>1. j \in 1 .. n - 1 /\ j <= Len(t)
        BY <1>1
      <4>2. s[j] = t[j] /\ j \in 1 .. Len(s)
        BY <4>1, <2>1, <1>1
      <4>3. s[j] < s[n]
        BY <4>2, <3>1 DEF Lists
      <4> QED
        BY <4>2, <4>3, <3>1, <3>2, <1>1
    <3> QED
      BY <3>2, <3>3, <1>1
  <2>3. ASSUME n <= Len(t)
        PROVE  \E j \in 1 .. Len(s) : s[j] = t[n] /\ j >= n
    <3>1. n \in 1 .. Len(t)
      BY <2>3, <1>1
    <3>2. PICK j \in 1 .. Len(s) : s[j] = t[n]
      BY <3>1 DEF Lists
    <3>3. ~(j < n)
      <4> SUFFICES ASSUME j < n PROVE FALSE
        OBVIOUS
      <4>1. j \in 1 .. n - 1 /\ j <= Len(s)
        BY <1>1
      <4>2. s[j] = t[j] /\ j \in 1 .. Len(t)
        BY <4>1, <2>1, <1>1
      <4>3. t[j] < t[n]
        BY <4>2, <3>1 DEF Lists
      <4> QED
        BY <4>2, <4>3, <3>1, <3>2, <1>1
    <3> QED
      BY <3>2, <3>3, <1>1
  <2>4. ASSUME n <= Len(s), n <= Len(t)
        PROVE  s[n] = t[n]
    <3>1. n \in 1 .. Len(s) /\ n \in 1 .. Len(t)
      BY <2>4, <1>1
    <3>2. PICK j \in 1 .. Len(t) : t[j] = s[n] /\ j >= n
      BY <2>2, <2>4
    <3>3. PICK k \in 1 .. Len(s) : s[k] = t[n] /\ k >= n
      BY <2>3, <2>4
    <3>4. t[n] <= t[j] /\ s[n] <= s[k]
      <4>1. j # n => t[n] < t[j]
        BY <3>1, <3>2, <1>1 DEF Lists
      <4>2. k # n => s[n] < s[k]
        BY <3>1, <3>3, <1>1 DEF Lists
      <4> QED
        BY <4>1, <4>2, <3>1, <1>1, SMTT(30)
    <3> QED
      BY <3>1, <3>2, <3>3, <3>4, <1>1
  <2>5. n <= Len(s) => n <= Len(t)
    BY <2>2, <1>1
  <2>6. n <= Len(t) => n <= Len(s)
    BY <2>3, <1>1
  <2>7. \A j \in 1 .. n : j \in 1 .. n - 1 \/ j = n
    OBVIOUS
  <2>8. Same(n)
    BY <2>4, <2>5, <2>6
  <2> HIDE DEF Same
  <2> QED
    BY <2>0, <2>7, <2>8
<1>4. \A j \in 1 .. Len(s) + Len(t) : Same(j)
  <2> DEFINE N == Len(s) + Len(t)
  <2>1. N \in Nat
    BY <1>1
  <2>2. \A i \in 0 .. N : i \in G
    <3>1. \A i \in 0 + 1 .. N : i - 1 \in G => i \in G
      <4> HIDE DEF G, N
      <4> QED
        BY <1>3, <2>1
    <3> HIDE DEF G, N
    <3> QED
      BY <1>2, <3>1, <2>1, StepByStep
  <2>3. N \in G
    <3> HIDE DEF G, N
    <3> QED
      BY <2>1, <2>2
  <2> HIDE DEF Same
  <2> QED
    BY <2>3
<1>5. Len(s) = Len(t)
  <2>1. Len(s) > Len(t) => Len(s) \in 1 .. Len(s) + Len(t)
    BY <1>1
  <2>2. Len(t) > Len(s) => Len(t) \in 1 .. Len(s) + Len(t)
    BY <1>1
  <2>3. ~(Len(s) > Len(t))
    BY <2>1, <1>4, <1>1
  <2>4. ~(Len(t) > Len(s))
    BY <2>2, <1>4, <1>1
  <2> QED
    BY <2>3, <2>4, <1>1
<1>6. \A i \in 1 .. Len(s) : s[i] = t[i]
  <2>1. \A i \in 1 .. Len(s) : i \in 1 .. Len(s) + Len(t) /\ i <= Len(s)
    BY <1>1
  <2> QED
    BY <2>1, <1>4
<1> QED
  BY <1>1, <1>5, <1>6, SeqEqual

----------------------------------------------------------------------------
(* Frontmatter, fences and sections of a text.                             *)

LEMMA TextLines ==
  ASSUME NEW T \in Seq(LineSet)
  PROVE  /\ Len(T) \in Nat /\ DOMAIN T = 1 .. Len(T)
         /\ \A i \in 1 .. Len(T) : /\ T[i] \in LineSet
                                   /\ T[i].body \in Bodies
                                   /\ T[i].bom \in BOOLEAN /\ T[i].cr \in BOOLEAN
                                   /\ T[i] = [body |-> T[i].body, bom |-> T[i].bom,
                                              cr |-> T[i].cr]
<1>1. \A i \in 1 .. Len(T) : T[i] \in LineSet
  OBVIOUS
<1> QED
  BY <1>1 DEF LineSet

LEMMA FmBoundsIs ==
  ASSUME NEW T \in Seq(LineSet)
  PROVE  /\ FmBounds(T) \in 0 .. Len(T)
         /\ FmBounds(T) > 0 =>
              /\ FmBounds(T) \in 2 .. Len(T) /\ IsRule(T[1])
              /\ IsRule(T[FmBounds(T)]) /\ ~T[FmBounds(T)].bom
              /\ \A i \in 2 .. FmBounds(T) - 1 : ~(IsRule(T[i]) /\ ~T[i].bom)
         /\ FmBounds(T) = 0 =>
              \/ ~IsRule(T[1])
              \/ \A i \in 2 .. Len(T) : ~(IsRule(T[i]) /\ ~T[i].bom)
<1> DEFINE ends == {i \in 2 .. Len(T) : IsRule(T[i]) /\ ~T[i].bom}
<1>1. FmBounds(T) = IF IsRule(T[1]) /\ ends # {} THEN Min(ends) ELSE 0
  BY DEF FmBounds
<1>2. Len(T) \in Nat /\ ends \in SUBSET Nat
  BY TextLines
<1>3. CASE IsRule(T[1]) /\ ends # {}
  <2>1. Min(ends) \in ends /\ \A x \in ends : Min(ends) <= x
    <3> HIDE DEF ends
    <3> QED
      BY <1>2, <1>3, MinIs
  <2> DEFINE f == Min(ends)
  <2>2. f \in 2 .. Len(T) /\ IsRule(T[f]) /\ ~T[f].bom
    BY <2>1
  <2>3. \A i \in 2 .. f - 1 : i \notin ends
    <3> HIDE DEF ends
    <3> QED
      BY <2>1, <2>2, <1>2
  <2>4. \A i \in 2 .. f - 1 : ~(IsRule(T[i]) /\ ~T[i].bom)
    <3> HIDE DEF f
    <3> QED
      BY <2>2, <2>3, <1>2
  <2>5. FmBounds(T) = f
    BY <1>1, <1>3
  <2> HIDE DEF f
  <2> QED
    BY <2>2, <2>4, <2>5, <1>2, <1>3
<1>4. CASE ~(IsRule(T[1]) /\ ends # {})
  BY <1>1, <1>2, <1>4
<1> QED
  BY <1>3, <1>4

\* The places of the headings in a mask, which Headings lists.
Headed(T, fm, mask) ==
  {i \in 1 .. Len(T) : i > fm /\ i \notin mask /\ IsKind(T[i], "heading")}

LEMMA HeadingsIs ==
  ASSUME NEW T \in Seq(LineSet), NEW fm \in Nat, NEW mask
  PROVE  Lists(Headings(T, fm, mask), Headed(T, fm, mask))
<1> DEFINE n == Len(T)
           Is(i) == i > fm /\ i \notin mask /\ IsKind(T[i], "heading")
           Next1(i, h) == IF Is(i) THEN Append(h, i) ELSE h
           step == [i \in 0 + 1 .. n |-> [h \in Seq(Nat) |-> Next1(i, h)]]
<1>1. n \in Nat
  OBVIOUS
<1>2. step \in Steps(0, n, Seq(Nat))
  <2>1. \A i \in 1 .. n : \A h \in Seq(Nat) : Next1(i, h) \in Seq(Nat)
    <3> HIDE DEF Is
    <3> QED
      OBVIOUS
  <2> HIDE DEF Next1
  <2> QED
    BY <2>1 DEF Steps
<1>3. PICK f : Follows(f, 0, n, Seq(Nat), <<>>, step)
  <2>1. <<>> \in Seq(Nat) /\ 0 <= n
    BY <1>1
  <2> HIDE DEF step, n
  <2> QED
    BY <1>1, <1>2, <2>1, Recursion
<1>4. f = [i \in 0 .. n |-> IF i = 0 THEN <<>> ELSE Next1(i, f[i - 1])]
  <2>1. ASSUME NEW i \in 0 .. n, i # 0 PROVE f[i] = Next1(i, f[i - 1])
    <3>1. i \in 0 + 1 .. n /\ i - 1 \in 0 .. n /\ f[i - 1] \in Seq(Nat)
      BY <2>1, <1>3 DEF Follows
    <3>2. f[i] = step[i][f[i - 1]]
      BY <1>3, <3>1 DEF Follows
    <3> HIDE DEF Next1
    <3> QED
      BY <3>1, <3>2
  <2> HIDE DEF Next1, step
  <2> QED
    BY <1>3, <2>1 DEF Follows
<1> DEFINE o == CHOOSE f1 : f1 = [i \in 0 .. n |-> IF i = 0 THEN <<>> ELSE Next1(i, f1[i - 1])]
<1>5. o = [i \in 0 .. n |-> IF i = 0 THEN <<>> ELSE Next1(i, o[i - 1])]
  <2> HIDE DEF Next1, n
  <2> QED
    BY <1>4
<1>6. Headings(T, fm, mask) = o[n]
  BY DEF Headings
<1> HIDE DEF o
<1> DEFINE Upto(i) == {x \in 1 .. i : Is(x)}
           G == {i \in 0 .. n : Lists(o[i], Upto(i))}
<1>7. 0 \in G
  <2>1. o[0] = <<>> /\ Upto(0) = {}
    BY <1>5, <1>1
  <2>2. Lists(<<>>, {})
    BY DEF Lists
  <2> QED
    BY <2>1, <2>2, <1>1
<1>8. ASSUME NEW i \in 0 + 1 .. n, i - 1 \in G
      PROVE  i \in G
  <2>1. i \in 0 .. n /\ i - 1 \in 0 .. n /\ Lists(o[i - 1], Upto(i - 1)) /\ i \in Nat
    BY <1>8
  <2>2. o[i] = Next1(i, o[i - 1])
    <3> HIDE DEF Next1
    <3> QED
      BY <1>5, <2>1, <1>8
  <2>3. CASE Is(i)
    <3>1. Upto(i) = Upto(i - 1) \cup {i}
      <4> HIDE DEF Is
      <4> QED
        BY <2>1, <2>3, <1>8
    <3>2. \A x \in Upto(i - 1) : x < i
      BY <2>1
    <3> HIDE DEF Upto
    <3>3. Lists(Append(o[i - 1], i), Upto(i - 1) \cup {i})
      BY <2>1, <3>2, ListsMore
    <3> QED
      BY <2>1, <2>2, <2>3, <3>1, <3>3
  <2>4. CASE ~Is(i)
    <3>1. Upto(i) = Upto(i - 1)
      <4> HIDE DEF Is
      <4> QED
        BY <2>1, <2>4, <1>8
    <3> HIDE DEF Upto
    <3> QED
      BY <2>1, <2>2, <2>4, <3>1
  <2> QED
    BY <2>3, <2>4
<1>9. Lists(o[n], Upto(n))
  <2>1. \A i \in 0 .. n : i \in G
    <3> HIDE DEF G, n
    <3> QED
      BY <1>1, <1>7, <1>8, StepByStep
  <2>2. n \in G
    <3> HIDE DEF G, n
    <3> QED
      BY <2>1, <1>1
  <2> HIDE DEF Upto
  <2> QED
    BY <2>2
<1>10. Upto(n) = Headed(T, fm, mask)
  BY DEF Headed
<1> QED
  BY <1>6, <1>9, <1>10

LEMMA SeqIsFunction ==
  ASSUME NEW S, NEW s \in Seq(S)
  PROVE  /\ Len(s) \in Nat /\ DOMAIN s = 1 .. Len(s)
         /\ s = [i \in 1 .. Len(s) |-> s[i]]
<1>1. Len(s) \in Nat /\ s \in [1 .. Len(s) -> S]
  BY LenProperties
<1> QED
  BY <1>1

\* The headings of a text: those below the frontmatter and outside fences.
HeadSet(T) ==
  {i \in FmBounds(T) + 1 .. Len(T) :
     /\ IsKind(T[i], "heading")
     /\ OpenFence(T, FmBounds(T))[i - 1] = NoMarker}
Heads(T) == Headings(T, FmBounds(T), FenceMask(T, FmBounds(T)))

LEMMA HeadsAre ==
  ASSUME NEW T \in Seq(LineSet)
  PROVE  Lists(Heads(T), HeadSet(T))
<1> DEFINE fm == FmBounds(T)
           open == OpenFence(T, fm)
           mask == FenceMask(T, fm)
<1>1. fm \in 0 .. Len(T) /\ fm \in Nat /\ Len(T) \in Nat
  BY FmBoundsIs
<1>2. \A i \in fm + 1 .. Len(T) : open[i] = Fenced(T[i], open[i - 1])
  BY <1>1, OpenFenceIs
<1>3. Headed(T, fm, mask) = HeadSet(T)
  <2>1. ASSUME NEW i \in fm + 1 .. Len(T), IsKind(T[i], "heading")
        PROVE  i \notin mask <=> open[i - 1] = NoMarker
    <3>1. open[i - 1] = NoMarker => open[i] = NoMarker
      <4>1. ~Opens(T[i])
        BY <2>1 DEF Opens, IsKind
      <4> QED
        BY <4>1, <1>2 DEF Fenced
    <3> QED
      BY <3>1, <1>1 DEF FenceMask
  <2>2. \A i : i \in 1 .. Len(T) /\ i > fm <=> i \in fm + 1 .. Len(T)
    BY <1>1
  <2> HIDE DEF mask, fm, open
  <2>3. HeadSet(T) = {i \in fm + 1 .. Len(T) : IsKind(T[i], "heading") /\ open[i - 1] = NoMarker}
    BY DEF HeadSet, fm, open
  <2> QED
    BY <2>1, <2>2, <2>3 DEF Headed
<1>4. Lists(Headings(T, fm, mask), Headed(T, fm, mask))
  BY <1>1, HeadingsIs
<1> QED
  BY <1>3, <1>4 DEF Heads

\* Section Hj of a text.
SectionEnd(T, h, j) == IF j < Len(h) THEN h[j + 1] - 1 ELSE Len(T)
Section(T, h, j) ==
  [id |-> j, level |-> IF j = 0 THEN 0 ELSE T[h[j]].body.level,
   title |-> IF j = 0 THEN "(preamble)" ELSE T[h[j]].body.title,
   start |-> IF j = 0 THEN 0 ELSE h[j] - 1, end |-> SectionEnd(T, h, j)]

LEMMA ParseIs ==
  ASSUME NEW T \in Seq(LineSet)
  PROVE  /\ Lists(Heads(T), HeadSet(T))
         /\ Parse(T) = [j \in 1 .. Len(Heads(T)) + 1 |-> Section(T, Heads(T), j - 1)]
         /\ Len(Parse(T)) = Len(Heads(T)) + 1
<1> DEFINE h == Heads(T)
<1>1. Lists(h, HeadSet(T)) /\ Len(h) \in Nat /\ DOMAIN h = 1 .. Len(h)
  BY HeadsAre DEF Lists
<1> HIDE DEF h
<1> DEFINE first == <<[id |-> 0, level |-> 0, title |-> "(preamble)", start |-> 0,
                       end |-> SectionEnd(T, h, 0)]>>
           rest == [j \in DOMAIN h |->
             [id |-> j, level |-> T[h[j]].body.level,
              title |-> T[h[j]].body.title,
              start |-> h[j] - 1, end |-> SectionEnd(T, h, j)]]
           S == {Section(T, h, j) : j \in 0 .. Len(h)}
<1>2. Parse(T) = first \o rest
  BY DEF Parse, Heads, h, SectionsAt, SectionEnd
<1>3. first[1] = Section(T, h, 0) /\ first \in Seq(S) /\ Len(first) = 1
  BY <1>1 DEF Section
<1>4. \A j \in 1 .. Len(h) : rest[j] = Section(T, h, j)
  BY <1>1 DEF Section
<1>5. rest \in Seq(S) /\ Len(rest) = Len(h)
  <2>1. \A j \in 1 .. Len(h) : rest[j] \in S
    <3> HIDE DEF rest
    <3> QED
      BY <1>1, <1>4
  <2>2. rest \in [1 .. Len(h) -> S]
    <3> HIDE DEF S
    <3> QED
      BY <1>1, <2>1
  <2> HIDE DEF rest, S
  <2> QED
    BY <1>1, <2>2, IsASeq
<1> HIDE DEF first, rest, S
<1>6. /\ first \o rest \in Seq(S) /\ Len(first \o rest) = Len(h) + 1
      /\ \A i \in 1 .. Len(h) + 1 :
           (first \o rest)[i] = IF i <= 1 THEN first[i] ELSE rest[i - 1]
  <2>1. /\ first \o rest \in Seq(S) /\ Len(first \o rest) = Len(first) + Len(rest)
        /\ \A i \in 1 .. Len(first) + Len(rest) : (first \o rest)[i] =
              IF i <= Len(first) THEN first[i] ELSE rest[i - Len(first)]
    BY <1>3, <1>5, ConcatProperties
  <2>2. Len(first) + Len(rest) = Len(h) + 1
    BY <1>1, <1>3, <1>5
  <2> QED
    BY <2>1, <2>2, <1>3
<1>7. \A i \in 1 .. Len(h) + 1 : (first \o rest)[i] = Section(T, h, i - 1)
  <2> SUFFICES ASSUME NEW i \in 1 .. Len(h) + 1
               PROVE  (first \o rest)[i] = Section(T, h, i - 1)
    OBVIOUS
  <2>1. CASE i = 1
    BY <2>1, <1>3, <1>6
  <2>2. CASE i # 1
    <3>1. i - 1 \in 1 .. Len(h) /\ ~(i <= 1)
      BY <2>2, <1>1
    <3> QED
      BY <3>1, <1>4, <1>6
  <2> QED
    BY <2>1, <2>2
<1>8. Parse(T) = [j \in 1 .. Len(h) + 1 |-> Section(T, h, j - 1)]
  <2>1. Parse(T) \in Seq(S) /\ Len(Parse(T)) = Len(h) + 1
    BY <1>2, <1>6
  <2>2. Parse(T) = [i \in 1 .. Len(Parse(T)) |-> Parse(T)[i]]
    BY <2>1, SeqIsFunction
  <2>3. \A i \in 1 .. Len(h) + 1 : Parse(T)[i] = Section(T, h, i - 1)
    BY <1>2, <1>7
  <2> QED
    BY <2>1, <2>2, <2>3
<1> QED
  BY <1>1, <1>2, <1>6, <1>8 DEF h

\* Where a section lies.
LEMMA SectionIs ==
  ASSUME NEW T \in Seq(LineSet), T # <<>>, NEW s \in ToSet(Parse(T))
  PROVE  /\ s.start \in Nat /\ s.end \in Nat
         /\ s.start <= s.end /\ s.end <= Len(T) /\ s.start < Len(T)
         /\ s.id \in 0 .. Len(Heads(T)) /\ s = Section(T, Heads(T), s.id)
         /\ s = Parse(T)[s.id + 1]
         /\ s.id = 0 => s.start = 0 /\ FmBounds(T) <= s.end
         /\ s.id # 0 => /\ FmBounds(T) <= s.start /\ s.start < s.end
                        /\ IsKind(T[s.start + 1], "heading")
<1> DEFINE h == Heads(T)
<1>1. /\ Lists(h, HeadSet(T)) /\ Len(h) \in Nat /\ Len(T) \in Nat \ {0}
      /\ Parse(T) = [j \in 1 .. Len(h) + 1 |-> Section(T, h, j - 1)]
      /\ FmBounds(T) \in 0 .. Len(T)
  BY ParseIs, FmBoundsIs, EmptySeq DEF Lists
<1>2. PICK j \in 1 .. Len(h) + 1 : s = Parse(T)[j]
  BY <1>1 DEF ToSet
<1>3. s = Section(T, h, j - 1) /\ j - 1 \in 0 .. Len(h) /\ s.id = j - 1
  <2>1. s = Section(T, h, j - 1)
    BY <1>1, <1>2
  <2> QED
    BY <1>1, <2>1 DEF Section
<1> HIDE DEF h
<1>4. \A i \in 1 .. Len(h) : /\ h[i] \in FmBounds(T) + 1 .. Len(T) /\ h[i] \in Nat
                             /\ IsKind(T[h[i]], "heading")
  <2>1. \A i \in 1 .. Len(h) : h[i] \in HeadSet(T)
    BY <1>1 DEF Lists
  <2> QED
    BY <2>1, <1>1 DEF HeadSet
<1>5. \A i \in 1 .. Len(h) - 1 : h[i] < h[i + 1]
  <2>1. \A i \in 1 .. Len(h) - 1 : i \in 1 .. Len(h) /\ i + 1 \in 1 .. Len(h) /\ i < i + 1
    BY <1>1
  <2> QED
    BY <2>1, <1>1 DEF Lists
<1>6. s.start = (IF s.id = 0 THEN 0 ELSE h[s.id] - 1) /\ s.end = SectionEnd(T, h, s.id)
  BY <1>3 DEF Section
<1>7. s.id < Len(h) => s.id + 1 \in 1 .. Len(h) /\ s.end = h[s.id + 1] - 1
  BY <1>3, <1>6, <1>1 DEF SectionEnd
<1>8. ~(s.id < Len(h)) => s.end = Len(T)
  BY <1>3, <1>6, <1>1 DEF SectionEnd
<1>9. s.end \in Nat /\ s.end <= Len(T) /\ FmBounds(T) <= s.end
  BY <1>1, <1>4, <1>7, <1>8
<1>10. s.id # 0 => /\ s.start \in Nat /\ FmBounds(T) <= s.start /\ s.start < s.end
                   /\ IsKind(T[s.start + 1], "heading")
  <2> SUFFICES ASSUME s.id # 0
               PROVE  /\ s.start \in Nat /\ FmBounds(T) <= s.start /\ s.start < s.end
                      /\ IsKind(T[s.start + 1], "heading")
    OBVIOUS
  <2>1. s.id \in 1 .. Len(h) /\ s.start = h[s.id] - 1 /\ s.start + 1 = h[s.id]
    BY <1>1, <1>3, <1>4, <1>6
  <2>2. s.start < s.end
    <3>1. CASE s.id < Len(h)
      <4>1. h[s.id] < h[s.id + 1] /\ s.end = h[s.id + 1] - 1 /\ h[s.id + 1] \in Nat
        BY <2>1, <3>1, <1>1, <1>4, <1>5, <1>7
      <4>2. h[s.id] \in Nat
        BY <2>1, <1>4
      <4> QED
        BY <2>1, <4>1, <4>2
    <3>2. CASE ~(s.id < Len(h))
      BY <2>1, <3>2, <1>1, <1>4, <1>8
    <3> QED
      BY <3>1, <3>2
  <2> QED
    BY <2>1, <2>2, <1>1, <1>4, SMTT(30)
<1>11. s = Parse(T)[s.id + 1]
  <2>1. (j - 1) + 1 = j
    OBVIOUS
  <2> QED
    BY <2>1, <1>2, <1>3
<1>12. s.id = 0 => s.start = 0
  BY <1>6
<1>13. /\ s.start \in Nat /\ s.start <= s.end /\ s.start < Len(T)
  BY <1>1, <1>9, <1>10, <1>12
<1>14. s = Section(T, h, s.id) /\ s.id \in 0 .. Len(h)
  BY <1>3
<1> QED
  BY <1>9, <1>10, <1>11, <1>12, <1>13, <1>14 DEF h

----------------------------------------------------------------------------
(* The pieces splice is made of.                                           *)

LEMMA SliceIs ==
  ASSUME NEW S, NEW s \in Seq(S), NEW a \in Nat, NEW b \in Nat, a <= b, b <= Len(s)
  PROVE  /\ SubSeq(s, a + 1, b) \in Seq(S)
         /\ Len(SubSeq(s, a + 1, b)) = b - a
         /\ \A i \in 1 .. b - a : SubSeq(s, a + 1, b)[i] = s[a + i]
<1>1. \A i \in a + 1 .. b : s[i] \in S
  BY ElementOfSeq
<1>2. /\ SubSeq(s, a + 1, b) \in Seq(S)
      /\ Len(SubSeq(s, a + 1, b)) = IF a + 1 <= b THEN b - (a + 1) + 1 ELSE 0
      /\ \A i \in 1 .. b - (a + 1) + 1 : SubSeq(s, a + 1, b)[i] = s[(a + 1) + i - 1]
  BY <1>1, SubSeqProperties
<1> QED
  BY <1>2

LEMMA PrefixIs ==
  ASSUME NEW S, NEW s \in Seq(S), NEW b \in Nat, b <= Len(s)
  PROVE  /\ SubSeq(s, 1, b) \in Seq(S)
         /\ Len(SubSeq(s, 1, b)) = b
         /\ \A i \in 1 .. b : SubSeq(s, 1, b)[i] = s[i]
<1>1. /\ SubSeq(s, 0 + 1, b) \in Seq(S)
      /\ Len(SubSeq(s, 0 + 1, b)) = b - 0
      /\ \A i \in 1 .. b - 0 : SubSeq(s, 0 + 1, b)[i] = s[0 + i]
  BY SliceIs
<1> QED
  BY <1>1

LEMMA LinesIs ==
  ASSUME NEW cs \in Seq(Bodies), NEW cr \in BOOLEAN
  PROVE  /\ Lines(cs, cr) \in Seq(LineSet)
         /\ Len(Lines(cs, cr)) = Len(cs)
         /\ \A i \in 1 .. Len(cs) : Lines(cs, cr)[i] = Line(cs[i], cr)
<1>1. \A i \in 1 .. Len(cs) : cs[i] \in Bodies /\ Line(cs[i], cr) \in LineSet
  BY DEF Line, LineSet
<1>2. DOMAIN cs = 1 .. Len(cs) /\ Len(cs) \in Nat
  OBVIOUS
<1>3. Lines(cs, cr) \in [1 .. Len(cs) -> LineSet]
  BY <1>1, <1>2 DEF Lines
<1> QED
  BY <1>2, <1>3, IsASeq DEF Lines

\* What splice puts together: the lines of T up to a + p, new ones, and the
\* lines of T from b - s on.
Glued(T, a, b, new, p, s, cr) ==
  LET old == Slice(T, a, b) IN
  SubSeq(T, 1, a) \o SubSeq(old, 1, p)
  \o Lines(SubSeq(new, p + 1, Len(new) - s), cr)
  \o SubSeq(old, Len(old) - s + 1, Len(old))
  \o SubSeq(T, b + 1, Len(T))

IsGlued(G, T, a, b, new, p, s, cr) ==
  /\ G \in Seq(LineSet) /\ Len(G) = a + Len(new) + (Len(T) - b)
  /\ \A i \in 1 .. a + p : G[i] = T[i]
  /\ \A i \in a + p + 1 .. a + Len(new) - s : G[i] = Line(new[i - a], cr)
  /\ \A i \in a + Len(new) - s + 1 .. Len(G) : G[i] = T[i - Len(new) - a + b]

LEMMA MergedIs ==
  ASSUME NEW T \in Seq(LineSet), NEW a \in Nat, NEW b \in Nat, a <= b, b <= Len(T),
         NEW new \in Seq(Bodies), NEW cr \in BOOLEAN,
         NEW p \in Nat, NEW s \in Nat, p + s <= b - a, p + s <= Len(new)
  PROVE  IsGlued(Glued(T, a, b, new, p, s, cr), T, a, b, new, p, s, cr)
<1> DEFINE M == Glued(T, a, b, new, p, s, cr)
           old == Slice(T, a, b)
<1>0. Len(T) \in Nat /\ Len(new) \in Nat
  OBVIOUS
<1>1. /\ old \in Seq(LineSet) /\ Len(old) = b - a
      /\ \A i \in 1 .. b - a : old[i] = T[a + i]
  BY SliceIs DEF Slice
<1>19. M = SubSeq(T, 1, a) \o SubSeq(old, 1, p)
             \o Lines(SubSeq(new, p + 1, Len(new) - s), cr)
             \o SubSeq(old, Len(old) - s + 1, Len(old))
             \o SubSeq(T, b + 1, Len(T))
  BY DEF Glued
<1> HIDE DEF M, old
<1> DEFINE A == SubSeq(T, 1, a)
           B == SubSeq(old, 1, p)
           mid == SubSeq(new, p + 1, Len(new) - s)
           C == Lines(mid, cr)
           D == SubSeq(old, Len(old) - s + 1, Len(old))
           E == SubSeq(T, b + 1, Len(T))
           m == Len(new) - s - p
           n == Len(T)
<1>2. A \in Seq(LineSet) /\ Len(A) = a /\ \A i \in 1 .. a : A[i] = T[i]
  BY <1>0, PrefixIs
<1>3. B \in Seq(LineSet) /\ Len(B) = p /\ \A i \in 1 .. p : B[i] = T[a + i]
  <2>1. B \in Seq(LineSet) /\ Len(B) = p /\ \A i \in 1 .. p : B[i] = old[i]
    BY <1>1, PrefixIs
  <2> QED
    BY <2>1, <1>1
<1>4. C \in Seq(LineSet) /\ Len(C) = m /\ \A i \in 1 .. m : C[i] = Line(new[p + i], cr)
  <2>1. Len(new) - s \in Nat /\ p <= Len(new) - s
    BY <1>0
  <2>2. mid \in Seq(Bodies) /\ Len(mid) = m /\ \A i \in 1 .. m : mid[i] = new[p + i]
    <3>1. /\ mid \in Seq(Bodies) /\ Len(mid) = (Len(new) - s) - p
          /\ \A i \in 1 .. (Len(new) - s) - p : mid[i] = new[p + i]
      BY <2>1, SliceIs
    <3> QED
      BY <3>1, <1>0
  <2> HIDE DEF mid, m
  <2>3. /\ C \in Seq(LineSet) /\ Len(C) = Len(mid)
        /\ \A i \in 1 .. Len(mid) : C[i] = Line(mid[i], cr)
    BY <2>2, LinesIs
  <2> HIDE DEF C
  <2> QED
    BY <2>2, <2>3
<1>5. D \in Seq(LineSet) /\ Len(D) = s /\ \A i \in 1 .. s : D[i] = T[b - s + i]
  <2> DEFINE d == Len(old) - s
  <2>0. Len(old) = b - a
    BY <1>1
  <2>1. d \in Nat /\ d = b - a - s /\ Len(old) - d = s
    BY <2>0
  <2>2. /\ SubSeq(old, d + 1, Len(old)) \in Seq(LineSet) /\ Len(SubSeq(old, d + 1, Len(old))) = Len(old) - d
        /\ \A i \in 1 .. Len(old) - d : SubSeq(old, d + 1, Len(old))[i] = old[d + i]
    <3> HIDE DEF d
    <3>1. d <= Len(old) /\ Len(old) \in Nat
      BY <1>1, <2>1
    <3> QED
      BY <1>1, <2>1, <3>1, SliceIs
  <2>3. \A i \in 1 .. s : old[d + i] = T[b - s + i]
    <3> SUFFICES ASSUME NEW i \in 1 .. s PROVE old[d + i] = T[b - s + i]
      OBVIOUS
    <3>1. d + i \in 1 .. b - a /\ a + (d + i) = b - s + i
      BY <2>1
    <3> QED
      BY <3>1, <1>1
  <2> QED
    BY <2>1, <2>2, <2>3
<1>6. E \in Seq(LineSet) /\ Len(E) = n - b /\ \A i \in 1 .. n - b : E[i] = T[b + i]
  BY <1>0, SliceIs
<1>7. M = (((A \o B) \o C) \o D) \o E
  BY <1>19
<1>8. m \in Nat /\ n \in Nat /\ n - b \in Nat
  BY <1>0
<1> HIDE DEF A, B, C, D, E, m, n
<1> DEFINE F == A \o B
           G == F \o C
           H == G \o D
           I == H \o E
<1>9. F \in Seq(LineSet) /\ Len(F) = a + p /\ \A i \in 1 .. a + p : F[i] = T[i]
  <2>1. /\ F \in Seq(LineSet) /\ Len(F) = Len(A) + Len(B)
        /\ \A i \in 1 .. Len(A) + Len(B) : F[i] = IF i <= Len(A) THEN A[i] ELSE B[i - Len(A)]
    BY <1>2, <1>3, ConcatProperties
  <2>2. \A i \in a + 1 .. a + p : i - a \in 1 .. p /\ a + (i - a) = i
    OBVIOUS
  <2> HIDE DEF F
  <2> QED
    BY <2>1, <2>2, <1>2, <1>3
<1>10. /\ G \in Seq(LineSet) /\ Len(G) = a + p + m
       /\ \A i \in 1 .. a + p : G[i] = T[i]
       /\ \A i \in a + p + 1 .. a + p + m : G[i] = Line(new[i - a], cr)
  <2>1. /\ G \in Seq(LineSet) /\ Len(G) = Len(F) + Len(C)
        /\ \A i \in 1 .. Len(F) + Len(C) : G[i] = IF i <= Len(F) THEN F[i] ELSE C[i - Len(F)]
    BY <1>4, <1>9, ConcatProperties
  <2>2. \A i \in a + p + 1 .. a + p + m : /\ i - (a + p) \in 1 .. m /\ p + (i - (a + p)) = i - a
                                          /\ ~(i <= a + p) /\ i \in 1 .. a + p + m
    BY <1>8
  <2>3. \A i \in 1 .. a + p : i \in 1 .. a + p + m
    BY <1>8
  <2> HIDE DEF F, G
  <2>4. \A i \in a + p + 1 .. a + p + m : G[i] = Line(new[i - a], cr)
    <3> SUFFICES ASSUME NEW i \in a + p + 1 .. a + p + m PROVE G[i] = Line(new[i - a], cr)
      OBVIOUS
    <3>1. G[i] = C[i - (a + p)]
      BY <2>1, <2>2, <1>4, <1>9
    <3>2. C[i - (a + p)] = Line(new[p + (i - (a + p))], cr)
      BY <2>2, <1>4
    <3> QED
      BY <3>1, <3>2, <2>2
  <2> QED
    BY <2>1, <2>3, <2>4, <1>4, <1>9, SMTT(30)
<1>11. /\ H \in Seq(LineSet) /\ Len(H) = a + p + m + s
       /\ \A i \in 1 .. a + p + m : H[i] = G[i]
       /\ \A i \in a + p + m + 1 .. a + p + m + s : H[i] = T[i - (p + m + s) - a + b]
  <2>1. /\ H \in Seq(LineSet) /\ Len(H) = Len(G) + Len(D)
        /\ \A i \in 1 .. Len(G) + Len(D) : H[i] = IF i <= Len(G) THEN G[i] ELSE D[i - Len(G)]
    BY <1>5, <1>10, ConcatProperties
  <2>2. \A i \in a + p + m + 1 .. a + p + m + s :
           /\ i - (a + p + m) \in 1 .. s /\ b - s + (i - (a + p + m)) = i - (p + m + s) - a + b
           /\ ~(i <= a + p + m) /\ i \in 1 .. a + p + m + s
    BY <1>8
  <2>3. \A i \in 1 .. a + p + m : i \in 1 .. a + p + m + s
    BY <1>8
  <2> HIDE DEF G, H
  <2>4. \A i \in a + p + m + 1 .. a + p + m + s : H[i] = T[i - (p + m + s) - a + b]
    <3> SUFFICES ASSUME NEW i \in a + p + m + 1 .. a + p + m + s
                 PROVE  H[i] = T[i - (p + m + s) - a + b]
      OBVIOUS
    <3>1. H[i] = D[i - (a + p + m)]
      BY <2>1, <2>2, <1>5, <1>10
    <3>2. D[i - (a + p + m)] = T[b - s + (i - (a + p + m))]
      BY <2>2, <1>5
    <3> QED
      BY <3>1, <3>2, <2>2
  <2> QED
    BY <2>1, <2>3, <2>4, <1>5, <1>10
<1>12. /\ I \in Seq(LineSet) /\ Len(I) = a + p + m + s + (n - b)
       /\ \A i \in 1 .. a + p + m + s : I[i] = H[i]
       /\ \A i \in a + p + m + s + 1 .. a + p + m + s + (n - b) :
            I[i] = T[i - (p + m + s) - a + b]
  <2> HIDE DEF H
  <2>1. /\ I \in Seq(LineSet) /\ Len(I) = Len(H) + Len(E)
        /\ \A i \in 1 .. Len(H) + Len(E) : I[i] = IF i <= Len(H) THEN H[i] ELSE E[i - Len(H)]
    <3>1. H \in Seq(LineSet) /\ E \in Seq(LineSet)
      BY <1>6, <1>11
    <3> QED
      BY <3>1, ConcatProperties
  <2>2. \A i \in a + p + m + s + 1 .. a + p + m + s + (n - b) :
           /\ i - (a + p + m + s) \in 1 .. n - b /\ b + (i - (a + p + m + s)) = i - (p + m + s) - a + b
           /\ ~(i <= a + p + m + s) /\ i \in 1 .. a + p + m + s + (n - b)
    BY <1>8
  <2>3. \A i \in 1 .. a + p + m + s : i \in 1 .. a + p + m + s + (n - b)
    BY <1>8
  <2> HIDE DEF I
  <2>4. \A i \in a + p + m + s + 1 .. a + p + m + s + (n - b) : I[i] = T[i - (p + m + s) - a + b]
    <3> SUFFICES ASSUME NEW i \in a + p + m + s + 1 .. a + p + m + s + (n - b)
                 PROVE  I[i] = T[i - (p + m + s) - a + b]
      OBVIOUS
    <3>1. I[i] = E[i - (a + p + m + s)]
      BY <2>1, <2>2, <1>6, <1>11
    <3>2. E[i - (a + p + m + s)] = T[b + (i - (a + p + m + s))]
      BY <2>2, <1>6
    <3> QED
      BY <3>1, <3>2, <2>2
  <2> QED
    BY <2>1, <2>3, <2>4, <1>6, <1>11
<1>13. M = I
  BY <1>7
<1>14. p + m + s = Len(new) /\ a + p + m = a + Len(new) - s
  BY <1>0 DEF m
<1> HIDE DEF F, G, H, I
<1>15. \A i \in 1 .. a + p : I[i] = T[i]
  <2>1. \A i \in 1 .. a + p : i \in 1 .. a + p + m /\ i \in 1 .. a + p + m + s
    BY <1>8
  <2> QED
    BY <2>1, <1>10, <1>11, <1>12
<1>16. \A i \in a + p + 1 .. a + Len(new) - s : I[i] = Line(new[i - a], cr)
  <2>1. \A i \in a + p + 1 .. a + p + m : i \in 1 .. a + p + m /\ i \in 1 .. a + p + m + s
    BY <1>8
  <2> QED
    BY <2>1, <1>10, <1>11, <1>12, <1>14
<1>17. Len(I) = a + Len(new) + (n - b)
  <2>1. Len(I) = a + (p + m + s) + (n - b)
    BY <1>8, <1>12, SMTT(30)
  <2> QED
    BY <2>1, <1>14
<1>18. \A i \in a + Len(new) - s + 1 .. Len(I) : I[i] = T[i - Len(new) - a + b]
  <2> SUFFICES ASSUME NEW i \in a + Len(new) - s + 1 .. Len(I)
               PROVE  I[i] = T[i - Len(new) - a + b]
    OBVIOUS
  <2>1. i \in a + p + m + 1 .. a + p + m + s + (n - b)
    BY <1>12, <1>14
  <2>2. CASE i <= a + p + m + s
    <3>1. i \in a + p + m + 1 .. a + p + m + s /\ i \in 1 .. a + p + m + s
      BY <2>1, <2>2, <1>8
    <3> QED
      BY <3>1, <1>11, <1>12, <1>14
  <2>3. CASE ~(i <= a + p + m + s)
    <3>1. i \in a + p + m + s + 1 .. a + p + m + s + (n - b)
      BY <2>1, <2>3, <1>8
    <3> QED
      BY <3>1, <1>12, <1>14
  <2> QED
    BY <2>2, <2>3
<1> QED
  BY <1>1, <1>12, <1>13, <1>15, <1>16, <1>17, <1>18 DEF n, M, IsGlued

LEMMA LastAndFront ==
  ASSUME NEW S, NEW s \in Seq(S), s # <<>>
  PROVE  /\ Len(s) \in Nat \ {0} /\ Last(s) = s[Len(s)] /\ Last(s) \in S
         /\ Front(s) \in Seq(S) /\ Len(Front(s)) = Len(s) - 1
         /\ \A i \in 1 .. Len(s) - 1 : Front(s)[i] = s[i]
<1>1. Len(s) \in Nat \ {0}
  BY EmptySeq
<1>2. Len(s) - 1 \in Nat /\ Len(s) - 1 <= Len(s)
  BY <1>1
<1>3. /\ SubSeq(s, 1, Len(s) - 1) \in Seq(S) /\ Len(SubSeq(s, 1, Len(s) - 1)) = Len(s) - 1
      /\ \A i \in 1 .. Len(s) - 1 : SubSeq(s, 1, Len(s) - 1)[i] = s[i]
  BY <1>2, PrefixIs
<1> QED
  BY <1>1, <1>3 DEF Last, Front

LEMMA MinOfTwo ==
  ASSUME NEW x \in Nat, NEW y \in Nat
  PROVE  Min({x, y}) = IF x <= y THEN x ELSE y
<1>1. {x, y} \in SUBSET Nat /\ {x, y} # {}
  OBVIOUS
<1>2. Min({x, y}) \in {x, y} /\ \A z \in {x, y} : Min({x, y}) <= z
  BY <1>1, MinIs
<1> QED
  BY <1>2

LEMMA BlankIsABody == Blank \in Bodies /\ NoLine \in LineSet
BY DEF Bodies, LineSet, NoLine, Line, Blank

LEMMA EndAsIs ==
  ASSUME NEW T \in Seq(LineSet), NEW new \in Seq(Bodies)
  PROVE  /\ EndAs(T, new) \in Seq(Bodies)
         /\ \/ EndAs(T, new) = new
            \/ EndsInNewline(T) /\ EndAs(T, new) = Append(new, Blank)
            \/ /\ ~EndsInNewline(T) /\ new # <<>> /\ Last(new) = Blank
               /\ EndAs(T, new) = Front(new)
         /\ EndsInNewline(T) => EndAs(T, new) # <<>> /\ Last(EndAs(T, new)) = Blank
<1>1. CASE EndsInNewline(T) /\ (new = <<>> \/ Last(new) # Blank)
  <2>1. EndAs(T, new) = Append(new, Blank)
    BY <1>1 DEF EndAs
  <2>2. /\ Append(new, Blank) \in Seq(Bodies) /\ Append(new, Blank) # <<>>
        /\ Len(Append(new, Blank)) = Len(new) + 1
        /\ Append(new, Blank)[Len(new) + 1] = Blank
    BY BlankIsABody, AppendProperties
  <2> QED
    BY <1>1, <2>1, <2>2 DEF Last
<1>2. CASE EndsInNewline(T) /\ ~(new = <<>> \/ Last(new) # Blank)
  BY <1>2 DEF EndAs
<1>3. CASE ~EndsInNewline(T) /\ new # <<>> /\ Last(new) = Blank
  <2>1. EndAs(T, new) = Front(new) /\ Front(new) \in Seq(Bodies)
    BY <1>3, LastAndFront DEF EndAs
  <2> QED
    BY <1>3, <2>1
<1>4. CASE ~EndsInNewline(T) /\ ~(new # <<>> /\ Last(new) = Blank)
  BY <1>4 DEF EndAs
<1> QED
  BY <1>1, <1>2, <1>3, <1>4

LEMMA SharedIs ==
  ASSUME NEW old \in Seq(LineSet), NEW new \in Seq(Bodies)
  PROVE  LET p == SharedHead(old, new)
             s == SharedTail(old, new, p) IN
         /\ p \in Nat /\ s \in Nat /\ p + s <= Len(old) /\ p + s <= Len(new)
         /\ \A i \in 1 .. p : SameContent(old[i], new[i])
         /\ \A i \in 0 .. s - 1 : SameContent(old[Len(old) - i], new[Len(new) - i])
         /\ \A k \in 0 .. Len(old) : k <= Len(new) /\ (\A i \in 1 .. k : SameContent(old[i], new[i]))
              => k <= p
<1> DEFINE p == SharedHead(old, new)
           s == SharedTail(old, new, p)
           m == Min({Len(old), Len(new)})
           H == {k \in 0 .. m : \A i \in 1 .. k : SameContent(old[i], new[i])}
           E == {k \in 0 .. m - p : \A i \in 0 .. k - 1 :
                   SameContent(old[Len(old) - i], new[Len(new) - i])}
<1>1. m \in Nat /\ m <= Len(old) /\ m <= Len(new)
      /\ \A k \in Nat : k <= Len(old) /\ k <= Len(new) => k <= m
  BY MinOfTwo, LenProperties
<1>2. p = Max(H) /\ s = Max(E)
  BY DEF SharedHead, SharedTail
<1> HIDE DEF m, p, s
<1>3. 0 \in H /\ H \in SUBSET Nat /\ \A x \in H : x <= m
  BY <1>1
<1>4. p \in H /\ \A x \in H : x <= p
  <2> HIDE DEF H
  <2> QED
    BY <1>1, <1>2, <1>3, MaxIs
<1>5. p \in Nat /\ p <= m /\ m - p \in Nat
  BY <1>1, <1>4
<1>6. 0 \in E /\ E \in SUBSET Nat /\ \A x \in E : x <= m - p
  <2> HIDE DEF H
  <2> QED
    BY <1>1, <1>5
<1>7. s \in E
  <2> HIDE DEF E, H
  <2> QED
    BY <1>2, <1>5, <1>6, MaxIs
<1>8. s \in Nat /\ p + s <= m
  <2> HIDE DEF H
  <2> QED
    BY <1>1, <1>5, <1>7
<1>9. \A i \in 0 .. s - 1 : SameContent(old[Len(old) - i], new[Len(new) - i])
  <2> HIDE DEF H
  <2> QED
    BY <1>7
<1>10. \A k \in 0 .. Len(old) : k <= Len(new) /\ (\A i \in 1 .. k : SameContent(old[i], new[i])) => k <= p
  <2> SUFFICES ASSUME NEW k \in 0 .. Len(old), k <= Len(new),
                      \A i \in 1 .. k : SameContent(old[i], new[i])
               PROVE  k <= p
    OBVIOUS
  <2>1. k \in 0 .. m
    BY <1>1
  <2>2. k \in H
    BY <2>1
  <2> HIDE DEF H
  <2> QED
    BY <2>2, <1>4
<1>11. p + s <= Len(old) /\ p + s <= Len(new)
  BY <1>1, <1>5, <1>8, LenProperties
<1>12. \A i \in 1 .. p : SameContent(old[i], new[i])
  BY <1>4
<1> QED
  BY <1>5, <1>8, <1>9, <1>10, <1>11, <1>12 DEF p, s

\* The terminators splice looks up are terminators of the text.
LEMMA TerminatorsAre ==
  ASSUME NEW T \in Seq(LineSet), T # <<>>, NEW at \in 0 .. Len(T), NEW changed \in BOOLEAN
  PROVE  /\ InsertCr(T, at) \in BOOLEAN /\ Terminator(T, at, changed) \in BOOLEAN
         /\ LastEol(T) \in BOOLEAN
         /\ \A cr \in BOOLEAN :
              Len(T) > 1 /\ (\A i \in 1 .. Len(T) - 1 : T[i].cr = cr) =>
              /\ InsertCr(T, at) = cr /\ Terminator(T, at, changed) = cr
              /\ LastEol(T) = cr
         /\ Len(T) = 1 => /\ InsertCr(T, at) = FALSE /\ Terminator(T, at, changed) = FALSE
                          /\ LastEol(T) = FALSE
<1>1. Len(T) \in Nat \ {0} /\ \A i \in 1 .. Len(T) : T[i].cr \in BOOLEAN
  BY TextLines, EmptySeq
<1> DEFINE above == Min({at, Len(T) - 1})
<1>2. above = IF at <= Len(T) - 1 THEN at ELSE Len(T) - 1
  BY <1>1, MinOfTwo
<1>3. above > 0 => above \in 1 .. Len(T) - 1
  BY <1>1, <1>2
<1>4. InsertCr(T, at) = IF above > 0 THEN T[above].cr ELSE at < Len(T) - 1 /\ T[at + 1].cr
  BY DEF InsertCr
<1> HIDE DEF above
<1>5. at < Len(T) - 1 => at + 1 \in 1 .. Len(T) - 1
  BY <1>1
<1>6. InsertCr(T, at) \in BOOLEAN
  <2>1. CASE above > 0
    BY <2>1, <1>1, <1>3, <1>4
  <2>2. CASE ~(above > 0)
    <3>1. InsertCr(T, at) = (at < Len(T) - 1 /\ T[at + 1].cr)
      BY <2>2, <1>4
    <3> QED
      BY <3>1
  <2> QED
    BY <2>1, <2>2
<1>7. Terminator(T, at, changed) = IF changed /\ at < Len(T) - 1
                                   THEN T[at + 1].cr ELSE InsertCr(T, at)
  <2>1. CASE changed /\ at < Len(T) - 1
    <3>1. Terminator(T, at, changed) = (at < Len(T) - 1 /\ T[at + 1].cr)
      BY <2>1 DEF Terminator, ElemCr
    <3>2. T[at + 1].cr \in BOOLEAN
      BY <2>1, <1>1, <1>5
    <3> QED
      BY <2>1, <3>1, <3>2
  <2>2. CASE ~(changed /\ at < Len(T) - 1)
    BY <2>2 DEF Terminator
  <2> QED
    BY <2>1, <2>2
<1>8. Terminator(T, at, changed) \in BOOLEAN
  BY <1>1, <1>5, <1>6, <1>7
<1>9. LastEol(T) \in BOOLEAN
  BY <1>1 DEF LastEol
<1>10. ASSUME NEW cr \in BOOLEAN, \A i \in 1 .. Len(T) - 1 : T[i].cr = cr, Len(T) > 1
       PROVE  InsertCr(T, at) = cr /\ Terminator(T, at, changed) = cr /\ LastEol(T) = cr
  <2>1. \A i \in 1 .. Len(T) - 1 : T[i].cr = cr
    BY <1>10
  <2>2. above = 0 => at = 0 /\ at < Len(T) - 1
    BY <1>1, <1>2, <1>10 DEF above
  <2>3. above \in Nat
    BY <1>1, <1>2
  <2>4. InsertCr(T, at) = cr
    <3>1. CASE above > 0
      BY <3>1, <2>1, <1>3, <1>4
    <3>2. CASE above = 0
      <4>1. at + 1 \in 1 .. Len(T) - 1 /\ at < Len(T) - 1
        BY <3>2, <2>2, <1>5
      <4> QED
        BY <3>2, <4>1, <2>1, <1>4
    <3> QED
      BY <3>1, <3>2, <2>3
  <2>5. Terminator(T, at, changed) = cr
    BY <2>1, <2>4, <1>5, <1>7
  <2>6. LastEol(T) = cr
    <3>1. Len(T) - 1 \in 1 .. Len(T) - 1
      BY <1>1, <1>10
    <3> QED
      BY <3>1, <2>1, <1>10 DEF LastEol
  <2> QED
    BY <2>4, <2>5, <2>6
<1>11. ASSUME Len(T) = 1
       PROVE  InsertCr(T, at) = FALSE /\ Terminator(T, at, changed) = FALSE /\ LastEol(T) = FALSE
  <2>1. ~(above > 0) /\ ~(at < Len(T) - 1)
    BY <1>11, <1>2
  <2>2. InsertCr(T, at) = (at < Len(T) - 1 /\ T[at + 1].cr)
    BY <2>1, <1>4
  <2>3. InsertCr(T, at) = FALSE
    BY <2>1, <2>2
  <2>4. Terminator(T, at, changed) = FALSE
    BY <2>1, <2>3, <1>7
  <2>5. LastEol(T) = FALSE
    BY <1>11 DEF LastEol
  <2> QED
    BY <2>3, <2>4, <2>5
<1> QED
  BY <1>6, <1>8, <1>9, <1>10, <1>11

----------------------------------------------------------------------------
(* Splice.                                                                 *)

\* Where splice changes the terminator of a line it keeps.
ClosesLast(T, a, body, p, s) ==
  a + p = Len(T) /\ p + s < Len(body) /\ ~EndsInNewline(T)
OpensLast(T, a, b, body, p, s) ==
  b >= Len(T) /\ ~EndsInNewline(T) /\ s = 0 /\ (p + s < Len(body) \/ p < b - a)

\* U is T with the lines a + 1 .. b replaced by body, of which the first p and
\* the last s lines are those that were there.
Spliced(T, U, a, b, body, p, s, cr) ==
  LET N == a + Len(body) + (Len(T) - b) IN
  /\ p \in Nat /\ s \in Nat /\ p + s <= b - a /\ p + s <= Len(body) /\ cr \in BOOLEAN
  /\ cr = Terminator(T, a + p, p < b - a - s)
  /\ \A i \in 1 .. p : SameContent(T[a + i], body[i])
  /\ \A i \in 0 .. s - 1 : SameContent(T[b - i], body[Len(body) - i])
  /\ U \in Seq(LineSet) /\ Len(U) = N
  /\ \A i \in 1 .. a + p :
       /\ U[i].body = T[i].body /\ U[i].bom = T[i].bom
       /\ \/ U[i].cr = T[i].cr
          \/ i = Len(T) /\ ClosesLast(T, a, body, p, s) /\ InsertCr(T, Len(T) - 1)
          \/ (i = N /\ OpensLast(T, a, b, body, p, s))
  /\ \A i \in a + p + 1 .. a + Len(body) - s :
       /\ U[i].body = body[i - a] /\ U[i].bom = FALSE
       /\ U[i].cr = cr \/ (i = N /\ OpensLast(T, a, b, body, p, s))
  /\ \A i \in a + Len(body) - s + 1 .. N : U[i] = T[i - Len(body) - a + b]
  /\ ClosesLast(T, a, body, p, s) /\ InsertCr(T, Len(T) - 1) => U[Len(T)].cr
  /\ OpensLast(T, a, b, body, p, s) /\ N > 0 => ~U[N].cr

\* L is ls, but for the terminator of line i.
Recoded(L, ls, i, cr) ==
  /\ L \in Seq(LineSet) /\ Len(L) = Len(ls)
  /\ \A j \in 1 .. Len(ls) : j # i => L[j] = ls[j]
  /\ L[i].body = ls[i].body /\ L[i].bom = ls[i].bom /\ L[i].cr = cr

LEMMA SetCrIs ==
  ASSUME NEW ls \in Seq(LineSet), NEW i \in 1 .. Len(ls), NEW cr
  PROVE  cr \in BOOLEAN => Recoded(SetCr(ls, i, cr), ls, i, cr)
<1>0. SUFFICES ASSUME cr \in BOOLEAN PROVE Recoded(SetCr(ls, i, cr), ls, i, cr)
  OBVIOUS
<1>1. ls[i] \in LineSet
  OBVIOUS
<1>2. [ls[i] EXCEPT !.cr = cr] \in LineSet
  BY <1>0, <1>1 DEF LineSet
<1>3. SetCr(ls, i, cr) = [ls EXCEPT ![i] = [ls[i] EXCEPT !.cr = cr]]
  BY DEF SetCr
<1>4. /\ SetCr(ls, i, cr) \in Seq(LineSet) /\ Len(SetCr(ls, i, cr)) = Len(ls)
      /\ \A j \in 1 .. Len(ls) : j # i => SetCr(ls, i, cr)[j] = ls[j]
      /\ SetCr(ls, i, cr)[i] = [ls[i] EXCEPT !.cr = cr]
  <2>1. /\ [ls EXCEPT ![i] = [ls[i] EXCEPT !.cr = cr]] \in Seq(LineSet)
        /\ Len([ls EXCEPT ![i] = [ls[i] EXCEPT !.cr = cr]]) = Len(ls)
    BY <1>2, ExceptSeq
  <2> QED
    BY <1>3, <2>1
<1>5. /\ [ls[i] EXCEPT !.cr = cr].body = ls[i].body
      /\ [ls[i] EXCEPT !.cr = cr].bom = ls[i].bom
      /\ [ls[i] EXCEPT !.cr = cr].cr = cr
  BY <1>1 DEF LineSet
<1> QED
  BY <1>4, <1>5 DEF Recoded

\* The notes: texts are never empty.
Notes == Seq(LineSet) \ {<<>>}

Replaced(T, U, a, b, body) ==
  /\ body \in Seq(Bodies)
  /\ U \in Notes
  /\ a + Len(body) + (Len(T) - b) = 0 => U = <<NoLine>>
  /\ a + Len(body) + (Len(T) - b) > 0 =>
       \E p, s, cr : Spliced(T, U, a, b, body, p, s, cr)

LEMMA SpliceIs ==
  ASSUME NEW T \in Seq(LineSet), T # <<>>, NEW a \in Nat, NEW b \in Nat,
         a <= b, b <= Len(T), NEW new \in Seq(Bodies), NEW body,
         body = IF b >= Len(T) THEN EndAs(T, new) ELSE new
  PROVE  Replaced(T, Splice(T, a, b, new), a, b, body)
<1>1. body \in Seq(Bodies)
  BY EndAsIs
<1> DEFINE n == Len(T)
           N == a + Len(body) + (n - b)
           old == Slice(T, a, b)
           p == SharedHead(old, body)
           s == SharedTail(old, body, p)
           cr == Terminator(T, a + p, p < Len(old) - s)
           mid == Lines(SubSeq(body, p + 1, Len(body) - s), cr)
           M == SubSeq(T, 1, a) \o SubSeq(old, 1, p) \o mid
                \o SubSeq(old, Len(old) - s + 1, Len(old))
                \o SubSeq(T, b + 1, Len(T))
           changed == mid # <<>> \/ p < Len(old)
           V == ClosedOff(T, a + p, mid, M)
           W == LeftOpen(T, b, s, changed, V)
<1>2. Splice(T, a, b, new) = Join(W)
  BY DEF Splice, Exchanged, Merged
<1>3. n \in Nat \ {0} /\ Len(body) \in Nat /\ N \in Nat
  BY <1>1, EmptySeq
<1>4. /\ old \in Seq(LineSet) /\ Len(old) = b - a
      /\ \A i \in 1 .. b - a : old[i] = T[a + i]
  BY SliceIs DEF Slice
<1> HIDE DEF old
<1>5. /\ p \in Nat /\ s \in Nat /\ p + s <= Len(old) /\ p + s <= Len(body)
      /\ \A i \in 1 .. p : SameContent(old[i], body[i])
      /\ \A i \in 0 .. s - 1 : SameContent(old[Len(old) - i], body[Len(body) - i])
  BY <1>1, <1>4, SharedIs
<1> HIDE DEF p, s
<1>6. p + s <= b - a /\ a + p \in 0 .. n /\ (p < Len(old) - s) \in BOOLEAN
  BY <1>3, <1>4, <1>5
<1>7. cr \in BOOLEAN /\ cr = Terminator(T, a + p, p < b - a - s)
  BY <1>4, <1>6, TerminatorsAre
<1> HIDE DEF cr
<1>8. /\ M \in Seq(LineSet) /\ Len(M) = N
      /\ \A i \in 1 .. a + p : M[i] = T[i]
      /\ \A i \in a + p + 1 .. a + Len(body) - s : M[i] = Line(body[i - a], cr)
      /\ \A i \in a + Len(body) - s + 1 .. N : M[i] = T[i - Len(body) - a + b]
  <2>1. M = Glued(T, a, b, body, p, s, cr)
    BY DEF Glued, old
  <2>3. p + s <= b - a /\ p + s <= Len(body) /\ p \in Nat /\ s \in Nat
    BY <1>5, <1>6
  <2> HIDE DEF M, N
  <2>4. IsGlued(Glued(T, a, b, body, p, s, cr), T, a, b, body, p, s, cr)
    BY <1>1, <1>7, <2>3, MergedIs
  <2> QED
    BY <2>1, <2>4 DEF N, IsGlued
<1>9. mid # <<>> <=> p + s < Len(body)
  <2> DEFINE e == Len(body) - s
  <2>1. e \in Nat /\ p <= e /\ e <= Len(body)
    BY <1>3, <1>5
  <2>2. SubSeq(body, p + 1, e) \in Seq(Bodies) /\ Len(SubSeq(body, p + 1, e)) = e - p
    <3> HIDE DEF e
    <3> QED
      BY <1>1, <1>5, <2>1, SliceIs
  <2>3. mid \in Seq(LineSet) /\ Len(mid) = e - p
    BY <1>7, <2>2, LinesIs
  <2> HIDE DEF mid
  <2> QED
    BY <1>3, <1>5, <2>3, EmptySeq
<1> DEFINE closing == ClosesLast(T, a, body, p, s)
           leaving == OpensLast(T, a, b, body, p, s)
<1>10. InsertCr(T, n - 1) \in BOOLEAN
  <2>1. n - 1 \in 0 .. Len(T)
    BY <1>3
  <2> QED
    BY <2>1, TerminatorsAre
<1> HIDE DEF M, mid
\* ClosedOff.
<1>11. /\ V \in Seq(LineSet) /\ Len(V) = N
       /\ \A i \in 1 .. N : V[i].body = M[i].body /\ V[i].bom = M[i].bom
       /\ \A i \in 1 .. N : V[i] = M[i] \/ (i = n /\ i = a + p /\ closing /\ InsertCr(T, n - 1))
       /\ closing /\ InsertCr(T, n - 1) => V[n].cr
  <2> DEFINE C == /\ mid # <<>> /\ a + p = Len(T) /\ ~EndsInNewline(T)
                  /\ ~M[a + p].cr /\ InsertCr(T, Len(T) - 1)
  <2>1. V = IF C THEN SetCr(M, a + p, TRUE) ELSE M
    BY DEF ClosedOff
  <2>2. CASE C
    <3>1. a + p \in 1 .. Len(M) /\ a + p = n
      BY <2>2, <1>3, <1>5, <1>8
    <3>2. closing
      BY <2>2, <1>9 DEF ClosesLast
    <3>3. /\ V \in Seq(LineSet) /\ Len(V) = Len(M)
          /\ \A j \in 1 .. Len(M) : j # a + p => V[j] = M[j]
          /\ V[a + p].body = M[a + p].body /\ V[a + p].bom = M[a + p].bom
          /\ V[a + p].cr = TRUE
      <4> HIDE DEF V
      <4>0. PICK c \in BOOLEAN : c = TRUE
        OBVIOUS
      <4>1. V = SetCr(M, a + p, c)
        BY <2>1, <2>2, <4>0
      <4>2. M \in Seq(LineSet) /\ a + p \in 1 .. Len(M)
        BY <3>1, <1>8
      <4>3. Recoded(SetCr(M, a + p, c), M, a + p, c)
        BY <4>2, SetCrIs
      <4> QED
        BY <4>0, <4>1, <4>3 DEF Recoded
    <3> HIDE DEF V, closing, N
    <3> QED
      BY <2>2, <3>1, <3>2, <3>3, <1>8
  <2>3. CASE ~C
    <3>1. V = M
      BY <2>1, <2>3
    <3>2. closing /\ InsertCr(T, n - 1) => V[n].cr
      <4> SUFFICES ASSUME closing, InsertCr(T, n - 1)
                   PROVE  V[n].cr
        OBVIOUS
      <4>1. mid # <<>> /\ a + p = n /\ ~EndsInNewline(T)
        BY <1>9 DEF ClosesLast
      <4>2. M[a + p].cr
        BY <2>3, <4>1
      <4> QED
        BY <4>1, <4>2, <3>1
    <3> HIDE DEF V, closing, N
    <3> QED
      BY <3>1, <3>2, <1>8
  <2> QED
    BY <2>2, <2>3
<1> HIDE DEF V
\* LeftOpen.
<1>12. changed <=> p + s < Len(body) \/ p < b - a
  BY <1>4, <1>9
<1>13. /\ W \in Seq(LineSet) /\ Len(W) = N
       /\ \A i \in 1 .. N : W[i].body = V[i].body /\ W[i].bom = V[i].bom
       /\ \A i \in 1 .. N : W[i] = V[i] \/ (i = N /\ leaving)
       /\ leaving /\ N > 0 => ~W[N].cr
  <2> DEFINE L == /\ b >= Len(T) /\ ~EndsInNewline(T) /\ s = 0 /\ changed /\ V # <<>>
  <2>1. W = IF L THEN SetCr(V, Len(V), FALSE) ELSE V
    BY DEF LeftOpen
  <2>2. V # <<>> <=> N > 0
    BY <1>3, <1>11, EmptySeq
  <2>3. CASE L
    <3>1. N \in 1 .. Len(V) /\ leaving
      BY <2>2, <2>3, <1>3, <1>11, <1>12 DEF OpensLast
    <3>2. W = SetCr(V, N, FALSE)
      BY <2>1, <2>3, <1>11
    <3>3. /\ W \in Seq(LineSet) /\ Len(W) = Len(V)
          /\ \A j \in 1 .. Len(V) : j # N => W[j] = V[j]
          /\ W[N].body = V[N].body /\ W[N].bom = V[N].bom
          /\ W[N].cr = FALSE
      <4> HIDE DEF W, N
      <4>0. PICK c \in BOOLEAN : c = FALSE
        OBVIOUS
      <4>1. V \in Seq(LineSet) /\ N \in 1 .. Len(V)
        BY <3>1, <1>11
      <4>2. W = SetCr(V, N, c)
        BY <3>2, <4>0
      <4>3. Recoded(SetCr(V, N, c), V, N, c)
        BY <4>1, SetCrIs
      <4> QED
        BY <4>0, <4>2, <4>3 DEF Recoded
    <3> HIDE DEF W, leaving, N
    <3> QED
      BY <3>1, <3>3, <1>11
  <2>4. CASE ~L
    <3>1. W = V
      BY <2>1, <2>4
    <3>2. ~(leaving /\ N > 0)
      BY <2>2, <2>4, <1>12 DEF OpensLast
    <3> HIDE DEF W, leaving, N
    <3> QED
      BY <3>1, <3>2, <1>11
  <2> QED
    BY <2>3, <2>4
<1> HIDE DEF W
<1>14. N = 0 => Join(W) = <<NoLine>>
  <2>1. N = 0 => W = <<>>
    BY <1>13, EmptySeq
  <2> QED
    BY <2>1 DEF Join
<1>15. N > 0 => Join(W) = W /\ W # <<>>
  BY <1>13, EmptySeq DEF Join
<1>16. Join(W) \in Seq(LineSet) /\ Join(W) # <<>>
  <2>0. NoLine \in LineSet
    BY BlankIsABody
  <2>1. <<NoLine>> \in Seq(LineSet) /\ <<NoLine>> # <<>>
    BY <2>0
  <2>2. N = 0 \/ N > 0
    BY <1>3
  <2>3. CASE N = 0
    BY <2>1, <2>3, <1>14
  <2>4. CASE N > 0
    BY <2>4, <1>13, <1>15
  <2> QED
    BY <2>2, <2>3, <2>4
<1>17. ASSUME N > 0
       PROVE  Spliced(T, W, a, b, body, p, s, cr)
  <2>1. \A i \in 1 .. p : SameContent(T[a + i], body[i])
    <3>1. \A i \in 1 .. p : i \in 1 .. b - a
      BY <1>6, <1>5
    <3> QED
      BY <3>1, <1>4, <1>5
  <2>2. \A i \in 0 .. s - 1 : SameContent(T[b - i], body[Len(body) - i])
    <3>1. \A i \in 0 .. s - 1 : Len(old) - i \in 1 .. b - a /\ a + (Len(old) - i) = b - i
      <4>1. Len(old) = b - a
        BY <1>4
      <4> QED
        BY <4>1, <1>5, <1>6
    <3> QED
      BY <3>1, <1>4, <1>5
  <2>3. \A i \in 1 .. a + p : i \in 1 .. N
    BY <1>3, <1>5
  <2>4. \A i \in a + p + 1 .. a + Len(body) - s : i \in 1 .. N /\ i # a + p
    BY <1>3, <1>5
  <2>5. \A i \in a + Len(body) - s + 1 .. N : /\ i \in 1 .. N /\ i # a + p
                                              /\ ~(i = N /\ leaving)
    <3>1. leaving => s = 0 /\ b = n
      BY DEF OpensLast
    <3>2. \A i \in a + Len(body) - s + 1 .. N : i \in 1 .. N /\ i # a + p
      BY <1>3, <1>5
    <3>3. leaving => a + Len(body) - s = N
      BY <3>1, <1>3
    <3>4. a + Len(body) - s \in Int
      BY <1>3, <1>5
    <3> HIDE DEF leaving, N
    <3> QED
      BY <3>2, <3>3, <3>4, <1>3
  <2> HIDE DEF N, leaving, closing
  <2>6. ASSUME NEW i \in 1 .. a + p
        PROVE  /\ W[i].body = T[i].body /\ W[i].bom = T[i].bom
               /\ \/ W[i].cr = T[i].cr
                  \/ i = n /\ closing /\ InsertCr(T, n - 1)
                  \/ i = N /\ leaving
    BY <2>3, <1>8, <1>11, <1>13
  <2>7. ASSUME NEW i \in a + p + 1 .. a + Len(body) - s
        PROVE  /\ W[i].body = body[i - a] /\ W[i].bom = FALSE
               /\ W[i].cr = cr \/ (i = N /\ leaving)
    <3>0. M[i] = Line(body[i - a], cr)
      BY <1>8
    <3>1. M[i].body = body[i - a] /\ M[i].bom = FALSE /\ M[i].cr = cr
      BY <3>0 DEF Line
    <3> QED
      BY <3>1, <2>4, <1>11, <1>13
  <2>8. ASSUME NEW i \in a + Len(body) - s + 1 .. N
        PROVE  W[i] = T[i - Len(body) - a + b]
    BY <2>5, <1>8, <1>11, <1>13
  <2>9. closing /\ InsertCr(T, n - 1) => W[n].cr
    <3> SUFFICES ASSUME closing, InsertCr(T, n - 1) PROVE W[n].cr
      OBVIOUS
    <3>1. V[n].cr
      BY <1>11
    <3>2. n \in 1 .. N /\ n # N
      BY <1>3, <1>5 DEF N, ClosesLast, closing
    <3> QED
      BY <3>1, <3>2, <1>13
  <2> QED
    BY <2>1, <2>2, <2>6, <2>7, <2>8, <2>9, <1>5, <1>6, <1>7, <1>13
       DEF Spliced, N, leaving, closing
<1>18. /\ body \in Seq(Bodies)
       /\ Splice(T, a, b, new) \in Seq(LineSet) /\ Splice(T, a, b, new) # <<>>
       /\ a + Len(body) + (Len(T) - b) = 0 => Splice(T, a, b, new) = <<NoLine>>
       /\ a + Len(body) + (Len(T) - b) > 0 =>
            \E p0, s0, cr0 : Spliced(T, Splice(T, a, b, new), a, b, body, p0, s0, cr0)
  BY <1>1, <1>2, <1>14, <1>15, <1>16, <1>17
<1> QED
  BY <1>18 DEF Replaced, Notes

=============================================================================
