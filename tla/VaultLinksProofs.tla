-------------------------- MODULE VaultLinksProofs --------------------------
(***************************************************************************)
(* Proofs about the vault as a graph: for every vault, whatever its        *)
(* folders, names and links, the queries agree, a write goes to the note   *)
(* that was named, a relocation takes along exactly the links to its note, *)
(* and an apply does what its preview said.                                *)
(***************************************************************************)
EXTENDS VaultLinks, FiniteSetTheorems, SequenceTheorems, TLAPS

Words == Seq(STRING)

LEMMA PathTypes == \A p \in Paths : p \in Words /\ p # <<>>
<1>1. PathOrder \in Seq(Words)
  BY VaultsAssumption DEF Words
<1> QED
  BY <1>1, PathsAssumption DEF Paths, Range, NoPath

\* A nonempty set of numbers has a least.
LEMMA LeastNumber ==
  ASSUME NEW T \in SUBSET Nat, T # {}
  PROVE  \E n \in T : \A m \in T : n <= m
\* The intervals up to a number of T are finite, and one of them is minimal.
<1> DEFINE Up == {0 .. n : n \in T}
<1>1. IsWellFoundedOn(StrictSubsetOrdering(Nat), FiniteSubsetsOf(Nat))
  BY FS_StrictSubsetOrderingWellFounded
<1>2. Up \subseteq FiniteSubsetsOf(Nat)
  <2>1. \A n \in T : 0 .. n \in SUBSET Nat /\ IsFiniteSet(0 .. n)
    BY FS_Interval
  <2> QED
    BY <2>1 DEF FiniteSubsetsOf
<1>3. Up # {}
  OBVIOUS
<1>4. PICK x \in Up : \A y \in Up : ~(<<y, x>> \in StrictSubsetOrdering(Nat))
  <2> HIDE DEF Up
  <2> QED
  BY <1>1, <1>2, <1>3, WFMin
<1>5. PICK n \in T : x = 0 .. n
  BY <1>4
<1>6. ASSUME NEW m \in T, m < n
      PROVE  FALSE
  <2>1. <<0 .. m, 0 .. n>> \in StrictSubsetOrdering(Nat)
    <3>1. 0 .. m \in SUBSET Nat /\ 0 .. n \in SUBSET Nat /\ m \in Nat /\ n \in Nat
      OBVIOUS
    <3>2. 0 .. m \subseteq 0 .. n
      BY <1>6, <3>1
    <3>3. n \in 0 .. n /\ n \notin 0 .. m
      BY <1>6, <3>1
    <3> QED
      BY <3>1, <3>2, <3>3 DEF StrictSubsetOrdering
  <2> QED
    BY <1>4, <1>5, <2>1
<1>7. \A m \in T : n <= m
  BY <1>6
<1> QED
  BY <1>7

----------------------------------------------------------------------------
(* Paths and links.                                                        *)

LEMMA FolderOfPath ==
  ASSUME NEW p \in Words, p # <<>>
  PROVE  /\ Folder(p) \in Words
         /\ Len(Folder(p)) = Len(p) - 1
         /\ \A i \in 1 .. Len(p) - 1 : Folder(p)[i] = p[i]
         /\ Last(p) \in STRING
         /\ Len(p) \in Nat \ {0}
<1>1. p \in Seq(STRING) /\ Len(p) \in Nat \ {0}
  BY EmptySeq DEF Words
<1>2. \A i \in 1 .. Len(p) : p[i] \in STRING
  BY <1>1, ElementOfSeq
<1>3. /\ SubSeq(p, 1, Len(p) - 1) \in Seq(STRING)
      /\ Len(SubSeq(p, 1, Len(p) - 1))
           = IF 1 <= Len(p) - 1 THEN Len(p) - 1 - 1 + 1 ELSE 0
      /\ \A i \in 1 .. Len(p) - 1 - 1 + 1 :
           SubSeq(p, 1, Len(p) - 1)[i] = p[1 + i - 1]
  <2>1. \A i \in 1 .. Len(p) - 1 : p[i] \in STRING
    BY <1>1, <1>2
  <2>2. Len(p) - 1 \in Int /\ 1 \in Int
    BY <1>1
  <2> QED
    BY <2>1, <2>2, SubSeqProperties
<1>4. \A i \in 1 .. Len(p) - 1 : SubSeq(p, 1, Len(p) - 1)[i] = p[i]
  <2> TAKE i \in 1 .. Len(p) - 1
  <2>1. i \in 1 .. Len(p) - 1 - 1 + 1 /\ 1 + i - 1 = i
    BY <1>1
  <2> QED
    BY <1>3, <2>1
<1>5. Len(SubSeq(p, 1, Len(p) - 1)) = Len(p) - 1
  <2>1. CASE 1 <= Len(p) - 1
    <3>1. Len(p) - 1 - 1 + 1 = Len(p) - 1
      BY <1>1
    <3>2. Len(SubSeq(p, 1, Len(p) - 1)) = Len(p) - 1 - 1 + 1
      BY <1>3, <2>1
    <3> QED
      BY <3>1, <3>2
  <2>2. CASE ~(1 <= Len(p) - 1)
    <3>1. Len(SubSeq(p, 1, Len(p) - 1)) = 0
      BY <1>3, <2>2
    <3>2. Len(p) - 1 = 0
      <4>1. \A n \in Nat \ {0} : ~(1 <= n - 1) => n - 1 = 0
        OBVIOUS
      <4> QED
        BY <1>1, <2>2, <4>1
    <3> QED
      BY <3>1, <3>2
  <2> QED
    BY <2>1, <2>2
<1>6. p[Len(p)] \in STRING
  BY <1>1, <1>2
<1>7. Folder(p) = SubSeq(p, 1, Len(p) - 1) /\ Last(p) = p[Len(p)]
  BY DEF Folder, Front, Last
<1> QED
  BY <1>1, <1>3, <1>4, <1>5, <1>6, <1>7 DEF Words

\* The longest common prefix of two paths is one.
LEMMA CommonPrefix ==
  ASSUME NEW s \in Words, NEW t \in Words
  PROVE  LET c == Len(LongestCommonPrefix({s, t}))
         IN /\ c \in Nat /\ c <= Len(s) /\ c <= Len(t)
            /\ SubSeq(s, 1, c) = SubSeq(t, 1, c)
<1> DEFINE All == CommonPrefixes({s, t})
           Short == {Len(s) - Len(x) : x \in All}
<1>1. \A x \in All : /\ Len(x) \in Nat /\ Len(x) <= Len(s) /\ Len(x) <= Len(t)
                     /\ SubSeq(s, 1, Len(x)) = SubSeq(t, 1, Len(x))
  <2> SUFFICES ASSUME NEW x \in All
               PROVE  /\ Len(x) \in Nat /\ Len(x) <= Len(s) /\ Len(x) <= Len(t)
                      /\ SubSeq(s, 1, Len(x)) = SubSeq(t, 1, Len(x))
    OBVIOUS
  <2>1. PICK r \in {s, t} : \E n \in 0 .. Len(r) : x = SubSeq(r, 1, n)
    BY DEF CommonPrefixes, Prefixes
  <2>2. IsPrefix(x, s) /\ IsPrefix(x, t)
    BY DEF CommonPrefixes
  <2>3. Len(r) \in Nat /\ r \in Seq(STRING)
    BY <2>1, LenProperties DEF Words
  <2>4. Len(x) \in Nat
    <3> PICK n \in 0 .. Len(r) : x = SubSeq(r, 1, n)
      BY <2>1
    <3>1. \A i \in 1 .. n : r[i] \in STRING
      BY <2>1, <2>3, ElementOfSeq
    <3>2. SubSeq(r, 1, n) \in Seq(STRING)
      BY <2>1, <2>3, <3>1, SubSeqProperties
    <3> QED
      BY <3>2, LenProperties
  <2> QED
    BY <2>2, <2>4 DEF IsPrefix
<1>2. All # {}
  <2>1. SubSeq(s, 1, 0) = <<>> /\ SubSeq(t, 1, 0) = <<>>
    BY SubSeqEmpty
  <2>2. Len(s) \in Nat /\ Len(t) \in Nat
    BY LenProperties DEF Words
  <2>3. <<>> \in Prefixes(s)
    BY <2>1, <2>2 DEF Prefixes
  <2>4. IsPrefix(<<>>, s) /\ IsPrefix(<<>>, t)
    <3>1. SubSeq(<<>>, 1, 0) = <<>> /\ Len(<<>>) = 0
      BY SubSeqEmpty, EmptySeq
    <3> QED
      BY <2>1, <2>2, <3>1 DEF IsPrefix
  <2> QED
    BY <2>3, <2>4 DEF CommonPrefixes
<1>3. Len(s) \in Nat /\ Len(t) \in Nat
  BY LenProperties DEF Words
<1>4. PICK y \in All : \A x \in All : Len(x) <= Len(y)
  <2> HIDE DEF All
  <2>0. \A x \in All : Len(s) - Len(x) \in Nat
    <3> TAKE x \in All
    <3>1. Len(x) \in Nat /\ Len(x) <= Len(s)
      BY <1>1
    <3> QED
      BY <1>3, <3>1
  <2>1. Short \in SUBSET Nat /\ Short # {}
    BY <1>2, <2>0
  <2>2. PICK n \in Short : \A m \in Short : n <= m
    BY <2>1, LeastNumber
  <2>3. PICK y \in All : n = Len(s) - Len(y)
    BY <2>2
  <2>4. ASSUME NEW x \in All
        PROVE  Len(x) <= Len(y)
    <3>1. Len(s) - Len(y) <= Len(s) - Len(x)
      BY <2>2, <2>3
    <3>2. Len(x) \in Nat /\ Len(y) \in Nat
      BY <1>1
    <3> QED
      BY <1>3, <3>1, <3>2
  <2> QED
    BY <2>4
<1>5. LongestCommonPrefix({s, t}) \in All
  BY <1>4 DEF LongestCommonPrefix
<1> QED
  BY <1>1, <1>5

LEMMA LinkTypes ==
  ASSUME NEW l \in Links
  PROVE  /\ l.kind \in {"wiki", "md"} /\ l.up \in Nat /\ l.dot \in BOOLEAN
         /\ l.path \in Words /\ l.path # <<>>
  BY DEF Links, Words, NoPath

\* A part of a path up to its end has the same last word.
LEMMA EndOfPath ==
  ASSUME NEW p \in Words, p # <<>>, NEW c \in Nat, c < Len(p)
  PROVE  /\ SubSeq(p, c + 1, Len(p)) \in Words
         /\ SubSeq(p, c + 1, Len(p)) # <<>>
         /\ Last(SubSeq(p, c + 1, Len(p))) = Last(p)
<1> DEFINE e == SubSeq(p, c + 1, Len(p))
<1>1. p \in Seq(STRING) /\ Len(p) \in Nat \ {0}
  BY EmptySeq DEF Words
<1>2. \A i \in c + 1 .. Len(p) : p[i] \in STRING
  BY <1>1, ElementOfSeq
<1>3. /\ e \in Seq(STRING)
      /\ Len(e) = IF c + 1 <= Len(p) THEN Len(p) - (c + 1) + 1 ELSE 0
      /\ \A i \in 1 .. Len(p) - (c + 1) + 1 : e[i] = p[c + 1 + i - 1]
  <2>1. c + 1 \in Int /\ Len(p) \in Int
    BY <1>1
  <2> QED
    BY <1>2, <2>1, SubSeqProperties
<1> HIDE DEF e
<1>4. Len(e) = Len(p) - c /\ Len(e) > 0
  BY <1>1, <1>3
<1>5. e[Len(e)] = p[Len(p)]
  BY <1>1, <1>3, <1>4
<1>6. e # <<>>
  BY <1>4, EmptySeq
<1> QED
  BY <1>3, <1>5, <1>6 DEF Last, Words, e

\* A markdown target made to lead from a folder to a path does.
LEMMA LeadingToLeads ==
  ASSUME NEW p \in Words, p # <<>>, NEW folder \in Words
  PROVE  /\ LeadingTo(p, folder) \in Links
         /\ Joined(folder, LeadingTo(p, folder)) = p
         /\ Last(LeadingTo(p, folder).path) = Last(p)
         /\ LeadingTo(p, folder).kind = "md"
<1> DEFINE c == Len(LongestCommonPrefix({Folder(p), folder}))
           e == SubSeq(p, c + 1, Len(p))
<1>1. /\ Folder(p) \in Words /\ Len(p) \in Nat \ {0}
      /\ Len(Folder(p)) = Len(p) - 1
  BY FolderOfPath
<1>2. /\ c \in Nat /\ c <= Len(Folder(p)) /\ c <= Len(folder)
      /\ SubSeq(Folder(p), 1, c) = SubSeq(folder, 1, c)
  BY <1>1, CommonPrefix
<1>3. LeadingTo(p, folder)
        = [kind |-> "md", dot |-> FALSE, up |-> Len(folder) - c, path |-> e]
  BY DEF LeadingTo
<1>4. Len(folder) \in Nat
  BY LenProperties DEF Words
<1> HIDE DEF c
<1>5. c < Len(p)
  BY <1>1, <1>2
<1>6. e \in Words /\ e # <<>> /\ Last(e) = Last(p)
  BY <1>2, <1>5, EndOfPath
<1>7. SubSeq(folder, 1, c) = SubSeq(p, 1, c)
  <2>1. SubSeq(Folder(p), 1, c) = SubSeq(p, 1, c)
    <3>1. CASE c = 0
      BY <3>1, SubSeqEmpty
    <3>2. CASE c # 0
      <4>1. /\ c \in 1 .. Len(p) - 1 - 1 + 1 /\ 1 \in 1 .. Len(p) - 1 - 1 + 1
            /\ 1 \in 1 .. Len(p) /\ Len(p) - 1 \in 1 .. Len(p)
        BY <1>1, <1>2, <3>2
      <4>2. SubSeq(SubSeq(p, 1, Len(p) - 1), 1, c)
              = SubSeq(p, 1 + 1 - 1, 1 + c - 1)
        BY <4>1, SubSeqOfSubSeq DEF Words
      <4>3. 1 + 1 - 1 = 1 /\ 1 + c - 1 = c
        BY <1>2
      <4> QED
        BY <4>2, <4>3 DEF Folder, Front
    <3> QED
      BY <3>1, <3>2
  <2> QED
    BY <1>2, <2>1
<1>8. SubSeq(p, 1, c) \o e = p
  <2>1. 1 \in 1 .. Len(p) + 1 /\ c \in 1 - 1 .. Len(p) /\ Len(p) \in c .. Len(p)
    BY <1>1, <1>2, <1>5
  <2>2. SubSeq(p, 1, c) \o SubSeq(p, c + 1, Len(p)) = SubSeq(p, 1, Len(p))
    BY <2>1, ConcatAdjacentSubSeq DEF Words
  <2> QED
    BY <2>2, SubSeqFull DEF Words
<1> HIDE DEF e
<1>9. Len(folder) - c \in Nat /\ ~(Len(folder) - c > Len(folder))
      /\ Len(folder) - (Len(folder) - c) = c
  BY <1>2, <1>4
<1>10. LeadingTo(p, folder) \in Links
  BY <1>3, <1>6, <1>9 DEF Links, Words, NoPath
<1>11. Joined(folder, LeadingTo(p, folder)) = p
  <2>1. /\ LeadingTo(p, folder).up = Len(folder) - c
        /\ LeadingTo(p, folder).path = e
    BY <1>3
  <2>2. Joined(folder, LeadingTo(p, folder))
          = SubSeq(folder, 1, Len(folder) - (Len(folder) - c)) \o e
    BY <1>9, <2>1 DEF Joined
  <2> QED
    BY <1>7, <1>8, <1>9, <2>2
<1> QED
  BY <1>3, <1>6, <1>10, <1>11

\* So does one from the root.
LEMMA FromRootLeads ==
  ASSUME NEW p \in Words, p # <<>>
  PROVE  /\ FromRoot(p) \in Links
         /\ Joined(<<>>, FromRoot(p)) = p
         /\ Last(FromRoot(p).path) = Last(p)
         /\ FromRoot(p).kind = "md"
<1>1. FromRoot(p) \in Links
  BY DEF FromRoot, Links, Words, NoPath
<1>2. Joined(<<>>, FromRoot(p)) = SubSeq(<<>>, 1, 0) \o p
  <2>1. Len(<<>>) = 0
    BY EmptySeq
  <2> QED
    BY <2>1 DEF Joined, FromRoot
<1>3. SubSeq(<<>>, 1, 0) = <<>>
  BY SubSeqEmpty
<1>4. <<>> \o p = p
  BY ConcatEmptySeq DEF Words
<1> QED
  BY <1>1, <1>2, <1>3, <1>4 DEF FromRoot

\* A markdown target leads, from any folder, to paths with its last word.
LEMMA JoinedName ==
  ASSUME NEW folder \in Words, NEW l \in Links, Joined(folder, l) # NoPath
  PROVE  Last(Joined(folder, l)) = Last(l.path)
<1> DEFINE a == SubSeq(folder, 1, Len(folder) - l.up)
<1>1. l.up \in Nat /\ l.path \in Seq(STRING) /\ l.path # <<>>
  BY LinkTypes DEF Words
<1>2. Len(folder) \in Nat /\ folder \in Seq(STRING)
  BY LenProperties DEF Words
<1>3. Joined(folder, l) = a \o l.path
  BY DEF Joined
<1>4. a \in Seq(STRING)
  <2>1. \A i \in 1 .. Len(folder) - l.up : folder[i] \in STRING
    BY <1>1, <1>2, ElementOfSeq
  <2>2. Len(folder) - l.up \in Int
    BY <1>1, <1>2
  <2> QED
    BY <2>1, <2>2, SubSeqProperties
<1> HIDE DEF a
<1>5. Len(l.path) \in Nat \ {0} /\ Len(a) \in Nat
  BY <1>1, <1>4, EmptySeq, LenProperties
<1>6. /\ Len(a \o l.path) = Len(a) + Len(l.path)
      /\ \A i \in 1 .. Len(a) + Len(l.path) :
           (a \o l.path)[i] = IF i <= Len(a) THEN a[i] ELSE l.path[i - Len(a)]
  BY <1>1, <1>4, ConcatProperties
<1>7. (a \o l.path)[Len(a) + Len(l.path)] = l.path[Len(l.path)]
  BY <1>5, <1>6
<1> QED
  BY <1>3, <1>6, <1>7 DEF Last

----------------------------------------------------------------------------
(* Vaults, and the notes of a name.                                        *)

VaultOk(v) == DOMAIN v \subseteq Paths /\ v \in [DOMAIN v -> Seq(Links)]

LEMMA PathsAreFinite == IsFiniteSet(Paths)
<1> DEFINE n == Len(PathOrder)
<1>1. n \in Nat /\ PathOrder \in [1 .. n -> Words] /\ DOMAIN PathOrder = 1 .. n
  BY VaultsAssumption, LenProperties DEF Words
<1>2. PathOrder \in [1 .. n -> Paths]
  BY <1>1 DEF Paths, Range
<1>3. PathOrder \in Surjection(1 .. n, Paths)
  BY <1>1, <1>2 DEF Surjection, Paths, Range
<1>4. IsFiniteSet(1 .. n)
  BY <1>1, FS_Interval
<1> QED
  BY <1>3, <1>4, FS_Surjection

LEMMA NotesAreNotes ==
  ASSUME NEW v, VaultOk(v)
  PROVE  /\ Notes(v) \subseteq DOMAIN v /\ Notes(v) \subseteq Paths
         /\ \A p \in Notes(v) : p \in Words /\ p # <<>>
         /\ IsFiniteSet(Notes(v))
         /\ hidden = {} => Notes(v) = DOMAIN v
<1>1. Notes(v) \subseteq DOMAIN v /\ Notes(v) \subseteq Paths
  BY DEF Notes, VaultOk
<1>2. IsFiniteSet(Notes(v))
  BY <1>1, PathsAreFinite, FS_Subset
<1>3. hidden = {} => Notes(v) = DOMAIN v
  BY DEF Notes
<1> QED
  BY <1>1, <1>2, <1>3, PathTypes

\* A set of notes with one element.
LEMMA OnlyOne ==
  ASSUME NEW v, VaultOk(v), NEW S \in SUBSET Notes(v), NEW x \in S
  PROVE  /\ Cardinality(S) = 1 => S = {x}
         /\ Cardinality(S) > 1 <=> S # {x}
         /\ Cardinality(S) <= 1 <=> S = {x}
<1>1. IsFiniteSet(S)
  BY NotesAreNotes, FS_Subset
<1>2. Cardinality(S) \in Nat /\ Cardinality(S) # 0
  BY <1>1, FS_CardinalityType, FS_EmptySet
<1>3. Cardinality(S) = 1 <=> \E y : S = {y}
  BY <1>1, FS_Singleton
<1>4. Cardinality(S) = 1 <=> S = {x}
  BY <1>3
<1>5. /\ Cardinality(S) > 1 <=> Cardinality(S) # 1
      /\ Cardinality(S) <= 1 <=> Cardinality(S) = 1
  BY <1>2
<1> QED
  BY <1>4, <1>5

\* Of several notes one comes first.
LEMMA FirstOfMany ==
  ASSUME NEW S \in SUBSET Paths, S # {}
  PROVE  \E p \in S : \A q \in S : Rank(p) <= Rank(q)
<1>1. Len(PathOrder) \in Nat /\ DOMAIN PathOrder = 1 .. Len(PathOrder)
  BY VaultsAssumption, LenProperties
<1>2. \A p \in S : Rank(p) \in Nat
  <2> TAKE p \in S
  <2>1. \E i \in DOMAIN PathOrder : PathOrder[i] = p
    BY DEF Paths, Range
  <2>2. Rank(p) \in DOMAIN PathOrder
    BY <2>1 DEF Rank
  <2> QED
    BY <1>1, <2>2
<1> DEFINE T == {Rank(p) : p \in S}
<1>3. T \in SUBSET Nat /\ T # {}
  BY <1>2
<1>4. PICK n \in T : \A m \in T : n <= m
  BY <1>3, LeastNumber
<1>5. PICK p \in S : n = Rank(p)
  BY <1>4
<1>6. \A q \in S : Rank(p) <= Rank(q)
  BY <1>4, <1>5
<1> QED
  BY <1>6

\* The note that a bare name means has that name.
LEMMA WinnerIsNamed ==
  ASSUME NEW v, VaultOk(v), NEW from, NEW name, Named(v, name) # {}
  PROVE  Winner(v, from, name) \in Named(v, name)
<1> DEFINE near == {p \in Named(v, name) : Folder(p) = Folder(from)}
           pool == IF near # {} THEN near ELSE Named(v, name)
<1>1. pool \subseteq Named(v, name) /\ pool # {}
  OBVIOUS
<1>2. Named(v, name) \subseteq Paths
  BY NotesAreNotes DEF Named
<1> HIDE DEF pool
<1>3. \E p \in pool : \A q \in pool : Rank(p) <= Rank(q)
  BY <1>1, <1>2, FirstOfMany
<1>4. Winner(v, from, name)
        = CHOOSE p \in pool : \A q \in pool : Rank(p) <= Rank(q)
  BY DEF Winner, pool
<1>5. Winner(v, from, name) \in pool
  BY <1>3, <1>4
<1> QED
  BY <1>1, <1>5

----------------------------------------------------------------------------
(* The graph.                                                              *)

LEMMA LinkOf ==
  ASSUME NEW v, VaultOk(v), NEW q \in DOMAIN v
  PROVE  /\ v[q] \in Seq(Links)
         /\ \A i \in DOMAIN v[q] : v[q][i] \in Links
         /\ Range(v[q]) = {v[q][i] : i \in DOMAIN v[q]}
<1>1. v[q] \in Seq(Links)
  BY DEF VaultOk
<1>2. \A i \in DOMAIN v[q] : v[q][i] \in Links
  BY <1>1, ElementOfSeq, LenProperties
<1> QED
  BY <1>1, <1>2 DEF Range

\* A note is named by some path exactly when a link that is not a bare name
\* matches it.
LEMMA NamedByPath ==
  ASSUME NEW v, VaultOk(v), NEW p \in Notes(v)
  PROVE  p \in PathTargets(v) <=>
           \E q \in Notes(v) : \E i \in LinksTo(v, q, p) : ~Bare(v[q][i])
<1> DEFINE T(q, l) ==
      IF l.kind = "md" THEN {Joined(Folder(q), l), Joined(<<>>, l)}
      ELSE IF Bare(l) THEN {} ELSE {l.path}
<1>1. p \in PathTargets(v) <=>
        \E q \in Notes(v) : \E l \in Range(v[q]) : p \in T(q, l)
  BY DEF PathTargets
<1>2. ASSUME NEW q \in Notes(v)
      PROVE  (\E l \in Range(v[q]) : p \in T(q, l)) <=>
                \E i \in LinksTo(v, q, p) : ~Bare(v[q][i])
  <2>1. q \in DOMAIN v
    BY NotesAreNotes
  <2>2. Range(v[q]) = {v[q][i] : i \in DOMAIN v[q]}
    BY <2>1, LinkOf
  <2>3. ASSUME NEW i \in DOMAIN v[q]
        PROVE  p \in T(q, v[q][i]) <=>
                 LinkMatches(v, q, v[q][i], p) /\ ~Bare(v[q][i])
    <3>1. v[q][i].kind \in {"wiki", "md"}
      BY <2>1, LinkOf, LinkTypes
    <3> QED
      BY <3>1 DEF LinkMatches, Bare
  <2> HIDE DEF T
  <2>4. LinksTo(v, q, p) = {i \in DOMAIN v[q] : LinkMatches(v, q, v[q][i], p)}
    BY DEF LinksTo
  <2> QED
    BY <2>2, <2>3, <2>4
<1> HIDE DEF T
<1> QED
  BY <1>1, <1>2

\* A note is named bare, and meant, exactly when a bare link matches it.
LEMMA NamedByName ==
  ASSUME NEW v, VaultOk(v), NEW p \in Notes(v), NEW q \in Notes(v)
  PROVE  (q \in LinksByName(v, Last(p)) /\ BareResolves(v, q, p)) <=>
           \E i \in LinksTo(v, q, p) : Bare(v[q][i])
<1>1. q \in DOMAIN v
  BY NotesAreNotes
<1>2. Range(v[q]) = {v[q][i] : i \in DOMAIN v[q]}
  BY <1>1, LinkOf
<1>3. q \in LinksByName(v, Last(p)) <=>
        \E i \in DOMAIN v[q] : Bare(v[q][i]) /\ Last(v[q][i].path) = Last(p)
  BY <1>2 DEF LinksByName
<1>4. ASSUME NEW i \in DOMAIN v[q], Bare(v[q][i])
      PROVE  LinkMatches(v, q, v[q][i], p) <=>
               Last(v[q][i].path) = Last(p) /\ BareResolves(v, q, p)
  BY <1>4 DEF LinkMatches, Bare
<1>5. LinksTo(v, q, p) = {i \in DOMAIN v[q] : LinkMatches(v, q, v[q][i], p)}
  BY DEF LinksTo
<1> QED
  BY <1>3, <1>4, <1>5

LEMMA Orphanhood ==
  ASSUME VaultOk(vault)
  PROVE  OrphansMatchBacklinks
<1> SUFFICES ASSUME NEW p \in Notes(vault)
             PROVE  /\ p \in Orphans(vault, <<>>)
                         <=> Backlinks(vault, p) = {} /\ ~NamesItself(p)
                    /\ Backlinks(vault, p) \cap Deadends(vault) = {}
  BY DEF OrphansMatchBacklinks
<1>1. IsPrefix(<<>>, Folder(p))
  <2>1. SubSeq(<<>>, 1, 0) = <<>> /\ SubSeq(Folder(p), 1, 0) = <<>>
    BY SubSeqEmpty
  <2>2. Folder(p) \in Words
    BY NotesAreNotes, FolderOfPath
  <2>3. Len(<<>>) = 0 /\ Len(Folder(p)) \in Nat
    BY <2>2, EmptySeq, LenProperties DEF Words
  <2> QED
    BY <2>1, <2>3 DEF IsPrefix
<1> DEFINE ByPath(q) == \E i \in LinksTo(vault, q, p) : ~Bare(vault[q][i])
           ByName(q) == \E i \in LinksTo(vault, q, p) : Bare(vault[q][i])
<1>2. p \in Orphans(vault, <<>>) <=>
        /\ p \notin PathTargets(vault)
        /\ \A q \in LinksByName(vault, Last(p)) \ {p} : ~BareResolves(vault, q, p)
  BY <1>1 DEF Orphans
<1>3. p \in PathTargets(vault) <=> \E q \in Notes(vault) : ByPath(q)
  BY NamedByPath
<1>4. \A q \in Notes(vault) :
        (q \in LinksByName(vault, Last(p)) /\ BareResolves(vault, q, p))
          <=> ByName(q)
  BY NamedByName
<1>5. LinksByName(vault, Last(p)) \subseteq Notes(vault)
  BY DEF LinksByName
<1>6. \A q : LinksTo(vault, q, p) # {} <=> ByPath(q) \/ ByName(q)
  OBVIOUS
<1>7. Backlinks(vault, p) = {} <=>
        \A q \in Notes(vault) \ {p} : LinksTo(vault, q, p) = {}
  BY DEF Backlinks
<1>8. NamesItself(p) <=> ByPath(p)
  BY DEF NamesItself
<1> HIDE DEF ByPath, ByName
<1>9. p \in Orphans(vault, <<>>)
         <=> Backlinks(vault, p) = {} /\ ~NamesItself(p)
  BY <1>2, <1>3, <1>4, <1>5, <1>6, <1>7, <1>8
<1>10. ASSUME NEW q \in Backlinks(vault, p), q \in Deadends(vault)
       PROVE  FALSE
  <2>1. vault[q] = <<>>
    BY <1>10 DEF Deadends
  <2>2. DOMAIN vault[q] = {}
    BY <2>1
  <2> QED
    BY <2>2 DEF Backlinks, LinksTo
<1> QED
  BY <1>9, <1>10

LEMMA Dangling ==
  ASSUME VaultOk(vault)
  PROVE  UnresolvedIsDangling
<1>1. \A p \in Notes(vault) : Last(p) \in Stems(vault)
  BY DEF Stems
<1>2. ASSUME NEW u \in Unresolved(vault), NEW p \in Notes(vault),
             LinkMatches(vault, u[1], At(vault, u), p)
      PROVE  FALSE
  <2>1. /\ At(vault, u).kind = "wiki"
        /\ Last(At(vault, u).path) \notin Stems(vault)
        /\ At(vault, u).path \notin Notes(vault)
    BY DEF Unresolved
  <2> QED
    BY <1>1, <1>2, <2>1 DEF LinkMatches
<1>3. ASSUME NEW q \in Notes(vault), NEW i \in DOMAIN vault[q],
             Bare(vault[q][i]),
             \A p \in Notes(vault) : ~LinkMatches(vault, q, vault[q][i], p)
      PROVE  <<q, i>> \in Unresolved(vault)
  <2> DEFINE l == vault[q][i]
             name == Last(l.path)
  <2>1. <<q, i>> \in Places(vault) /\ At(vault, <<q, i>>) = l
    BY DEF Places, At
  <2>2. name \notin Stems(vault)
    <3> SUFFICES ASSUME name \in Stems(vault) PROVE FALSE
      OBVIOUS
    <3>1. PICK p \in Notes(vault) : Last(p) = name
      BY DEF Stems
    <3>2. p \in Named(vault, name)
      BY <3>1 DEF Named
    <3>3. CASE Cardinality(Named(vault, name)) <= 1
      BY <1>3, <3>1, <3>3 DEF LinkMatches, BareResolves
    <3>4. CASE ~(Cardinality(Named(vault, name)) <= 1)
      <4>1. Winner(vault, q, name) \in Named(vault, name)
        BY <3>2, WinnerIsNamed
      <4>2. /\ Winner(vault, q, name) \in Notes(vault)
            /\ Last(Winner(vault, q, name)) = name
        BY <4>1 DEF Named
      <4> QED
        BY <1>3, <4>2 DEF LinkMatches, BareResolves
    <3> QED
      BY <3>3, <3>4
  <2>3. l.path \notin Notes(vault)
    BY <1>1, <2>2
  <2>4. l.kind = "wiki"
    BY <1>3 DEF Bare
  <2> HIDE DEF l
  <2> QED
    BY <2>1, <2>2, <2>3, <2>4 DEF Unresolved
<1>4. BrokenLinks(vault) =
        {u \in Unresolved(vault) : At(vault, u).path[1] \notin MemorySlugs}
  <2>1. \A u \in Places(vault) :
          Last(At(vault, u).path) \notin Stems(vault)
            => At(vault, u).path \notin Notes(vault)
    BY <1>1
  <2> QED
    BY <2>1 DEF BrokenLinks, Unresolved
<1> QED
  BY <1>2, <1>3, <1>4 DEF UnresolvedIsDangling

LEMMA Uniqueness ==
  ASSUME VaultOk(vault)
  PROVE  WriteNamesUnique
<1> SUFFICES ASSUME NEW ref \in Refs, NEW p \in Resolved(vault, ref, TRUE) \ {ref},
                    p # <<IF ref[1] \in DOMAIN Digits THEN Digits[ref[1]]
                          ELSE ref[1]>>,
                    NEW q \in DOMAIN vault \ {p}
             PROVE  LET number == IF ref[1] \in DOMAIN Digits
                                  THEN Digits[ref[1]] ELSE ref[1]
                    IN /\ Last(q) # Last(p)
                       /\ Last(p) \notin {ref[1], number}
                            => Last(q) \notin WorkItems[number]
  BY DEF WriteNamesUnique
<1> DEFINE number == IF ref[1] \in DOMAIN Digits THEN Digits[ref[1]] ELSE ref[1]
           C == Candidates(vault, ref)
           N == NameHits(vault, ref)
           B == IF Len(ref) = 1 /\ ref[1] \in DOMAIN Digits
                THEN Named(vault, Digits[ref[1]]) ELSE {}
           W == WorkItemHits(vault, ref)
<1>1. Spelled(vault, ref) = {}
  <2> SUFFICES ASSUME Spelled(vault, ref) # {} PROVE FALSE
    OBVIOUS
  <2>1. p \in Spelled(vault, ref)
    BY DEF Resolved
  <2> QED
    BY <2>1 DEF Spelled
<1>2. ~Incomplete /\ Cardinality(C) = 1 /\ p \in C
  BY <1>1 DEF Resolved, Unproven
<1>3. Notes(vault) = DOMAIN vault
  BY <1>2, NotesAreNotes DEF Incomplete
<1>4. C = IF N # {} THEN N ELSE IF B # {} THEN B ELSE W
  BY DEF Candidates
<1>5. C \subseteq Notes(vault)
  BY <1>4 DEF NameHits, WorkItemHits, Named
<1> HIDE DEF C
<1>6. C = {p}
  BY <1>2, <1>5, OnlyOne
<1>7. q \notin C /\ q \in Notes(vault)
  BY <1>3, <1>6
<1>8. CASE N # {}
  <2>1. N = Named(vault, ref[1])
    BY <1>8 DEF NameHits
  <2>2. C = Named(vault, ref[1])
    BY <1>4, <1>8, <2>1
  <2>3. Last(p) = ref[1] /\ Last(q) # ref[1]
    BY <1>2, <1>7, <2>2 DEF Named
  <2> QED
    BY <2>3
<1>9. CASE N = {} /\ B # {}
  <2>1. ref[1] \in DOMAIN Digits /\ B = Named(vault, number)
    BY <1>9
  <2>2. C = Named(vault, number)
    BY <1>4, <1>9, <2>1
  <2>3. Last(p) = number /\ Last(q) # number
    BY <1>2, <1>7, <2>2 DEF Named
  <2> QED
    BY <2>3
<1>10. CASE N = {} /\ B = {}
  <2>1. C = WorkItemHits(vault, ref)
    BY <1>4, <1>10
  <2>2. ref[1] \in DOMAIN Digits
        /\ C = {r \in Notes(vault) : Last(r) \in WorkItems[number]}
    BY <1>2, <2>1 DEF WorkItemHits
  <2>3. Last(p) \in WorkItems[number] /\ Last(q) \notin WorkItems[number]
    BY <1>2, <1>7, <2>2
  <2> QED
    BY <2>3
<1> QED
  BY <1>8, <1>9, <1>10

----------------------------------------------------------------------------
(* What a relocation makes of a link, and of a vault.                      *)

LEMMA RewrittenIsLink ==
  ASSUME NEW from \in Words, from # <<>>, NEW l \in Links, NEW src,
         NEW dest \in Words, dest # <<>>
  PROVE  RewrittenLink(from, l, src, dest) \in Links
<1>1. Folder(from) \in Words /\ Last(dest) \in STRING
  BY FolderOfPath
<1>2. LeadingTo(dest, Folder(from)) \in Links /\ FromRoot(dest) \in Links
  BY <1>1, LeadingToLeads, FromRootLeads
<1>3. ASSUME NEW path \in Words, path # <<>>
      PROVE  [l EXCEPT !.path = path] \in Links
  BY <1>3 DEF Links, Words, NoPath
<1>4. <<Last(dest)>> \in Words /\ <<Last(dest)>> # <<>>
  BY <1>1 DEF Words
<1>5. /\ [l EXCEPT !.path = <<Last(dest)>>] \in Links
      /\ [l EXCEPT !.path = dest] \in Links
  BY <1>3, <1>4
<1> QED
  BY <1>2, <1>5 DEF RewrittenLink

LEMMA ResolvedIsNote ==
  ASSUME NEW v, NEW ref, NEW w
  PROVE  Resolved(v, ref, w) \subseteq Notes(v)
<1>1. Spelled(v, ref) \subseteq Notes(v)
  BY DEF Spelled
<1>2. Candidates(v, ref) \subseteq Notes(v)
  BY DEF Candidates, NameHits, Named, WorkItemHits
<1> QED
  BY <1>1, <1>2 DEF Resolved

\* The note that moves is the only one of its name, and its new name is its
\* own or free.
Movable(v, src, dest) ==
  /\ hidden = {} /\ src \in DOMAIN v
  /\ dest \in Paths /\ dest \notin DOMAIN v
  /\ Named(v, Last(src)) = {src}
  /\ Last(dest) = Last(src) \/ Named(v, Last(dest)) = {}

LEMMA UnambiguousIsAlone ==
  ASSUME NEW v, VaultOk(v), NEW src \in Notes(v), ~Ambiguous(v, src)
  PROVE  Named(v, Last(src)) = {src}
<1>1. Named(v, Last(src)) \subseteq Notes(v) /\ src \in Named(v, Last(src))
  BY DEF Named
<1> QED
  BY <1>1, OnlyOne DEF Ambiguous

LEMMA RelocatableIsMovable ==
  ASSUME NEW v, VaultOk(v), NEW src \in Notes(v), NEW dest,
         Relocatable(v, src, dest)
  PROVE  Movable(v, src, dest)
<1>1. hidden = {} /\ dest \in Paths /\ dest \notin DOMAIN v
  BY DEF Relocatable, Incomplete
<1>2. Named(v, Last(src)) = {src}
  BY UnambiguousIsAlone DEF Relocatable
<1>3. Last(dest) = Last(src) \/ Named(v, Last(dest)) = {}
  BY DEF Relocatable, Renames
<1>4. src \in DOMAIN v
  BY NotesAreNotes
<1> QED
  BY <1>1, <1>2, <1>3, <1>4 DEF Movable

\* The vault w is v with src at dest, its links rewritten.
RelocatedTo(w, v, src, dest) ==
  /\ VaultOk(w)
  /\ DOMAIN w = (DOMAIN v \ {src}) \cup {dest}
  /\ \A q \in DOMAIN v \ {src} :
       /\ q \in Hit(v, src, dest) => w[q] = Rewritten(v, q, src, dest)
       /\ q \notin Hit(v, src, dest) => w[q] = v[q]

LEMMA RelocatedVault ==
  ASSUME NEW v, VaultOk(v), NEW src, NEW dest, Movable(v, src, dest)
  PROVE  RelocatedTo(Relocated(v, src, dest), v, src, dest)
<1> DEFINE after == [q \in DOMAIN v |-> IF q \in Hit(v, src, dest)
                                        THEN Rewritten(v, q, src, dest) ELSE v[q]]
           place(q) == IF q = dest THEN src ELSE q
           R == Relocated(v, src, dest)
<1>1. src \in DOMAIN v /\ dest \in Paths /\ dest \notin DOMAIN v /\ src # dest
  BY DEF Movable
<1>2. R = [q \in (DOMAIN v \ {src}) \cup {dest} |-> after[place(q)]]
  BY DEF Relocated
<1>3. \A q \in DOMAIN v : after[q] \in Seq(Links)
  <2> SUFFICES ASSUME NEW q \in DOMAIN v PROVE after[q] \in Seq(Links)
    OBVIOUS
  <2>1. v[q] \in Seq(Links) /\ \A i \in DOMAIN v[q] : v[q][i] \in Links
    BY LinkOf
  <2>2. /\ Len(v[q]) \in Nat /\ DOMAIN v[q] = 1 .. Len(v[q])
    BY <2>1, LenProperties
  <2>3. /\ q \in Words /\ q # <<>> /\ dest \in Words /\ dest # <<>>
    BY <1>1, PathTypes DEF VaultOk
  <2>4. \A i \in DOMAIN v[q] : RewrittenLink(q, v[q][i], src, dest) \in Links
    BY <2>1, <2>3, RewrittenIsLink
  <2>5. Rewritten(v, q, src, dest) \in [1 .. Len(v[q]) -> Links]
    BY <2>2, <2>4 DEF Rewritten
  <2>6. Rewritten(v, q, src, dest) \in Seq(Links)
    BY <2>2, <2>5, SeqDef
  <2> QED
    BY <2>1, <2>6
<1> HIDE DEF after
<1>4. DOMAIN R = (DOMAIN v \ {src}) \cup {dest}
  BY <1>2
<1>5. \A q \in DOMAIN R : place(q) \in DOMAIN v /\ R[q] = after[place(q)]
  BY <1>1, <1>2
<1>6. VaultOk(R)
  <2>1. DOMAIN R \subseteq Paths
    BY <1>1, <1>4 DEF VaultOk
  <2>2. \A q \in DOMAIN R : R[q] \in Seq(Links)
    BY <1>3, <1>5
  <2>3. R = [q \in DOMAIN R |-> R[q]]
    BY <1>2
  <2> HIDE DEF R
  <2>4. R \in [DOMAIN R -> Seq(Links)]
    BY <2>2, <2>3
  <2> QED
    BY <2>1, <2>4 DEF VaultOk
<1>7. ASSUME NEW q \in DOMAIN v \ {src}
      PROVE  /\ q \in Hit(v, src, dest) => R[q] = Rewritten(v, q, src, dest)
             /\ q \notin Hit(v, src, dest) => R[q] = v[q]
  <2>1. q \in DOMAIN R /\ place(q) = q
    BY <1>1, <1>4
  <2> QED
    BY <1>5, <2>1 DEF after
<1> QED
  BY <1>4, <1>6, <1>7 DEF RelocatedTo

LEMMA RelocatedNames ==
  ASSUME NEW v, VaultOk(v), NEW src, NEW dest, Movable(v, src, dest)
  PROVE  LET w == Relocated(v, src, dest)
         IN /\ Notes(v) = DOMAIN v /\ Notes(w) = DOMAIN w
            /\ Named(w, Last(dest)) = {dest}
            /\ \A n : n # Last(src) /\ n # Last(dest) => Named(w, n) = Named(v, n)
<1> DEFINE w == Relocated(v, src, dest)
<1>1. hidden = {}
  BY DEF Movable
<1>2. VaultOk(w) /\ DOMAIN w = (DOMAIN v \ {src}) \cup {dest}
  <2>1. RelocatedTo(w, v, src, dest)
    BY RelocatedVault
  <2> HIDE DEF w
  <2> QED
    BY <2>1 DEF RelocatedTo
<1> HIDE DEF w
<1>3. Notes(v) = DOMAIN v /\ Notes(w) = DOMAIN w
  BY <1>1, <1>2, NotesAreNotes
<1>4. \A n : /\ Named(w, n) = {p \in (DOMAIN v \ {src}) \cup {dest} : Last(p) = n}
             /\ Named(v, n) = {p \in DOMAIN v : Last(p) = n}
  BY <1>2, <1>3 DEF Named
<1>5. /\ Named(v, Last(src)) = {src}
      /\ Last(dest) = Last(src) \/ Named(v, Last(dest)) = {}
  BY DEF Movable
<1>6. Named(w, Last(dest)) = {dest}
  BY <1>4, <1>5
<1>7. \A n : n # Last(src) /\ n # Last(dest) => Named(w, n) = Named(v, n)
  BY <1>4
<1> QED
  BY <1>3, <1>6, <1>7 DEF w

----------------------------------------------------------------------------
(* The links follow.                                                       *)

\* Whatever a link leads to has the last word of the link.
LEMMA TargetName ==
  ASSUME NEW v, VaultOk(v), NEW q \in Words, q # <<>>, NEW l \in Links,
         NEW p \in Target(v, q, l)
  PROVE  p \in Notes(v) /\ p \in Named(v, Last(l.path))
<1>1. p \in Notes(v) /\ LinkMatches(v, q, l, p)
  BY DEF Target
<1>2. p # NoPath
  BY <1>1, NotesAreNotes DEF NoPath
<1>3. Last(p) = Last(l.path)
  <2>1. CASE l.kind = "wiki"
    BY <1>1, <2>1 DEF LinkMatches
  <2>2. CASE l.kind = "md"
    <3>1. p \in {Joined(Folder(q), l), Joined(<<>>, l)}
      BY <1>1, <2>2 DEF LinkMatches, Bare
    <3>2. Folder(q) \in Words /\ <<>> \in Words
      BY FolderOfPath DEF Words
    <3> QED
      BY <1>2, <3>1, <3>2, JoinedName
  <2> QED
    BY <2>1, <2>2, LinkTypes
<1> QED
  BY <1>1, <1>3 DEF Named

\* The notes of a name decide whether a link with that name matches one.
LEMMA SameNamesSameMatches ==
  ASSUME NEW v, NEW w, NEW q, NEW l, NEW p,
         Named(w, Last(p)) = Named(v, Last(p))
  PROVE  LinkMatches(w, q, l, p) <=> LinkMatches(v, q, l, p)
<1>1. Winner(w, q, Last(p)) = Winner(v, q, Last(p))
  BY DEF Winner
<1>2. BareResolves(w, q, p) <=> BareResolves(v, q, p)
  BY <1>1 DEF BareResolves
<1> QED
  BY <1>2 DEF LinkMatches

\* A link that led to the note is rewritten to lead to its new place.
LEMMA RewrittenLeads ==
  ASSUME NEW v, VaultOk(v), NEW src, NEW dest, Movable(v, src, dest),
         NEW q \in DOMAIN v \ {src}, NEW i \in DOMAIN v[q],
         LinkMatches(v, q, v[q][i], src)
  PROVE  LET k == Relocated(v, src, dest)[q][i]
         IN /\ k \in Links
            /\ Last(k.path) = Last(dest)
            /\ LinkMatches(Relocated(v, src, dest), q, k, dest)
<1> DEFINE w == Relocated(v, src, dest)
           l == v[q][i]
           k == w[q][i]
           r == RewrittenLink(q, l, src, dest)
<1> SUFFICES k \in Links /\ Last(k.path) = Last(dest) /\ LinkMatches(w, q, k, dest)
  OBVIOUS
<1>1. /\ l \in Links /\ q \in Words /\ q # <<>>
      /\ dest \in Words /\ dest # <<>> /\ src \in Words /\ src # <<>>
  BY LinkOf, PathTypes DEF VaultOk, Movable
<1>2. Folder(q) \in Words /\ Last(dest) \in STRING
  BY <1>1, FolderOfPath
<1>3. /\ q \in Hit(v, src, dest) => w[q] = Rewritten(v, q, src, dest)
      /\ q \notin Hit(v, src, dest) => w[q] = v[q]
  <2>1. RelocatedTo(w, v, src, dest)
    BY RelocatedVault
  <2> HIDE DEF w
  <2> QED
    BY <2>1 DEF RelocatedTo
<1>4. /\ Notes(v) = DOMAIN v /\ Named(w, Last(dest)) = {dest}
  BY RelocatedNames
<1>5. q \in Hit(v, src, dest) => k = r
  <2>1. Rewritten(v, q, src, dest)[i] = r
    BY DEF Rewritten
  <2> QED
    BY <1>3, <2>1
<1>6. q \notin Hit(v, src, dest) => k = l
  BY <1>3
<1>7. i \in LinksTo(v, q, src)
  BY DEF LinksTo
<1>8. q \notin Hit(v, src, dest) => ~Renames(src, dest) /\ Bare(l)
  BY <1>4, <1>7 DEF Hit, Hits, Occurring
<1>9. BareResolves(w, q, dest)
  <2>1. Cardinality(Named(w, Last(dest))) = 1
    BY <1>4, FS_Singleton
  <2> QED
    BY <2>1 DEF BareResolves
<1>10. r \in Links /\ l.kind \in {"wiki", "md"} /\ l.path \in Words /\ l.path # <<>>
  BY <1>1, RewrittenIsLink, LinkTypes
<1> HIDE DEF w, k, r
<1>11. ASSUME NEW x \in Links, x.kind = "wiki",
              x.path = dest \/ (Bare(x) /\ Last(x.path) = Last(dest))
       PROVE  Last(x.path) = Last(dest) /\ LinkMatches(w, q, x, dest)
  <2>1. Last(x.path) = Last(dest)
    BY <1>11
  <2> QED
    BY <1>9, <1>11, <2>1 DEF LinkMatches
<1>12. CASE Bare(l)
  <2>1. Last(l.path) = Last(src) /\ l.kind = "wiki" /\ Len(l.path) = 1
    BY <1>12 DEF LinkMatches, Bare
  <2>2. r = [l EXCEPT !.path = <<Last(dest)>>]
    BY <1>12, <2>1 DEF RewrittenLink, r
  <2>3. r.kind = "wiki" /\ r.path = <<Last(dest)>>
    BY <1>1, <2>1, <2>2 DEF Links
  <2>4. Len(<<Last(dest)>>) = 1 /\ <<Last(dest)>>[1] = Last(dest)
    OBVIOUS
  <2>5. Bare(r) /\ Last(r.path) = Last(dest)
    <3>1. Len(r.path) = 1 /\ r.path[1] = Last(dest)
      BY <2>3, <2>4
    <3>2. Last(r.path) = r.path[1]
      BY <3>1 DEF Last
    <3> QED
      BY <2>3, <3>1, <3>2 DEF Bare
  <2>6. CASE q \in Hit(v, src, dest)
    BY <1>5, <1>10, <1>11, <2>3, <2>5, <2>6
  <2>7. CASE q \notin Hit(v, src, dest)
    <3>1. Last(src) = Last(dest)
      BY <1>8, <2>7 DEF Renames
    <3> QED
      BY <1>1, <1>6, <1>11, <1>12, <2>1, <2>7, <3>1
  <2> QED
    BY <2>6, <2>7
<1>13. CASE ~Bare(l) /\ l.kind = "wiki"
  <2>1. l.path = src
    BY <1>13 DEF LinkMatches
  <2>2. r = [l EXCEPT !.path = dest]
    BY <1>13, <2>1 DEF RewrittenLink, r
  <2>3. r.kind = "wiki" /\ r.path = dest
    BY <1>1, <1>13, <2>2 DEF Links
  <2>4. k = r
    BY <1>5, <1>8, <1>13
  <2> QED
    BY <1>10, <1>11, <2>3, <2>4
<1>14. CASE ~Bare(l) /\ l.kind = "md"
  <2>1. src \in {Joined(Folder(q), l), Joined(<<>>, l)}
    BY <1>14 DEF LinkMatches
  <2>2. r \in {LeadingTo(dest, Folder(q)), FromRoot(dest)}
    BY <1>14, <2>1 DEF RewrittenLink, Relative, r
  <2>3. /\ r.kind = "md" /\ Last(r.path) = Last(dest)
        /\ dest \in {Joined(Folder(q), r), Joined(<<>>, r)}
    <3>1. CASE r = LeadingTo(dest, Folder(q))
      BY <1>1, <1>2, <3>1, LeadingToLeads
    <3>2. CASE r = FromRoot(dest)
      BY <1>1, <3>2, FromRootLeads
    <3> QED
      BY <2>2, <3>1, <3>2
  <2>4. k = r
    BY <1>5, <1>8, <1>14
  <2>5. LinkMatches(w, q, r, dest)
    BY <2>3 DEF LinkMatches
  <2> QED
    BY <1>10, <2>3, <2>4, <2>5
<1> QED
  BY <1>10, <1>12, <1>13, <1>14

\* A link that did not is left as it was.
LEMMA OthersAreKept ==
  ASSUME NEW v, VaultOk(v), NEW src, NEW dest, Movable(v, src, dest),
         NEW q \in DOMAIN v \ {src}, NEW i \in DOMAIN v[q],
         ~LinkMatches(v, q, v[q][i], src)
  PROVE  Relocated(v, src, dest)[q][i] = v[q][i]
<1> DEFINE l == v[q][i]
           r == RewrittenLink(q, l, src, dest)
<1>1. l.kind \in {"wiki", "md"}
  BY LinkOf, LinkTypes
<1>2. BareResolves(v, q, src)
  <2>1. Cardinality(Named(v, Last(src))) = 1
    BY FS_Singleton DEF Movable
  <2> QED
    BY <2>1 DEF BareResolves
<1>3. /\ ~(Bare(l) /\ Last(l.path) = Last(src))
      /\ ~(l.kind = "wiki" /\ ~Bare(l) /\ l.path = src)
      /\ ~(l.kind = "md" /\ src = Joined(Folder(q), l))
      /\ ~(l.kind = "md" /\ src = Joined(<<>>, l))
  BY <1>2 DEF LinkMatches
<1>4. r = l
  BY <1>3 DEF RewrittenLink
<1>5. Rewritten(v, q, src, dest)[i] = r
  BY DEF Rewritten
<1>6. /\ q \in Hit(v, src, dest) =>
           Relocated(v, src, dest)[q] = Rewritten(v, q, src, dest)
      /\ q \notin Hit(v, src, dest) => Relocated(v, src, dest)[q] = v[q]
  <2>1. RelocatedTo(Relocated(v, src, dest), v, src, dest)
    BY RelocatedVault
  <2> QED
    BY <2>1 DEF RelocatedTo
<1> QED
  BY <1>4, <1>5, <1>6

LEMMA Following ==
  ASSUME NEW v, VaultOk(v), NEW src, NEW dest, Movable(v, src, dest),
         NEW q \in DOMAIN v \ {src}, NEW i \in DOMAIN v[q]
  PROVE  LET w == Relocated(v, src, dest)
             l == v[q][i]
             k == w[q][i]
         IN IF src \in Target(v, q, l)
            THEN Target(w, q, k) = {dest}
            ELSE /\ k = l
                 /\ Target(v, q, l) # {} => Target(w, q, k) = Target(v, q, l)
<1> DEFINE w == Relocated(v, src, dest)
           l == v[q][i]
           k == w[q][i]
<1>1. /\ l \in Links /\ q \in Words /\ q # <<>>
  BY LinkOf, PathTypes DEF VaultOk
<1>2. /\ Notes(v) = DOMAIN v /\ Notes(w) = DOMAIN w
      /\ Named(w, Last(dest)) = {dest}
      /\ \A n : n # Last(src) /\ n # Last(dest) => Named(w, n) = Named(v, n)
  BY RelocatedNames
<1>3. RelocatedTo(w, v, src, dest)
  BY RelocatedVault
<1>4. VaultOk(w) /\ dest \in DOMAIN w
  <2> HIDE DEF w
  <2> QED
    BY <1>3 DEF RelocatedTo
<1>5. src \in Notes(v) /\ Named(v, Last(src)) = {src}
      /\ (Last(dest) = Last(src) \/ Named(v, Last(dest)) = {})
  BY <1>2 DEF Movable
<1>6. src \in Target(v, q, l) <=> LinkMatches(v, q, l, src)
  BY <1>5 DEF Target
<1>7. CASE src \in Target(v, q, l)
  <2>1. k \in Links /\ Last(k.path) = Last(dest) /\ LinkMatches(w, q, k, dest)
    BY <1>6, <1>7, RewrittenLeads
  <2> HIDE DEF w, k
  <2>2. dest \in Target(w, q, k)
    BY <1>2, <1>4, <2>1 DEF Target
  <2>3. \A p \in Target(w, q, k) : p = dest
    BY <1>1, <1>2, <1>4, <2>1, TargetName
  <2>4. Target(w, q, k) = {dest}
    BY <2>2, <2>3
  <2> QED
    BY <1>7, <2>4 DEF w, k
<1>8. CASE src \notin Target(v, q, l)
  <2>1. k = l
    BY <1>6, <1>8, OthersAreKept
  <2>2. ASSUME Target(v, q, l) # {}
        PROVE  Target(w, q, l) = Target(v, q, l)
    <3> DEFINE n == Last(l.path)
    <3>1. \A p \in Target(v, q, l) : p \in Named(v, n)
      BY <1>1, TargetName
    <3> HIDE DEF w
    <3>2. \A p \in Target(w, q, l) : p \in Named(w, n)
      BY <1>1, <1>4, TargetName
    <3>3. n # Last(src) /\ n # Last(dest)
      <4>1. PICK p \in Target(v, q, l) : p \in Named(v, n)
        BY <2>2, <3>1
      <4> QED
        BY <1>5, <1>8, <4>1
    <3>4. Named(w, n) = Named(v, n)
      BY <1>2, <3>3
    <3>5. \A p \in Named(v, n) : p \in Notes(v) /\ p \in Notes(w) /\ Last(p) = n
      BY <3>4 DEF Named
    <3>6. \A p \in Named(v, n) :
            LinkMatches(w, q, l, p) <=> LinkMatches(v, q, l, p)
      BY <3>4, <3>5, SameNamesSameMatches
    <3>7. \A p \in Named(v, n) : p \in Target(w, q, l) <=> p \in Target(v, q, l)
      BY <3>5, <3>6 DEF Target
    <3> QED
      BY <3>1, <3>2, <3>4, <3>7
  <2> HIDE DEF w, k
  <2>3. IF src \in Target(v, q, l)
        THEN Target(w, q, k) = {dest}
        ELSE /\ k = l
             /\ Target(v, q, l) # {} => Target(w, q, k) = Target(v, q, l)
    BY <1>8, <2>1, <2>2
  <2> QED
    BY <2>3 DEF w, k
<1> QED
  BY <1>7, <1>8

----------------------------------------------------------------------------
(* The invariant.                                                          *)

\* The preview gave the notes it listed the text the command would give them.
PlanOk(pl) ==
  \/ pl = NoPlan
  \/ /\ pl.id.op \in {"rename", "move"}
     /\ \A q \in DOMAIN pl.id.bytes \ {pl.id.from} :
          pl.after[q] = [i \in DOMAIN pl.id.bytes[q] |->
                           RewrittenLink(q, pl.id.bytes[q][i], pl.id.from, pl.id.to)]
  \/ /\ pl.id.op = "trash"
     /\ \A q \in DOMAIN pl.id.bytes \ {pl.id.from} :
          pl.after[q] = pl.id.bytes[q]

VInv == VaultOk(vault) /\ IsFiniteSet(trash) /\ PlanOk(plan)

\* What rename and move come to.
Relocation(op, src, dest, tail) ==
  /\ op \in {"rename", "move"} /\ src \in Notes(vault)
  /\ Relocate(op, src, dest, tail)
  /\ UNCHANGED hidden

\* What a trash comes to: a preview, or the note put away.
Away(v, src) == [q \in DOMAIN v \ {src} |-> v[q]]
Trashes(src, tail) ==
  LET to == TrashName(Last(src))
      id == Digest("trash", vault, src, to, Impact(vault, src))
  IN /\ src \in Notes(vault) /\ Trashable(vault, src) /\ UNCHANGED hidden
     /\ \/ DryRun(tail) /\ Previewed(id, Away(vault, src))
        \/ /\ Agrees(tail, id)
           /\ vault' = Away(vault, src)
           /\ trash' = trash \cup {to}
           /\ Ended("applied", "trash", src, to, tail)
           /\ UNCHANGED plan

LEMMA Steps ==
  ASSUME Next
  PROVE  \/ \E op, src, dest, tail : Relocation(op, src, dest, tail)
         \/ \E src, tail : Trashes(src, tail)
         \/ \E p \in DOMAIN vault, text \in Texts : EditorSaves(p, text)
<1>1. CASE \E ref \in Refs, tail \in Tails : \E name \in Names : Rename(ref, name, tail)
  <2>1. PICK ref \in Refs, tail \in Tails, name \in Names : Rename(ref, name, tail)
    BY <1>1
  <2>2. PICK src \in Resolved(vault, ref, TRUE) :
          Relocate("rename", src, Append(Folder(src), name), tail)
    BY <2>1 DEF Rename
  <2>3. src \in Notes(vault) /\ UNCHANGED hidden
    BY <2>1, ResolvedIsNote DEF Rename, Open
  <2>4. Relocation("rename", src, Append(Folder(src), name), tail)
    BY <2>2, <2>3 DEF Relocation
  <2> QED
    BY <2>4
<1>2. CASE \E ref \in Refs, tail \in Tails : \E folder \in Folders : Move(ref, folder, tail)
  <2>1. PICK ref \in Refs, tail \in Tails, folder \in Folders : Move(ref, folder, tail)
    BY <1>2
  <2>2. PICK src \in Resolved(vault, ref, TRUE) :
          Relocate("move", src, Append(folder, Last(src)), tail)
    BY <2>1 DEF Move
  <2>3. src \in Notes(vault) /\ UNCHANGED hidden
    BY <2>1, ResolvedIsNote DEF Move, Open
  <2>4. Relocation("move", src, Append(folder, Last(src)), tail)
    BY <2>2, <2>3 DEF Relocation
  <2> QED
    BY <2>4
<1>3. CASE \E ref \in Refs, tail \in Tails : Trash(ref, tail)
  <2>1. PICK ref \in Refs, tail \in Tails : Trash(ref, tail)
    BY <1>3
  <2>2. PICK src \in Resolved(vault, ref, TRUE) :
          LET to == TrashName(Last(src))
              id == Digest("trash", vault, src, to, Impact(vault, src))
              after == [q \in DOMAIN vault \ {src} |-> vault[q]]
          IN /\ Trashable(vault, src)
             /\ \/ DryRun(tail) /\ Previewed(id, after)
                \/ /\ Applies(tail) /\ Agrees(tail, id)
                   /\ vault' = after
                   /\ trash' = trash \cup {to}
                   /\ Ended("applied", "trash", src, to, tail)
                   /\ UNCHANGED plan
    BY <2>1 DEF Trash
  <2>3. src \in Notes(vault) /\ UNCHANGED hidden
    BY <2>1, ResolvedIsNote DEF Trash, Open
  <2>4. Trashes(src, tail)
    BY <2>2, <2>3 DEF Trashes, Away
  <2> QED
    BY <2>4
<1> QED
  BY <1>1, <1>2, <1>3 DEF Next

LEMMA RelocateKeeps ==
  ASSUME VInv, NEW op, NEW src, NEW dest, NEW tail,
         Relocation(op, src, dest, tail)
  PROVE  VInv'
<1> DEFINE id == Digest(op, vault, src, dest, Hit(vault, src, dest))
           w == Relocated(vault, src, dest)
<1>1. VaultOk(vault) /\ IsFiniteSet(trash) /\ PlanOk(plan)
  BY DEF VInv
<1>2. op \in {"rename", "move"} /\ src \in Notes(vault)
      /\ Relocatable(vault, src, dest)
  BY DEF Relocation, Relocate
<1>3. Movable(vault, src, dest)
  BY <1>1, <1>2, RelocatableIsMovable
<1>4. RelocatedTo(w, vault, src, dest)
  BY <1>1, <1>3, RelocatedVault
<1>5. CASE Previewed(id, w)
  <2>1. vault' = vault /\ trash' = trash /\ plan' = [id |-> id, after |-> w]
    BY <1>5 DEF Previewed
  <2>2. /\ id.op = op /\ id.from = src /\ id.to = dest
        /\ id.bytes = [q \in Hit(vault, src, dest) |-> vault[q]]
    BY DEF Digest
  <2>3. ASSUME NEW q \in DOMAIN id.bytes \ {id.from}
        PROVE  w[q] = [i \in DOMAIN id.bytes[q] |->
                         RewrittenLink(q, id.bytes[q][i], id.from, id.to)]
    <3>1. q \in Hit(vault, src, dest) /\ q # src /\ id.bytes[q] = vault[q]
      BY <2>2
    <3>2. q \in DOMAIN vault
      BY <1>1, <3>1, NotesAreNotes DEF Hit, Hits
    <3> HIDE DEF id, w
    <3>3. w[q] = Rewritten(vault, q, src, dest)
      BY <1>4, <3>1, <3>2 DEF RelocatedTo
    <3> QED
      BY <2>2, <3>1, <3>3 DEF Rewritten
  <2> HIDE DEF id, w
  <2>4. plan'.id = id /\ plan'.after = w
    BY <2>1
  <2>5. PlanOk(plan')
    BY <1>2, <2>2, <2>3, <2>4 DEF PlanOk
  <2> QED
    BY <1>1, <2>1, <2>5 DEF VInv
<1>6. CASE vault' = w /\ UNCHANGED <<trash, plan>>
  <2>1. VaultOk(vault')
    BY <1>4, <1>6 DEF RelocatedTo
  <2> QED
    BY <1>1, <1>6, <2>1 DEF VInv
<1>7. CASE UNCHANGED <<vault, trash, plan>>
  BY <1>1, <1>7 DEF VInv
<1> QED
  BY <1>5, <1>6, <1>7 DEF Relocation, Relocate

LEMMA AwayVault ==
  ASSUME NEW v, VaultOk(v), NEW src
  PROVE  VaultOk(Away(v, src)) /\ DOMAIN Away(v, src) = DOMAIN v \ {src}
<1>1. DOMAIN Away(v, src) = DOMAIN v \ {src}
  BY DEF Away
<1>2. Away(v, src) \in [DOMAIN v \ {src} -> Seq(Links)]
  BY DEF Away, VaultOk
<1> QED
  BY <1>1, <1>2 DEF VaultOk

LEMMA TrashKeeps ==
  ASSUME VInv, NEW src, NEW tail, Trashes(src, tail)
  PROVE  VInv'
<1> DEFINE to == TrashName(Last(src))
           id == Digest("trash", vault, src, to, Impact(vault, src))
<1>1. VaultOk(vault) /\ IsFiniteSet(trash) /\ PlanOk(plan)
  BY DEF VInv
<1>2. CASE Previewed(id, Away(vault, src))
  <2>1. /\ vault' = vault /\ trash' = trash
        /\ plan' = [id |-> id, after |-> Away(vault, src)]
    BY <1>2 DEF Previewed
  <2>2. /\ id.op = "trash" /\ id.from = src
        /\ id.bytes = [q \in Impact(vault, src) |-> vault[q]]
    BY DEF Digest
  <2>3. ASSUME NEW q \in DOMAIN id.bytes \ {id.from}
        PROVE  Away(vault, src)[q] = id.bytes[q]
    <3>1. q \in Impact(vault, src) /\ q # src /\ id.bytes[q] = vault[q]
      BY <2>2
    <3>2. q \in DOMAIN vault
      BY <1>1, <3>1, NotesAreNotes DEF Impact, Hits
    <3> QED
      BY <3>1, <3>2 DEF Away
  <2> HIDE DEF id
  <2>4. plan'.id = id /\ plan'.after = Away(vault, src)
    BY <2>1
  <2>5. PlanOk(plan')
    BY <2>2, <2>3, <2>4 DEF PlanOk
  <2> QED
    BY <1>1, <2>1, <2>5 DEF VInv
<1>3. CASE vault' = Away(vault, src) /\ trash' = trash \cup {to} /\ UNCHANGED plan
  <2>1. VaultOk(vault')
    BY <1>1, <1>3, AwayVault
  <2>2. IsFiniteSet(trash')
    BY <1>1, <1>3, FS_AddElement
  <2> QED
    BY <1>1, <1>3, <2>1, <2>2 DEF VInv
<1> QED
  BY <1>2, <1>3 DEF Trashes

LEMMA EditorKeeps ==
  ASSUME VInv, NEW p \in DOMAIN vault, NEW text \in Texts, EditorSaves(p, text)
  PROVE  VInv'
<1>1. VaultOk(vault) /\ IsFiniteSet(trash) /\ PlanOk(plan)
  BY DEF VInv
<1>2. vault' = [vault EXCEPT ![p] = text] /\ UNCHANGED <<trash, plan>>
  BY DEF EditorSaves
<1>3. text \in Seq(Links)
  BY VaultsAssumption
<1>4. DOMAIN vault' = DOMAIN vault /\ vault' \in [DOMAIN vault -> Seq(Links)]
  BY <1>1, <1>2, <1>3 DEF VaultOk
<1>5. VaultOk(vault')
  BY <1>1, <1>4 DEF VaultOk
<1> QED
  BY <1>1, <1>2, <1>5 DEF VInv

\* What every state has: the notes are where notes may be and their links are
\* links, and the plan holds the texts that the command it was made for would
\* write.
THEOREM Inductive == Spec => []VInv
<1>1. Init => VInv
  BY VaultsAssumption DEF Init, VInv, VaultOk, PlanOk
<1>2. VInv /\ [Next]_vars => VInv'
  <2> SUFFICES ASSUME VInv, [Next]_vars PROVE VInv'
    OBVIOUS
  <2>1. CASE Next
    BY <2>1, Steps, RelocateKeeps, TrashKeeps, EditorKeeps
  <2>2. CASE UNCHANGED vars
    BY <2>2 DEF vars, VInv
  <2> QED
    BY <2>1, <2>2
<1> QED
  BY <1>1, <1>2, PTL DEF Spec

\* backlinks and orphans agree on every vault: cmd_orphans, which asks the
\* index for the targets of all links, and cmd_backlinks, which asks for the
\* links to one note.
THEOREM OrphansAgree == Spec => []OrphansMatchBacklinks
<1>1. VInv => OrphansMatchBacklinks
  BY Orphanhood DEF VInv
<1> QED
  BY <1>1, Inductive, PTL

\* A link that cmd_unresolved lists leads nowhere, a bare name that leads
\* nowhere is listed, and lint lists the same but for memory slugs.
THEOREM UnresolvedDangle == Spec => []UnresolvedIsDangling
<1>1. VInv => UnresolvedIsDangling
  BY Dangling DEF VInv
<1> QED
  BY <1>1, Inductive, PTL

\* A write by a name or a number goes to the only note it can mean, whatever
\* folder could not be read.
THEOREM WritesAreUnique == Spec => []WriteNamesUnique
<1>1. VInv => WriteNamesUnique
  BY Uniqueness DEF VInv
<1> QED
  BY <1>1, Inductive, PTL

----------------------------------------------------------------------------
(* The action properties.                                                  *)

\* How a step ends.
LEMMA RelocateEnds ==
  ASSUME VInv, NEW op, NEW src, NEW dest, NEW tail,
         Relocation(op, src, dest, tail), last'.end = "applied"
  PROVE  /\ Movable(vault, src, dest) /\ op \in {"rename", "move"}
         /\ vault' = Relocated(vault, src, dest)
         /\ last'.op = op /\ last'.src = src /\ last'.dest = dest
         /\ last'.bound = Bound(tail)
         /\ Agrees(tail, Digest(op, vault, src, dest, Hit(vault, src, dest)))
         /\ UNCHANGED plan
<1>1. Movable(vault, src, dest) /\ op \in {"rename", "move"}
  BY RelocatableIsMovable DEF Relocation, Relocate, VInv
<1>2. /\ Agrees(tail, Digest(op, vault, src, dest, Hit(vault, src, dest)))
      /\ vault' = Relocated(vault, src, dest)
      /\ Ended("applied", op, src, dest, tail)
      /\ UNCHANGED plan
  <2> DEFINE id == Digest(op, vault, src, dest, Hit(vault, src, dest))
             w == Relocated(vault, src, dest)
  <2>1. \/ Previewed(id, w)
        \/ /\ Agrees(tail, id) /\ vault' = w
           /\ Ended("applied", op, src, dest, tail) /\ UNCHANGED plan
        \/ Ended("rolled back", op, src, dest, tail)
    BY DEF Relocation, Relocate
  <2> HIDE DEF id, w
  <2>2. ~Previewed(id, w)
    BY DEF Previewed
  <2>3. ASSUME Ended("rolled back", op, src, dest, tail)
        PROVE  FALSE
    <3>1. last'.end = "rolled back"
      BY <2>3 DEF Ended
    <3>2. "rolled back" # "applied"
      OBVIOUS
    <3> QED
      BY <3>1, <3>2
  <2>4. /\ Agrees(tail, id) /\ vault' = w
        /\ Ended("applied", op, src, dest, tail) /\ UNCHANGED plan
    BY <2>1, <2>2, <2>3
  <2> QED
    BY <2>4 DEF id, w
<1> QED
  BY <1>1, <1>2 DEF Ended

LEMMA TrashEnds ==
  ASSUME VInv, NEW src, NEW tail, Trashes(src, tail), last'.end = "applied"
  PROVE  LET to == TrashName(Last(src))
         IN /\ src \in DOMAIN vault /\ hidden = {}
            /\ Named(vault, Last(src)) = {src}
            /\ vault' = Away(vault, src) /\ trash' = trash \cup {to}
            /\ last'.op = "trash" /\ last'.src = src /\ last'.dest = to
            /\ last'.bound = Bound(tail)
            /\ Agrees(tail, Digest("trash", vault, src, to, Impact(vault, src)))
            /\ UNCHANGED plan
<1>1. src \in Notes(vault) /\ hidden = {} /\ ~Ambiguous(vault, src)
  BY DEF Trashes, Trashable, Incomplete
<1>2. src \in DOMAIN vault /\ Named(vault, Last(src)) = {src}
  BY <1>1, NotesAreNotes, UnambiguousIsAlone DEF VInv
<1>3. LET to == TrashName(Last(src))
      IN /\ Agrees(tail, Digest("trash", vault, src, to, Impact(vault, src)))
         /\ vault' = Away(vault, src) /\ trash' = trash \cup {to}
         /\ Ended("applied", "trash", src, to, tail)
         /\ UNCHANGED plan
  BY DEF Trashes, Previewed
<1> QED
  BY <1>1, <1>2, <1>3 DEF Ended

LEMMA OnlyCommandsApply ==
  ASSUME Next, last'.end = "applied"
  PROVE  \/ \E op, src, dest, tail : Relocation(op, src, dest, tail)
         \/ \E src, tail : Trashes(src, tail)
<1>1. \A p \in DOMAIN vault, text \in Texts : ~EditorSaves(p, text)
  BY DEF EditorSaves
<1> QED
  BY <1>1, Steps

\* After a rename or a move every link of another note that led to the note
\* leads to it at its new place, and every other link is as it was and leads
\* where it led: _rewrite_links leaves no link behind and takes none along
\* that is not the note's, for all vaults.
THEOREM Follow == Spec => LinksFollow
<1>1. VInv /\ Next =>
        (last # last' /\ Relocates =>
           LET src == last'.src
               dest == last'.dest
           IN \A q \in DOMAIN vault \ {src} : \A i \in DOMAIN vault[q] :
                LET l == vault[q][i]
                    k == vault'[q][i]
                IN IF src \in Target(vault, q, l)
                   THEN Target(vault', q, k) = {dest}
                   ELSE /\ k = l
                        /\ Target(vault, q, l) # {}
                             => Target(vault', q, k) = Target(vault, q, l))
  <2> SUFFICES ASSUME VInv, Next, last'.end = "applied",
                      last'.op \in {"rename", "move"},
                      NEW q \in DOMAIN vault \ {last'.src}, NEW i \in DOMAIN vault[q]
               PROVE  IF last'.src \in Target(vault, q, vault[q][i])
                      THEN Target(vault', q, vault'[q][i]) = {last'.dest}
                      ELSE /\ vault'[q][i] = vault[q][i]
                           /\ Target(vault, q, vault[q][i]) # {}
                                => Target(vault', q, vault'[q][i])
                                     = Target(vault, q, vault[q][i])
    BY DEF Relocates
  <2>1. \A src, tail : ~Trashes(src, tail)
    BY TrashEnds
  <2>2. PICK op, src, dest, tail : Relocation(op, src, dest, tail)
    BY <2>1, OnlyCommandsApply
  <2>3. /\ Movable(vault, src, dest) /\ vault' = Relocated(vault, src, dest)
        /\ last'.src = src /\ last'.dest = dest
    BY <2>2, RelocateEnds
  <2>4. VaultOk(vault)
    BY DEF VInv
  <2> QED
    BY <2>3, <2>4, Following
<1>2. VInv /\ UNCHANGED vars => last' = last
  BY DEF vars
<1> QED
  BY <1>1, <1>2, Inductive, PTL DEF Spec, LinksFollow

\* A command with the id of a preview gives the notes that the preview listed
\* the text it said, and leaves the others as they are, whatever was saved in
\* between: the id binds the bytes of every note that a command rewrites.
THEOREM PlanHappens == Spec => PlanIsWhatHappens
<1> DEFINE As(q) == vault'[q] = IF q \in DOMAIN plan.id.bytes
                                THEN plan.after[q] ELSE vault[q]
<1>1. ASSUME VInv, Next, last'.end = "applied", last'.bound
      PROVE  /\ <<last'.op, last'.src, last'.dest>>
                  = <<plan.id.op, plan.id.from, plan.id.to>>
             /\ \A q \in DOMAIN vault \ {last'.src} : As(q)
  <2>1. VaultOk(vault) /\ PlanOk(plan)
    BY <1>1 DEF VInv
  <2>2. ASSUME NEW op, NEW src, NEW dest, NEW tail, Relocation(op, src, dest, tail)
        PROVE  /\ <<last'.op, last'.src, last'.dest>>
                    = <<plan.id.op, plan.id.from, plan.id.to>>
               /\ \A q \in DOMAIN vault \ {last'.src} : As(q)
    <3>1. /\ Movable(vault, src, dest) /\ op \in {"rename", "move"}
          /\ vault' = Relocated(vault, src, dest)
          /\ last'.op = op /\ last'.src = src /\ last'.dest = dest
          /\ plan.id = Digest(op, vault, src, dest, Hit(vault, src, dest))
      BY <1>1, <2>2, RelocateEnds DEF Agrees
    <3>2. /\ plan.id.op = op /\ plan.id.from = src /\ plan.id.to = dest
          /\ plan.id.bytes = [q \in Hit(vault, src, dest) |-> vault[q]]
      BY <3>1 DEF Digest
    <3>3. RelocatedTo(vault', vault, src, dest)
      BY <2>1, <3>1, RelocatedVault
    <3>4. \A q \in DOMAIN plan.id.bytes \ {src} :
            plan.after[q] = [i \in DOMAIN plan.id.bytes[q] |->
                               RewrittenLink(q, plan.id.bytes[q][i], src, dest)]
      <4>1. plan # NoPlan /\ plan.id.op # "trash"
        BY <3>1, <3>2 DEF NoPlan
      <4> QED
        BY <2>1, <3>2, <4>1 DEF PlanOk
    <3>5. ASSUME NEW q \in DOMAIN vault \ {src}
          PROVE  As(q)
      <4>1. CASE q \in Hit(vault, src, dest)
        <5>1. vault'[q] = Rewritten(vault, q, src, dest)
          BY <3>3, <4>1 DEF RelocatedTo
        <5>2. q \in DOMAIN plan.id.bytes /\ plan.id.bytes[q] = vault[q]
          BY <3>2, <4>1
        <5> QED
          BY <3>4, <5>1, <5>2 DEF Rewritten
      <4>2. CASE q \notin Hit(vault, src, dest)
        <5>1. vault'[q] = vault[q]
          BY <3>3, <4>2 DEF RelocatedTo
        <5>2. q \notin DOMAIN plan.id.bytes
          BY <3>2, <4>2
        <5> QED
          BY <5>1, <5>2
      <4> QED
        BY <4>1, <4>2
    <3> QED
      BY <3>1, <3>2, <3>5
  <2>3. ASSUME NEW src, NEW tail, Trashes(src, tail)
        PROVE  /\ <<last'.op, last'.src, last'.dest>>
                    = <<plan.id.op, plan.id.from, plan.id.to>>
               /\ \A q \in DOMAIN vault \ {last'.src} : As(q)
    <3> DEFINE to == TrashName(Last(src))
    <3>1. /\ vault' = Away(vault, src)
          /\ last'.op = "trash" /\ last'.src = src /\ last'.dest = to
          /\ plan.id = Digest("trash", vault, src, to, Impact(vault, src))
      BY <1>1, <2>3, TrashEnds DEF Agrees
    <3>2. /\ plan.id.op = "trash" /\ plan.id.from = src /\ plan.id.to = to
          /\ plan.id.bytes = [q \in Impact(vault, src) |-> vault[q]]
      BY <3>1 DEF Digest
    <3>3. \A q \in DOMAIN plan.id.bytes \ {src} : plan.after[q] = plan.id.bytes[q]
      <4>1. plan # NoPlan /\ plan.id.op \notin {"rename", "move"}
        BY <3>2 DEF NoPlan
      <4> QED
        BY <2>1, <3>2, <4>1 DEF PlanOk
    <3>4. ASSUME NEW q \in DOMAIN vault \ {src}
          PROVE  As(q)
      <4>1. vault'[q] = vault[q]
        BY <3>1 DEF Away
      <4>2. q \in DOMAIN plan.id.bytes => plan.after[q] = vault[q]
        BY <3>2, <3>3
      <4> QED
        BY <4>1, <4>2
    <3> QED
      BY <3>1, <3>2, <3>4
  <2> HIDE DEF As
  <2> QED
    BY <1>1, <2>2, <2>3, OnlyCommandsApply
<1>2. VInv /\ Next =>
        (last # last' /\ last'.end = "applied" /\ last'.bound
           => /\ <<last'.op, last'.src, last'.dest>>
                   = <<plan.id.op, plan.id.from, plan.id.to>>
              /\ \A q \in DOMAIN vault \ {last'.src} :
                   vault'[q] = IF q \in DOMAIN plan.id.bytes
                               THEN plan.after[q] ELSE vault[q])
  BY <1>1
<1>3. VInv /\ UNCHANGED vars => last' = last
  BY DEF vars
<1> QED
  BY <1>2, <1>3, Inductive, PTL DEF Spec, PlanIsWhatHappens

\* One of the numbers up to one more than the trash has is free.
LEMMA FreeName ==
  ASSUME IsFiniteSet(trash), NEW name
  PROVE  TrashName(name) \notin trash
<1> DEFINE c == Cardinality(trash)
           at(n) == <<".trash", name, n>>
           free == {n \in 1 .. c + 1 : at(n) \notin trash}
<1>1. c \in Nat
  BY FS_CardinalityType
<1>2. free # {}
  <2> SUFFICES ASSUME free = {} PROVE FALSE
    OBVIOUS
  <2> DEFINE f == [n \in 1 .. c + 1 |-> at(n)]
  <2>1. f \in [1 .. c + 1 -> trash]
    OBVIOUS
  <2>2. \A m, n \in 1 .. c + 1 : f[m] = f[n] => m = n
    OBVIOUS
  <2>3. f \in Injection(1 .. c + 1, trash)
    BY <2>1, <2>2 DEF Injection, IsInjective
  <2>4. Cardinality(1 .. c + 1) <= c
    BY <2>3, FS_Injection
  <2>5. Cardinality(1 .. c + 1) = c + 1
    BY <1>1, FS_Interval
  <2> QED
    BY <1>1, <2>4, <2>5
<1>3. free \in SUBSET Nat
  BY <1>1
<1>4. \E n \in free : \A m \in free : n <= m
  BY <1>2, <1>3, LeastNumber
<1> HIDE DEF free
<1>5. Min(free) \in free
  BY <1>4 DEF Min
<1>6. TrashName(name) = at(Min(free))
  BY DEF TrashName, free
<1> QED
  BY <1>5, <1>6 DEF free

\* When a note is trashed a link to another note leads where it led, the links
\* to the note are in the notes that cmd_trash counts, and the trash has one
\* file more: nothing in it is written over.
THEOREM Trashing == Spec => TrashRepointsNothing
<1>1. ASSUME VInv, NEW src, NEW tail, Trashes(src, tail), last'.end = "applied"
      PROVE  /\ \A q \in DOMAIN vault' : \A l \in Range(vault[q]) :
                  /\ Target(vault', q, l) = Target(vault, q, l) \ {src}
                  /\ src \in Target(vault, q, l) => q \in Impact(vault, src)
             /\ Cardinality(trash') = Cardinality(trash) + 1
  <2>1. /\ src \in DOMAIN vault /\ hidden = {} /\ Named(vault, Last(src)) = {src}
        /\ vault' = Away(vault, src)
        /\ trash' = trash \cup {TrashName(Last(src))}
    BY <1>1, TrashEnds
  <2>2. VaultOk(vault) /\ IsFiniteSet(trash)
    BY <1>1 DEF VInv
  <2>3. Cardinality(trash') = Cardinality(trash) + 1
    BY <2>1, <2>2, FreeName, FS_AddElement
  <2> DEFINE w == Away(vault, src)
  <2>4. VaultOk(w) /\ DOMAIN w = DOMAIN vault \ {src}
    BY <2>2, AwayVault
  <2>5. Notes(vault) = DOMAIN vault /\ Notes(w) = DOMAIN vault \ {src}
    BY <2>1, <2>2, <2>4, NotesAreNotes
  <2> HIDE DEF w
  <2>6. ASSUME NEW p \in Notes(w)
        PROVE  Named(w, Last(p)) = Named(vault, Last(p))
    <3>1. p # src /\ p \in Notes(vault)
      BY <2>5
    <3>2. Last(p) # Last(src)
      BY <2>1, <3>1 DEF Named
    <3> QED
      BY <2>5, <3>2 DEF Named
  <2>7. ASSUME NEW q \in DOMAIN w, NEW l \in Range(vault[q])
        PROVE  /\ Target(w, q, l) = Target(vault, q, l) \ {src}
               /\ src \in Target(vault, q, l) => q \in Impact(vault, src)
    <3>1. \A p \in Notes(w) : LinkMatches(w, q, l, p) <=> LinkMatches(vault, q, l, p)
      BY <2>6, SameNamesSameMatches
    <3>2. Target(w, q, l) = Target(vault, q, l) \ {src}
      BY <2>5, <3>1 DEF Target
    <3>3. q \in DOMAIN vault /\ q \in Notes(vault)
      BY <2>4, <2>5
    <3>4. PICK i \in DOMAIN vault[q] : l = vault[q][i]
      BY <2>2, <3>3, LinkOf
    <3>5. ASSUME src \in Target(vault, q, l)
          PROVE  q \in Impact(vault, src)
      <4>1. i \in LinksTo(vault, q, src)
        BY <3>4, <3>5 DEF LinksTo, Target
      <4> QED
        BY <3>3, <4>1 DEF Impact, Hits, Occurring
    <3> QED
      BY <3>2, <3>5
  <2>8. vault' = w
    BY <2>1 DEF w
  <2> QED
    BY <2>3, <2>7, <2>8
<1>2. VInv /\ Next =>
        (last'.end = "applied" /\ last'.op = "trash"
           => /\ \A q \in DOMAIN vault' : \A l \in Range(vault[q]) :
                   /\ Target(vault', q, l) = Target(vault, q, l) \ {last'.src}
                   /\ last'.src \in Target(vault, q, l)
                        => q \in Impact(vault, last'.src)
              /\ Cardinality(trash') = Cardinality(trash) + 1)
  <2> SUFFICES ASSUME VInv, Next, last'.end = "applied", last'.op = "trash"
               PROVE  /\ \A q \in DOMAIN vault' : \A l \in Range(vault[q]) :
                           /\ Target(vault', q, l) = Target(vault, q, l) \ {last'.src}
                           /\ last'.src \in Target(vault, q, l)
                                => q \in Impact(vault, last'.src)
                      /\ Cardinality(trash') = Cardinality(trash) + 1
    OBVIOUS
  <2>1. \A op, src, dest, tail : ~Relocation(op, src, dest, tail)
    BY RelocateEnds
  <2>2. PICK src, tail : Trashes(src, tail)
    BY <2>1, OnlyCommandsApply
  <2>3. last'.src = src
    BY <2>2, TrashEnds
  <2> QED
    BY <1>1, <2>2, <2>3
<1> QED
  BY <1>2, Inductive, PTL DEF Spec, TrashRepointsNothing
=============================================================================
