------------------------- MODULE IngestionContentProofs -------------------------
(***************************************************************************)
(* Proofs about what becomes of the text of a file, for every file, every  *)
(* outline and any settings, also such as make the overlap larger than a   *)
(* passage: its blocks are pure, its sections keep the text and the        *)
(* outline, a parent is capped, the passages leave no sentence out and     *)
(* share no more than they should, and so every word of every line can be  *)
(* found in what is stored.                                                *)
(*                                                                         *)
(* The loops of chunking.py that run over a list to its end are folds;     *)
(* FoldLaws gives the last round of each, and a sequence is reached from   *)
(* the empty one an element at a time.  The argument follows the text:     *)
(* Words, the words of the lines the parser has seen, are those of the     *)
(* blocks and of the open paragraph (ParseInv); the blocks, in order, are  *)
(* what the sections tell (Story) with the pending headings, in each of    *)
(* the loops (SectionInv); the units of a section are covered by its       *)
(* passages (PassageInv); and what a passage says stays stored, if need be *)
(* as that of an equal one (ContentInv).  No sentence is repeated, for it  *)
(* carries its place: that is why a heading that the parts of a section    *)
(* share, or that was folded, is told apart from a line that reads alike.  *)
(***************************************************************************)
EXTENDS IngestionContent, SequenceTheorems, FiniteSetTheorems, TLAPS

-----------------------------------------------------------------------------
(* Sequences and the sets of their elements *)

\* The empty sequence has no elements.
LEMMA NoElements ==
    ASSUME NEW T PROVE <<>> \in Seq(T) /\ ToSet(<<>>) = {} /\ IsInjective(<<>>) /\ Len(<<>>) = 0
<1>1. DOMAIN <<>> = {}
    OBVIOUS
<1> QED  BY <1>1 DEF ToSet, IsInjective

\* A sequence and the set of its elements.
LEMMA Elements ==
    ASSUME NEW T, NEW s \in Seq(T)
    PROVE  /\ DOMAIN s = 1 .. Len(s) /\ Len(s) \in Nat /\ \A i \in 1 .. Len(s) : s[i] \in T
           /\ ToSet(s) = {s[i] : i \in 1 .. Len(s)} /\ ToSet(s) \subseteq T
BY DEF ToSet

\* Append adds one element, and keeps apart what was apart.
LEMMA OneMore ==
    ASSUME NEW T, NEW s \in Seq(T), NEW x \in T
    PROVE  /\ Append(s, x) \in Seq(T) /\ ToSet(Append(s, x)) = ToSet(s) \cup {x}
           /\ IsInjective(s) /\ x \notin ToSet(s) => IsInjective(Append(s, x))
<1>0. PICK w : w = Append(s, x)
    OBVIOUS
<1>1. PICK m \in Nat : m = Len(s)
    OBVIOUS
<1>2. w \in Seq(T) /\ Len(w) = m + 1 /\ w[m + 1] = x /\ \A i \in 1 .. m : w[i] = s[i]
    BY <1>0, <1>1, AppendProperties
<1>3. DOMAIN s = 1 .. m /\ DOMAIN w = 1 .. m + 1
    BY <1>1, <1>2
<1>4. \A i : i \in 1 .. m + 1 <=> i \in 1 .. m \/ i = m + 1
    OBVIOUS
<1>5. ToSet(w) = ToSet(s) \cup {x}
  <2>1. ToSet(w) = {w[i] : i \in 1 .. m + 1} /\ ToSet(s) = {s[i] : i \in 1 .. m}
      BY <1>3 DEF ToSet
  <2> QED  BY <1>2, <1>4, <2>1
<1>6. ASSUME IsInjective(s), x \notin ToSet(s) PROVE IsInjective(w)
  <2>1. \A i \in 1 .. m : s[i] # x
      BY <1>3, <1>6 DEF ToSet
  <2>2. \A i, j \in 1 .. m : s[i] = s[j] => i = j
      BY <1>3, <1>6 DEF IsInjective
  <2>3. \A i, j \in 1 .. m + 1 : w[i] = w[j] => i = j
      BY <1>2, <1>4, <2>1, <2>2
  <2> QED  BY <1>3, <2>3 DEF IsInjective
<1> QED  BY <1>0, <1>2, <1>5, <1>6

\* The elements of s \o t are those of s and those of t, and if none is there
\* twice, s and t have none in common.
LEMMA JoinedSets ==
    ASSUME NEW T, NEW s \in Seq(T), NEW t \in Seq(T)
    PROVE  /\ s \o t \in Seq(T) /\ ToSet(s \o t) = ToSet(s) \cup ToSet(t)
           /\ IsInjective(s \o t) =>
                 IsInjective(s) /\ IsInjective(t) /\ ToSet(s) \cap ToSet(t) = {}
<1>0. PICK w : w = s \o t
    OBVIOUS
<1>1. PICK m \in Nat : m = Len(s)
    OBVIOUS
<1>2. PICK k \in Nat : k = Len(t)
    OBVIOUS
<1>3. w \in Seq(T) /\ Len(w) = m + k /\ \A i \in 1 .. m + k : w[i] = IF i <= m THEN s[i] ELSE t[i - m]
    BY <1>0, <1>1, <1>2, ConcatProperties
<1>4. \A i \in 1 .. m : w[i] = s[i] /\ i \in 1 .. m + k
    BY <1>3
<1>5. \A i \in 1 .. k : w[m + i] = t[i] /\ m + i \in 1 .. m + k
  <2> SUFFICES ASSUME NEW i \in 1 .. k PROVE w[m + i] = t[i] /\ m + i \in 1 .. m + k
      OBVIOUS
  <2>1. m + i \in 1 .. m + k /\ ~(m + i <= m) /\ (m + i) - m = i
      OBVIOUS
  <2> QED  BY <1>3, <2>1
<1>6. \A i \in 1 .. m + k : i \in 1 .. m \/ (\E j \in 1 .. k : i = m + j)
  <2> SUFFICES ASSUME NEW i \in 1 .. m + k, i \notin 1 .. m PROVE \E j \in 1 .. k : i = m + j
      OBVIOUS
  <2>1. i - m \in 1 .. k /\ i = m + (i - m)
      OBVIOUS
  <2> QED  BY <2>1
<1>7. /\ DOMAIN s = 1 .. m /\ DOMAIN t = 1 .. k /\ DOMAIN w = 1 .. m + k
      /\ ToSet(s) = {s[i] : i \in 1 .. m} /\ ToSet(t) = {t[i] : i \in 1 .. k}
      /\ ToSet(w) = {w[i] : i \in 1 .. m + k}
  <2>1. DOMAIN s = 1 .. m /\ DOMAIN t = 1 .. k
      BY <1>1, <1>2
  <2>2. DOMAIN w = 1 .. m + k
    <3>1. DOMAIN w = 1 .. Len(w)
        BY <1>3
    <3> QED  BY <1>3, <3>1
  <2> QED  BY <2>1, <2>2 DEF ToSet
<1>8. ToSet(w) = ToSet(s) \cup ToSet(t)
  <2>1. ASSUME NEW x \in ToSet(w) PROVE x \in ToSet(s) \cup ToSet(t)
    <3>1. PICK i \in 1 .. m + k : x = w[i]
        BY <1>7
    <3>2. CASE i \in 1 .. m
        BY <1>4, <1>7, <3>1, <3>2
    <3>3. ASSUME NEW j \in 1 .. k, i = m + j PROVE x \in ToSet(t)
        BY <1>5, <1>7, <3>1, <3>3
    <3> QED  BY <1>6, <3>2, <3>3
  <2>2. ASSUME NEW x \in ToSet(s) PROVE x \in ToSet(w)
    <3>1. PICK i \in 1 .. m : x = s[i]
        BY <1>7
    <3> QED  BY <1>4, <1>7, <3>1
  <2>3. ASSUME NEW x \in ToSet(t) PROVE x \in ToSet(w)
    <3>1. PICK i \in 1 .. k : x = t[i]
        BY <1>7
    <3> QED  BY <1>5, <1>7, <3>1
  <2> QED  BY <2>1, <2>2, <2>3
<1>9. ASSUME IsInjective(w) PROVE IsInjective(s) /\ IsInjective(t) /\ ToSet(s) \cap ToSet(t) = {}
  <2>1. \A i, j \in 1 .. m + k : w[i] = w[j] => i = j
      BY <1>7, <1>9 DEF IsInjective
  <2>2. \A i, j \in 1 .. m : s[i] = s[j] => i = j
      BY <1>4, <2>1
  <2>3. \A i, j \in 1 .. k : t[i] = t[j] => i = j
    <3> SUFFICES ASSUME NEW i \in 1 .. k, NEW j \in 1 .. k, t[i] = t[j] PROVE i = j
        OBVIOUS
    <3>1. m + i = m + j
        BY <1>5, <2>1
    <3> QED  BY <3>1
  <2>4. \A i \in 1 .. m, j \in 1 .. k : s[i] # t[j]
    <3> SUFFICES ASSUME NEW i \in 1 .. m, NEW j \in 1 .. k, s[i] = t[j] PROVE FALSE
        OBVIOUS
    <3>1. i = m + j
        BY <1>4, <1>5, <2>1
    <3> QED  BY <3>1
  <2> QED  BY <1>7, <2>2, <2>3, <2>4 DEF IsInjective
<1> QED  BY <1>0, <1>3, <1>8, <1>9

\* A sequence of one element.
LEMMA Single ==
    ASSUME NEW T, NEW x \in T
    PROVE  <<x>> \in Seq(T) /\ Append(<<>>, x) = <<x>> /\ ToSet(<<x>>) = {x} /\ Len(<<x>>) = 1
<1>1. PICK one : one = <<x>>
    OBVIOUS
<1>2. DOMAIN one = 1 .. 1 /\ one[1] = x /\ Len(one) = 1
    BY <1>1
<1>3. one \in [1 .. 1 -> T]
    BY <1>1, <1>2
<1>4. [1 .. 1 -> T] \in {[1 .. k -> T] : k \in Nat}
    OBVIOUS
<1>5. one \in UNION {[1 .. k -> T] : k \in Nat}
    BY <1>3, <1>4
<1>6. Seq(T) = UNION {[1 .. k -> T] : k \in Nat}
    BY SeqDef, Zenon
<1>7. one \in Seq(T)
    BY <1>5, <1>6
<1>8. <<>> \o one = one
    BY <1>7, ConcatEmptySeq
<1>9. Append(<<>>, x) = <<>> \o <<x>>
    BY EmptySeq, AppendIsConcat
<1>10. ToSet(one) = {x}
  <2>1. ToSet(one) = {one[k] : k \in 1 .. 1}
      BY <1>2 DEF ToSet
  <2> QED  BY <1>2, <2>1
<1> QED  BY <1>1, <1>2, <1>7, <1>8, <1>9, <1>10

\* Appending to the second of two sequences.
LEMMA JoinAppend ==
    ASSUME NEW T, NEW s \in Seq(T), NEW t \in Seq(T), NEW x \in T
    PROVE  s \o Append(t, x) = Append(s \o t, x)
<1>1. PICK u : u = s \o t /\ u \in Seq(T)
    BY ConcatProperties
<1>2. PICK one : one = <<x>> /\ one \in Seq(T)
    BY Single
<1>3. Append(t, x) = t \o one /\ Append(u, x) = u \o one
    BY <1>1, <1>2, AppendIsConcat
<1> QED  BY <1>1, <1>2, <1>3, ConcatAssociative

LEMMA JoinNothing ==
    ASSUME NEW T, NEW s \in Seq(T) PROVE s \o <<>> = s /\ <<>> \o s = s
BY ConcatEmptySeq

\* A beginning, and one element more of it.
LEMMA Beginning ==
    ASSUME NEW T, NEW s \in Seq(T), NEW k \in 0 .. Len(s)
    PROVE  /\ SubSeq(s, 1, k) \in Seq(T) /\ Len(SubSeq(s, 1, k)) = k
           /\ \A i \in 1 .. k : SubSeq(s, 1, k)[i] = s[i]
           /\ SubSeq(s, 1, 0) = <<>> /\ SubSeq(s, 1, Len(s)) = s
           /\ ToSet(SubSeq(s, 1, k)) \subseteq ToSet(s)
           /\ k < Len(s) => SubSeq(s, 1, k + 1) = Append(SubSeq(s, 1, k), s[k + 1]) /\ s[k + 1] \in T
<1>1. PICK m \in Nat : m = Len(s) /\ \A i \in 1 .. m : s[i] \in T
    OBVIOUS
<1>2. k \in Nat /\ k <= m /\ \A i \in 1 .. k : i \in 1 .. m
    BY <1>1
<1>3. /\ SubSeq(s, 1, k) \in Seq(T)
      /\ Len(SubSeq(s, 1, k)) = k
      /\ \A i \in 1 .. k : SubSeq(s, 1, k)[i] = s[i]
    BY <1>1, <1>2, SubSeqProperties
<1>4. SubSeq(s, 1, 0) = <<>>
    BY SubSeqEmpty
<1>5. SubSeq(s, 1, Len(s)) = s
    BY SubSeqFull
<1>6. ToSet(SubSeq(s, 1, k)) \subseteq ToSet(s)
  <2>1. PICK u \in Seq(T) : u = SubSeq(s, 1, k) /\ Len(u) = k /\ \A i \in 1 .. k : u[i] = s[i]
      BY <1>3
  <2>2. ToSet(u) = {u[i] : i \in 1 .. k} /\ ToSet(s) = {s[i] : i \in 1 .. m}
    <3>1. DOMAIN u = 1 .. k /\ DOMAIN s = 1 .. m
        BY <1>1, <2>1
    <3> QED  BY <3>1 DEF ToSet
  <2>3. \A i \in 1 .. k : u[i] \in ToSet(s)
      BY <1>2, <2>1, <2>2
  <2> QED  BY <2>1, <2>2, <2>3
<1>7. ASSUME k < Len(s) PROVE SubSeq(s, 1, k + 1) = Append(SubSeq(s, 1, k), s[k + 1]) /\ s[k + 1] \in T
  <2>1. k + 1 \in 1 .. m /\ 1 \in 1 .. m /\ k + 1 \in 1 .. m
      BY <1>1, <1>2, <1>7
  <2>2. s[k + 1] \in T
      BY <1>1, <2>1
  <2>3. SubSeq(s, 1, k + 1) = SubSeq(s, 1, (k + 1) - 1) \o <<s[k + 1]>>
      BY <1>1, <2>1, SubSeqRecursiveSecond
  <2>4. (k + 1) - 1 = k
      BY <1>2
  <2>5. PICK u \in Seq(T), x \in T : u = SubSeq(s, 1, k) /\ x = s[k + 1]
      BY <1>3, <2>2
  <2>6. Append(u, x) = u \o <<x>>
      BY AppendIsConcat
  <2> QED  BY <2>2, <2>3, <2>4, <2>5, <2>6
<1> QED  BY <1>3, <1>4, <1>5, <1>6, <1>7

\* What is in the beginning of a sequence without repetitions is not the next element.
LEMMA NextIsNew ==
    ASSUME NEW T, NEW s \in Seq(T), IsInjective(s), NEW k \in 0 .. Len(s) - 1
    PROVE  s[k + 1] \notin ToSet(SubSeq(s, 1, k))
<1>1. PICK m \in Nat : m = Len(s) /\ DOMAIN s = 1 .. m
    OBVIOUS
<1>2. k \in 0 .. Len(s) /\ k \in Nat /\ k + 1 \in 1 .. m
    BY <1>1
<1>3. PICK u \in Seq(T) : u = SubSeq(s, 1, k) /\ Len(u) = k /\ \A i \in 1 .. k : u[i] = s[i]
    BY <1>2, Beginning, ZenonT(60)
<1>4. ToSet(u) = {u[i] : i \in 1 .. k}
  <2>1. DOMAIN u = 1 .. k
      BY <1>3
  <2> QED  BY <2>1 DEF ToSet
<1>5. \A i \in 1 .. k : s[i] # s[k + 1]
    BY <1>1, <1>2, SMTT(30) DEF IsInjective
<1> QED  BY <1>3, <1>4, <1>5

\* A sequence that is not empty, and another last element for it.
Before(s, u, T) ==
    /\ s = Append(u, Last(s)) /\ Last(s) \in T
    /\ Len(u) = Len(s) - 1
    /\ \A x \in T : ReplaceAt(s, Len(s), x) = Append(u, x)

LEMMA LastReplaced ==
    ASSUME NEW T, NEW s \in Seq(T), s # <<>> PROVE \E u \in Seq(T) : Before(s, u, T)
<1>1. PICK u \in Seq(T), e \in T : s = Append(u, e)
    BY SequenceEmptyOrAppend
<1>2. PICK k \in Nat : k = Len(u)
    OBVIOUS
<1>3. Len(s) = k + 1 /\ s[k + 1] = e /\ (\A i \in 1 .. k : s[i] = u[i]) /\ k + 1 \in 1 .. Len(s)
    BY <1>1, <1>2, AppendProperties
<1>4. Last(s) = e
    BY <1>3 DEF Last
<1>5. ASSUME NEW x \in T PROVE ReplaceAt(s, Len(s), x) = Append(u, x)
  <2>1. PICK w : w = [s EXCEPT ![k + 1] = x]
      OBVIOUS
  <2>2. w \in Seq(T) /\ Len(w) = k + 1 /\ \A j \in 1 .. k + 1 : w[j] = IF j = k + 1 THEN x ELSE s[j]
      BY <1>3, <2>1, ExceptSeq
  <2>3. PICK v : v = Append(u, x)
      OBVIOUS
  <2>4. v \in Seq(T) /\ Len(v) = k + 1 /\ v[k + 1] = x /\ \A i \in 1 .. k : v[i] = u[i]
      BY <1>2, <2>3, AppendProperties
  <2>5. \A j \in 1 .. k + 1 : w[j] = v[j]
      BY <1>3, <2>2, <2>4, SMTT(30)
  <2>6. w = v
      BY <2>2, <2>4, <2>5, SeqEqual
  <2>7. ReplaceAt(s, Len(s), x) = w
      BY <1>3, <2>1 DEF ReplaceAt
  <2> QED  BY <2>3, <2>6, <2>7
<1>6. Before(s, u, T)
    BY <1>1, <1>2, <1>3, <1>4, <1>5 DEF Before
<1> QED  BY <1>6

-----------------------------------------------------------------------------
(* Filtered, Without, TextsOf and TokensOf, element by element *)

Filters == INSTANCE FoldLaws WITH Op <- KeepIn

LEMMA FilteredFolds ==
    ASSUME NEW s, NEW S PROVE Filtered(s, S) = Filters!Fold(S, <<>>, s)
BY Zenon DEF Filtered, Filters!Fold, FoldLeft, MapThenFoldSet, Max, Filters!Greatest

LEMMA FilteredNothing ==
    ASSUME NEW S PROVE Filtered(<<>>, S) = <<>>
BY FilteredFolds, Filters!FoldOfNothing

LEMMA FilteredMore ==
    ASSUME NEW T, NEW S, NEW s \in Seq(T), NEW x \in T
    PROVE  Filtered(Append(s, x), S) = IF x \in S THEN Append(Filtered(s, S), x) ELSE Filtered(s, S)
<1>1. Filters!Fold(S, <<>>, Append(s, x)) = KeepIn(S, Filters!Fold(S, <<>>, s), x)
    BY Filters!FoldOfAppend
<1> QED  BY <1>1, FilteredFolds DEF KeepIn

\* Filtered keeps the elements that are in S, and each of them once if s had it once.
LEMMA FilteredIn ==
    ASSUME NEW T, NEW S
    PROVE  \A s \in Seq(T) : /\ Filtered(s, S) \in Seq(T)
                             /\ ToSet(Filtered(s, S)) = ToSet(s) \cap S
                             /\ IsInjective(s) => IsInjective(Filtered(s, S))
<1> DEFINE A == {s \in Seq(T) : /\ Filtered(s, S) \in Seq(T)
                                /\ ToSet(Filtered(s, S)) = ToSet(s) \cap S
                                /\ IsInjective(s) => IsInjective(Filtered(s, S))}
<1>1. <<>> \in A
    BY FilteredNothing, NoElements
<1>2. ASSUME NEW s \in Seq(T), NEW x \in T, s \in A PROVE Append(s, x) \in A
  <2>1. PICK q \in Seq(T) : q = Filtered(s, S) /\ ToSet(q) = ToSet(s) \cap S /\ (IsInjective(s) => IsInjective(q))
      BY <1>2
  <2>2. PICK w \in Seq(T) : w = Append(s, x) /\ ToSet(w) = ToSet(s) \cup {x}
      BY OneMore, ZenonT(60)
  <2>3. Filtered(w, S) = IF x \in S THEN Append(q, x) ELSE q
      BY <2>1, <2>2, FilteredMore
  <2>4. PICK v \in Seq(T) : v = Append(q, x) /\ ToSet(v) = ToSet(q) \cup {x} /\ (IsInjective(q) /\ x \notin ToSet(q) => IsInjective(v))
      BY OneMore
  <2>5. IsInjective(w) => IsInjective(s) /\ x \notin ToSet(s)
    <3>1. PICK one \in Seq(T) : one = <<x>> /\ ToSet(one) = {x}
        BY Single
    <3>2. w = s \o one
        BY <2>2, <3>1, AppendIsConcat
    <3>3. IsInjective(s \o one) => IsInjective(s) /\ ToSet(s) \cap ToSet(one) = {}
        BY <3>1, JoinedSets
    <3> QED  BY <3>1, <3>2, <3>3
  <2>6. CASE x \in S
    <3>1. ToSet(v) = ToSet(w) \cap S
        BY <2>1, <2>2, <2>4, <2>6
    <3>2. IsInjective(w) => IsInjective(v)
        BY <2>1, <2>4, <2>5
    <3> QED  BY <2>2, <2>3, <2>4, <2>6, <3>1, <3>2
  <2>7. CASE x \notin S
    <3>1. ToSet(q) = ToSet(w) \cap S
        BY <2>1, <2>2, <2>7
    <3> QED  BY <2>1, <2>2, <2>3, <2>5, <2>7, <3>1
  <2> QED  BY <2>6, <2>7
<1>3. \A s \in Seq(T) : s \in A
  <2> HIDE DEF A
  <2> QED  BY <1>1, <1>2, Filters!SeqsOfSet
<1> QED  BY <1>3

LEMMA FilteredJoined ==
    ASSUME NEW T, NEW S, NEW s \in Seq(T)
    PROVE  \A t \in Seq(T) : Filtered(s \o t, S) = Filtered(s, S) \o Filtered(t, S)
<1> DEFINE A == {t \in Seq(T) : Filtered(s \o t, S) = Filtered(s, S) \o Filtered(t, S)}
<1>0. PICK f \in Seq(T) : f = Filtered(s, S)
    BY FilteredIn
<1>1. <<>> \in A
  <2>1. s \o <<>> = s /\ f \o <<>> = f
      BY JoinNothing
  <2> QED  BY <1>0, <2>1, FilteredNothing, EmptySeq
<1>2. ASSUME NEW t \in Seq(T), NEW x \in T, t \in A PROVE Append(t, x) \in A
  <2>1. PICK g \in Seq(T) : g = Filtered(t, S)
      BY FilteredIn
  <2>2. PICK u \in Seq(T) : u = s \o t
      BY ConcatProperties
  <2>3. Filtered(u, S) = f \o g
      BY <1>0, <1>2, <2>1, <2>2
  <2>4. s \o Append(t, x) = Append(u, x) /\ f \o Append(g, x) = Append(f \o g, x)
      BY <2>2, JoinAppend, SMTT(30)
  <2>5. Filtered(Append(u, x), S) = IF x \in S THEN Append(Filtered(u, S), x) ELSE Filtered(u, S)
      BY FilteredMore
  <2>7. Filtered(Append(t, x), S) = IF x \in S THEN Append(g, x) ELSE g
      BY <2>1, FilteredMore
  <2>6. Append(t, x) \in Seq(T)
      BY AppendProperties
  <2> QED  BY <1>0, <2>1, <2>3, <2>4, <2>5, <2>6, <2>7
<1>3. \A t \in Seq(T) : t \in A
  <2> HIDE DEF A
  <2> QED  BY <1>1, <1>2, Filters!SeqsOfSet
<1> QED  BY <1>3

\* What Filtered keeps depends on the elements of s alone.
LEMMA FilteredSame ==
    ASSUME NEW T, NEW S, NEW R
    PROVE  \A s \in Seq(T) : ToSet(s) \cap S = ToSet(s) \cap R => Filtered(s, S) = Filtered(s, R)
<1> DEFINE A == {s \in Seq(T) : ToSet(s) \cap S = ToSet(s) \cap R => Filtered(s, S) = Filtered(s, R)}
<1>1. <<>> \in A
    BY FilteredNothing, EmptySeq
<1>2. ASSUME NEW s \in Seq(T), NEW x \in T, s \in A PROVE Append(s, x) \in A
  <2>1. PICK w \in Seq(T) : w = Append(s, x) /\ ToSet(w) = ToSet(s) \cup {x}
      BY OneMore, ZenonT(60)
  <2>2. ToSet(w) \cap S = ToSet(w) \cap R => ToSet(s) \cap S = ToSet(s) \cap R /\ (x \in S <=> x \in R)
      BY <2>1
  <2>3. /\ Filtered(w, S) = IF x \in S THEN Append(Filtered(s, S), x) ELSE Filtered(s, S)
        /\ Filtered(w, R) = IF x \in R THEN Append(Filtered(s, R), x) ELSE Filtered(s, R)
      BY <2>1, FilteredMore
  <2> QED  BY <1>2, <2>1, <2>2, <2>3
<1>3. \A s \in Seq(T) : s \in A
  <2> HIDE DEF A
  <2> QED  BY <1>1, <1>2, Filters!SeqsOfSet
<1> QED  BY <1>3

LEMMA FilteredAll ==
    ASSUME NEW T, NEW S
    PROVE  \A s \in Seq(T) : /\ ToSet(s) \subseteq S => Filtered(s, S) = s
                             /\ ToSet(s) \cap S = {} => Filtered(s, S) = <<>>
<1> DEFINE A == {s \in Seq(T) : /\ ToSet(s) \subseteq S => Filtered(s, S) = s
                                /\ ToSet(s) \cap S = {} => Filtered(s, S) = <<>>}
<1>1. <<>> \in A
    BY FilteredNothing, EmptySeq
<1>2. ASSUME NEW s \in Seq(T), NEW x \in T, s \in A PROVE Append(s, x) \in A
  <2>1. PICK w \in Seq(T) : w = Append(s, x) /\ ToSet(w) = ToSet(s) \cup {x}
      BY OneMore
  <2>2. Filtered(w, S) = IF x \in S THEN Append(Filtered(s, S), x) ELSE Filtered(s, S)
      BY <2>1, FilteredMore
  <2>3. ToSet(w) \subseteq S => Filtered(w, S) = w
      BY <1>2, <2>1, <2>2
  <2>4. ToSet(w) \cap S = {} => Filtered(w, S) = <<>>
      BY <1>2, <2>1, <2>2
  <2> QED  BY <2>1, <2>3, <2>4
<1>3. \A s \in Seq(T) : s \in A
  <2> HIDE DEF A
  <2> QED  BY <1>1, <1>2, Filters!SeqsOfSet
<1> QED  BY <1>3

LEMMA FilteredTwice ==
    ASSUME NEW T, NEW S, NEW R
    PROVE  \A s \in Seq(T) : Filtered(Filtered(s, S), R) = Filtered(s, S \cap R)
<1> DEFINE A == {s \in Seq(T) : Filtered(Filtered(s, S), R) = Filtered(s, S \cap R)}
<1>1. <<>> \in A
    BY FilteredNothing, EmptySeq
<1>2. ASSUME NEW s \in Seq(T), NEW x \in T, s \in A PROVE Append(s, x) \in A
  <2>1. PICK f \in Seq(T) : f = Filtered(s, S)
      BY FilteredIn
  <2>2. PICK w \in Seq(T) : w = Append(s, x)
      BY AppendProperties
  <2>3. Filtered(w, S) = IF x \in S THEN Append(f, x) ELSE f
      BY <2>1, <2>2, FilteredMore
  <2>4. Filtered(w, S \cap R) = IF x \in S \cap R THEN Append(Filtered(s, S \cap R), x) ELSE Filtered(s, S \cap R)
      BY <2>2, FilteredMore
  <2>5. Filtered(Append(f, x), R) = IF x \in R THEN Append(Filtered(f, R), x) ELSE Filtered(f, R)
      BY FilteredMore
  <2>6. x \in S \cap R <=> x \in S /\ x \in R
      OBVIOUS
  <2> QED  BY <1>2, <2>1, <2>2, <2>3, <2>4, <2>5, <2>6
<1>3. \A s \in Seq(T) : s \in A
  <2> HIDE DEF A
  <2> QED  BY <1>1, <1>2, Filters!SeqsOfSet
<1> QED  BY <1>3

\* Without is Filtered, as far as the elements of the sequence are concerned.
LEMMA WithoutIn ==
    ASSUME NEW T, NEW S, NEW s \in Seq(T)
    PROVE  /\ Without(s, S) \in Seq(T)
           /\ ToSet(Without(s, S)) = ToSet(s) \ S
           /\ ToSet(s) \cap S = {} => Without(s, S) = s
           /\ ToSet(s) \subseteq S => Without(s, S) = <<>>
<1>1. PICK R : R = ToSet(s) \ S
    OBVIOUS
<1>2. Without(s, S) = Filtered(s, R)
    BY <1>1 DEF Without
<1>3. Filtered(s, R) \in Seq(T) /\ ToSet(Filtered(s, R)) = ToSet(s) \cap R
    BY FilteredIn
<1>4. /\ ToSet(s) \subseteq R => Filtered(s, R) = s
      /\ ToSet(s) \cap R = {} => Filtered(s, R) = <<>>
    BY FilteredAll
<1> QED  BY <1>1, <1>2, <1>3, <1>4

LEMMA WithoutJoined ==
    ASSUME NEW T, NEW S, NEW s \in Seq(T), NEW t \in Seq(T)
    PROVE  Without(s \o t, S) = Without(s, S) \o Without(t, S)
<1>1. PICK w \in Seq(T) : w = s \o t /\ ToSet(w) = ToSet(s) \cup ToSet(t)
    BY JoinedSets
<1>2. PICK R : R = ToSet(w) \ S
    OBVIOUS
<1>3. Filtered(w, R) = Filtered(s, R) \o Filtered(t, R)
    BY <1>1, FilteredJoined
<1>4. Filtered(s, R) = Filtered(s, ToSet(s) \ S)
  <2>1. ToSet(s) \cap R = ToSet(s) \cap (ToSet(s) \ S)
      BY <1>1, <1>2
  <2> QED  BY <2>1, FilteredSame
<1>5. Filtered(t, R) = Filtered(t, ToSet(t) \ S)
  <2>1. ToSet(t) \cap R = ToSet(t) \cap (ToSet(t) \ S)
      BY <1>1, <1>2
  <2> QED  BY <2>1, FilteredSame
<1> QED  BY <1>1, <1>2, <1>3, <1>4, <1>5 DEF Without

-----------------------------------------------------------------------------
(* The texts of things *)

Joining(none, all, x) == all \o x.text
Joins == INSTANCE FoldLaws WITH Op <- Joining

LEMMA TextsFold ==
    ASSUME NEW things PROVE TextsOf(things) = Joins!Fold({}, <<>>, things)
BY Zenon DEF TextsOf, Joining, Joins!Fold, FoldLeft, MapThenFoldSet, Max, Joins!Greatest

LEMMA NoTexts == TextsOf(<<>>) = <<>>
BY TextsFold, Joins!FoldOfNothing

LEMMA TextsMore ==
    ASSUME NEW T, NEW s \in Seq(T), NEW x \in T
    PROVE  TextsOf(Append(s, x)) = TextsOf(s) \o x.text
<1>1. Joins!Fold({}, <<>>, Append(s, x)) = Joining({}, Joins!Fold({}, <<>>, s), x)
    BY Joins!FoldOfAppend
<1> QED  BY <1>1, TextsFold DEF Joining

\* All the elements of the texts, and no others.
LEMMA TextsIn ==
    ASSUME NEW W, NEW T, \A x \in T : x.text \in Seq(W)
    PROVE  \A s \in Seq(T) : /\ TextsOf(s) \in Seq(W)
                             /\ \A e : e \in ToSet(TextsOf(s)) <=> \E x \in ToSet(s) : e \in ToSet(x.text)
<1> DEFINE A == {s \in Seq(T) : /\ TextsOf(s) \in Seq(W)
                                /\ \A e : e \in ToSet(TextsOf(s)) <=> \E x \in ToSet(s) : e \in ToSet(x.text)}
<1>1. <<>> \in A
    BY NoTexts, NoElements
<1>2. ASSUME NEW s \in Seq(T), NEW x \in T, s \in A PROVE Append(s, x) \in A
  <2>1. PICK w \in Seq(T) : w = Append(s, x) /\ ToSet(w) = ToSet(s) \cup {x}
      BY OneMore, ZenonT(60)
  <2>2. PICK q \in Seq(W) : q = TextsOf(s)
      BY <1>2
  <2>3. PICK t \in Seq(W) : t = x.text
      OBVIOUS
  <2>4. TextsOf(w) = q \o t
      BY <2>1, <2>2, <2>3, TextsMore
  <2>5. q \o t \in Seq(W) /\ ToSet(q \o t) = ToSet(q) \cup ToSet(t)
      BY JoinedSets
  <2>6. ASSUME NEW e PROVE e \in ToSet(TextsOf(w)) <=> \E y \in ToSet(w) : e \in ToSet(y.text)
    <3>1. e \in ToSet(q) <=> \E y \in ToSet(s) : e \in ToSet(y.text)
        BY <1>2, <2>2
    <3> QED  BY <2>1, <2>3, <2>4, <2>5, <3>1
  <2> QED  BY <2>1, <2>4, <2>5, <2>6
<1>3. \A s \in Seq(T) : s \in A
  <2> HIDE DEF A
  <2> QED  BY <1>1, <1>2, Joins!SeqsOfSet
<1> QED  BY <1>3

LEMMA TextsJoined ==
    ASSUME NEW W, NEW T, \A x \in T : x.text \in Seq(W), NEW s \in Seq(T)
    PROVE  \A t \in Seq(T) : TextsOf(s \o t) = TextsOf(s) \o TextsOf(t)
<1> DEFINE A == {t \in Seq(T) : TextsOf(s \o t) = TextsOf(s) \o TextsOf(t)}
<1>0. PICK f \in Seq(W) : f = TextsOf(s)
    BY TextsIn
<1>1. <<>> \in A
    BY <1>0, JoinNothing, NoTexts, EmptySeq
<1>2. ASSUME NEW t \in Seq(T), NEW x \in T, t \in A PROVE Append(t, x) \in A
  <2>1. PICK g \in Seq(W) : g = TextsOf(t)
      BY TextsIn
  <2>2. PICK u \in Seq(T) : u = s \o t
      BY ConcatProperties
  <2>3. s \o Append(t, x) = Append(u, x)
      BY <2>2, JoinAppend
  <2>4. TextsOf(Append(u, x)) = TextsOf(u) \o x.text
      BY TextsMore
  <2>5. TextsOf(Append(t, x)) = g \o x.text
      BY <2>1, TextsMore
  <2>6. PICK e \in Seq(W) : e = x.text
      OBVIOUS
  <2>7. (f \o g) \o e = f \o (g \o e)
      BY ConcatAssociative, SMTT(30)
  <2>8. Append(t, x) \in Seq(T)
      BY AppendProperties
  <2> QED  BY <1>0, <1>2, <2>1, <2>2, <2>3, <2>4, <2>5, <2>6, <2>7, <2>8
<1>3. \A t \in Seq(T) : t \in A
  <2> HIDE DEF A
  <2> QED  BY <1>1, <1>2, Joins!SeqsOfSet
<1> QED  BY <1>3

-----------------------------------------------------------------------------
(* Counting tokens *)

Word == Nat \X Nat
Text == Seq(Word)

Adding(none, sum, s) == sum + s[2]
Sums == INSTANCE FoldLaws WITH Op <- Adding

LEMMA TokensFold ==
    ASSUME NEW aText PROVE TokensOf(aText) = Sums!Fold({}, 0, aText)
BY Zenon DEF TokensOf, Adding, Sums!Fold, FoldLeft, MapThenFoldSet, Max, Sums!Greatest

LEMMA NoTokens == TokensOf(<<>>) = 0
BY TokensFold, Sums!FoldOfNothing

LEMMA TokensMore ==
    ASSUME NEW s \in Text, NEW x \in Word
    PROVE  TokensOf(Append(s, x)) = TokensOf(s) + x[2]
<1>1. Sums!Fold({}, 0, Append(s, x)) = Adding({}, Sums!Fold({}, 0, s), x)
    BY Sums!FoldOfAppend DEF Text
<1> QED  BY <1>1, TokensFold DEF Adding

LEMMA TokensIn == \A s \in Text : TokensOf(s) \in Nat
<1> DEFINE A == {s \in Text : TokensOf(s) \in Nat}
<1>1. <<>> \in A
    BY NoTokens, EmptySeq DEF Text
<1>2. ASSUME NEW s \in Seq(Word), NEW x \in Word, s \in A PROVE Append(s, x) \in A
  <2>1. TokensOf(Append(s, x)) = TokensOf(s) + x[2] /\ x[2] \in Nat
      BY TokensMore DEF Text, Word
  <2>2. Append(s, x) \in Text
      BY AppendProperties DEF Text
  <2> QED  BY <1>2, <2>1, <2>2
<1>3. \A s \in Seq(Word) : s \in A
  <2> HIDE DEF A
  <2> QED  BY <1>1, <1>2, Sums!SeqsOfSet
<1> QED  BY <1>3 DEF Text

LEMMA TokensJoined ==
    ASSUME NEW s \in Text
    PROVE  \A t \in Text : TokensOf(s \o t) = TokensOf(s) + TokensOf(t)
<1> DEFINE A == {t \in Text : TokensOf(s \o t) = TokensOf(s) + TokensOf(t)}
<1>0. PICK k \in Nat : k = TokensOf(s)
    BY TokensIn
<1>1. <<>> \in A
  <2>1. s \o <<>> = s /\ <<>> \in Text
      BY JoinNothing, EmptySeq DEF Text
  <2> QED  BY <1>0, <2>1, NoTokens
<1>2. ASSUME NEW t \in Seq(Word), NEW x \in Word, t \in A PROVE Append(t, x) \in A
  <2>1. PICK m \in Nat, d \in Nat : m = TokensOf(t) /\ d = x[2]
      BY <1>2, TokensIn DEF Word
  <2>2. PICK u \in Text : u = s \o t /\ TokensOf(u) = k + m
      BY <1>0, <1>2, <2>1, ConcatProperties DEF Text
  <2>3. s \o Append(t, x) = Append(u, x) /\ Append(t, x) \in Text
      BY <2>2, JoinAppend, AppendProperties DEF Text
  <2>4. TokensOf(Append(u, x)) = k + m + d
      BY <2>1, <2>2, TokensMore
  <2>5. TokensOf(Append(t, x)) = m + d
      BY <1>2, <2>1, TokensMore
  <2>6. TokensOf(s \o Append(t, x)) = TokensOf(s) + TokensOf(Append(t, x))
      BY <1>0, <2>3, <2>4, <2>5
  <2> QED  BY <2>3, <2>6
<1>3. \A t \in Seq(Word) : t \in A
  <2> HIDE DEF A
  <2> QED  BY <1>1, <1>2, Sums!SeqsOfSet
<1> QED  BY <1>3 DEF Text
\* The same, for texts.
LEMMA TextJoins ==
    /\ <<>> \in Text /\ ToSet(<<>>) = {}
    /\ \A s, t \in Text : /\ s \o t \in Text /\ ToSet(s \o t) = ToSet(s) \cup ToSet(t)
                          /\ s \o <<>> = s /\ <<>> \o s = s
                          /\ IsInjective(s \o t) =>
                                IsInjective(s) /\ IsInjective(t) /\ ToSet(s) \cap ToSet(t) = {}
    /\ \A s, t, u \in Text : (s \o t) \o u = s \o (t \o u)
<1>1. <<>> \in Text /\ ToSet(<<>>) = {}
    BY NoElements DEF Text
<1>2. ASSUME NEW s \in Text, NEW t \in Text
      PROVE  /\ s \o t \in Text /\ ToSet(s \o t) = ToSet(s) \cup ToSet(t)
             /\ IsInjective(s \o t) =>
                   IsInjective(s) /\ IsInjective(t) /\ ToSet(s) \cap ToSet(t) = {}
    BY JoinedSets DEF Text
<1>3. ASSUME NEW s \in Text PROVE s \o <<>> = s /\ <<>> \o s = s
    BY JoinNothing DEF Text
<1>4. ASSUME NEW s \in Text, NEW t \in Text, NEW u \in Text PROVE (s \o t) \o u = s \o (t \o u)
    BY ConcatAssociative, SMTT(30) DEF Text
<1> QED  BY <1>1, <1>2, <1>3, <1>4

LEMMA TextWithout ==
    ASSUME NEW S
    PROVE  \A s, t \in Text :
               /\ Without(s, S) \in Text
               /\ ToSet(Without(s, S)) = ToSet(s) \ S
               /\ ToSet(s) \cap S = {} => Without(s, S) = s
               /\ ToSet(s) \subseteq S => Without(s, S) = <<>>
               /\ Without(s \o t, S) = Without(s, S) \o Without(t, S)
<1>1. ASSUME NEW s \in Text
      PROVE  /\ Without(s, S) \in Text
             /\ ToSet(Without(s, S)) = ToSet(s) \ S
             /\ ToSet(s) \cap S = {} => Without(s, S) = s
             /\ ToSet(s) \subseteq S => Without(s, S) = <<>>
    BY WithoutIn DEF Text
<1>2. ASSUME NEW s \in Text, NEW t \in Text
      PROVE  Without(s \o t, S) = Without(s, S) \o Without(t, S)
    BY WithoutJoined DEF Text
<1> QED  BY <1>1, <1>2

LEMMA TextAssociative ==
    ASSUME NEW s \in Text, NEW t \in Text, NEW u \in Text
    PROVE  (s \o t) \o u = s \o (t \o u)
BY TextJoins, SMTT(30)

Paragraph == [text : Text, page : Nat, body : BOOLEAN]
Section == [heading : Text, level : Nat, path : Seq(Text), first : Nat, last : Nat,
            paragraphs : Seq(Paragraph)]

LEMMA ParagraphTexts ==
    ASSUME NEW P, \A p \in P : p \in Paragraph
    PROVE  \A s \in Seq(P) : TextsOf(s) \in Text
<1>1. \A p \in P : p.text \in Seq(Word)
    BY DEF Paragraph, Text
<1> QED  BY <1>1, TextsIn DEF Text

-----------------------------------------------------------------------------
(* A paragraph in pieces *)

\* A piece fits, or is a single sentence.
Piece == {q \in Paragraph : TokensOf(q.text) <= ParentMax \/ Len(q.text) = 1}

Cuts == INSTANCE FoldLaws WITH Op <- WithSentence

LEMMA PiecesFold ==
    ASSUME NEW p
    PROVE  Pieces(p) = IF TokensOf(p.text) <= ParentMax THEN <<p>> ELSE Cuts!Fold(p, <<>>, p.text)
BY Zenon DEF Pieces, Cuts!Fold, FoldLeft, MapThenFoldSet, Max, Cuts!Greatest

LEMMA CutInPieces ==
    ASSUME NEW p \in Paragraph
    PROVE  \A t \in Text : Cuts!Fold(p, <<>>, t) \in Seq(Piece) /\ TextsOf(Cuts!Fold(p, <<>>, t)) = t
<1> DEFINE A == {t \in Text : Cuts!Fold(p, <<>>, t) \in Seq(Piece) /\ TextsOf(Cuts!Fold(p, <<>>, t)) = t}
<1>0. \A q \in Piece : q \in Paragraph /\ q.text \in Text
    BY DEF Piece, Paragraph
<1>1. <<>> \in A
  <2>1. Cuts!Fold(p, <<>>, <<>>) = <<>>
      BY Cuts!FoldOfNothing
  <2> QED  BY <2>1, NoTexts, EmptySeq DEF Text
<1>2. ASSUME NEW t \in Seq(Word), NEW x \in Word, t \in A PROVE Append(t, x) \in A
  <2>1. PICK q \in Seq(Piece) : q = Cuts!Fold(p, <<>>, t) /\ TextsOf(q) = t
      BY <1>2
  <2>2. Cuts!Fold(p, <<>>, Append(t, x)) = WithSentence(p, q, x)
    <3>1. Cuts!Fold(p, <<>>, Append(t, x)) = WithSentence(p, Cuts!Fold(p, <<>>, t), x)
        BY Cuts!FoldOfAppend
    <3> QED  BY <2>1, <3>1
  <2>3. Append(t, x) \in Text
      BY AppendProperties DEF Text
  <2>4. CASE q # <<>> /\ HasRoom(TokensOf(Last(q).text), x[2])
    <3>0. PICK u \in Seq(Piece) : Before(q, u, Piece)
        BY <2>4, LastReplaced
    <3>1. PICK e \in Piece : e = Last(q)
        BY <3>0 DEF Before
    <3>2. PICK longer : longer = [p EXCEPT !.text = Append(e.text, x)]
        OBVIOUS
    <3>3. e.text \in Text /\ Append(e.text, x) \in Text
        BY <1>0, AppendProperties DEF Text
    <3>4. longer \in Paragraph /\ longer.text = Append(e.text, x)
        BY <3>2, <3>3 DEF Paragraph
    <3>5. TokensOf(Append(e.text, x)) = TokensOf(e.text) + x[2]
        BY <3>3, TokensMore
    <3>6. longer \in Piece
        BY <2>4, <3>1, <3>4, <3>5 DEF Piece, HasRoom
    <3>7. q = Append(u, e) /\ ReplaceAt(q, Len(q), longer) = Append(u, longer)
        BY <3>0, <3>1, <3>6 DEF Before
    <3>8. PICK r \in Text : r = TextsOf(u)
        BY <1>0, ParagraphTexts
    <3>9. TextsOf(q) = r \o e.text
        BY <3>1, <3>7, <3>8, TextsMore
    <3>10. TextsOf(Append(u, longer)) = r \o longer.text
        BY <3>6, <3>8, TextsMore
    <3>11. r \o Append(e.text, x) = Append(r \o e.text, x)
        BY <3>3, JoinAppend, SMTT(30) DEF Text
    <3>12. WithSentence(p, q, x) = Append(u, longer)
        BY <2>4, <3>1, <3>2, <3>7 DEF WithSentence
    <3>13. Append(u, longer) \in Seq(Piece)
        BY <3>6, AppendProperties
    <3> QED  BY <2>1, <2>2, <2>3, <3>4, <3>9, <3>10, <3>11, <3>12, <3>13
  <2>5. CASE ~(q # <<>> /\ HasRoom(TokensOf(Last(q).text), x[2]))
    <3>1. PICK one \in Text : one = <<x>> /\ Len(one) = 1
        BY Single DEF Text
    <3>2. PICK fresh : fresh = [p EXCEPT !.text = one]
        OBVIOUS
    <3>3. fresh \in Piece /\ fresh.text = one
        BY <3>1, <3>2 DEF Piece, Paragraph
    <3>4. WithSentence(p, q, x) = Append(q, fresh)
        BY <2>5, <3>1, <3>2 DEF WithSentence
    <3>5. TextsOf(Append(q, fresh)) = t \o one
        BY <2>1, <3>3, TextsMore
    <3>6. t \o one = Append(t, x)
        BY <3>1, AppendIsConcat
    <3>7. Append(q, fresh) \in Seq(Piece)
        BY <3>3, AppendProperties
    <3> QED  BY <2>2, <2>3, <3>4, <3>5, <3>6, <3>7
  <2> QED  BY <2>4, <2>5
<1>3. \A t \in Seq(Word) : t \in A
  <2> HIDE DEF A
  <2> QED  BY <1>1, <1>2, Cuts!SeqsOfSet
<1> QED  BY <1>3 DEF Text

\* The pieces of a paragraph are pieces, and its text.
LEMMA PiecesIn ==
    ASSUME NEW p \in Paragraph
    PROVE  Pieces(p) \in Seq(Piece) /\ TextsOf(Pieces(p)) = p.text
<1>1. p.text \in Text
    BY DEF Paragraph
<1>2. CASE TokensOf(p.text) <= ParentMax
  <2>1. Pieces(p) = <<p>>
      BY <1>2, PiecesFold
  <2>2. p \in Piece
      BY <1>2 DEF Piece
  <2>3. PICK none \in Seq(Piece) : none = <<>>
      BY EmptySeq
  <2>4. <<p>> = Append(none, p) /\ <<p>> \in Seq(Piece)
      BY <2>2, <2>3, Single
  <2>5. TextsOf(Append(none, p)) = TextsOf(none) \o p.text
      BY <2>2, TextsMore
  <2>6. <<>> \o p.text = p.text
      BY <1>1, JoinNothing DEF Text
  <2> QED  BY <2>1, <2>3, <2>4, <2>5, <2>6, NoTexts
<1>3. CASE ~(TokensOf(p.text) <= ParentMax)
    BY <1>1, <1>3, PiecesFold, CutInPieces
<1> QED  BY <1>2, <1>3

PiecesMore(none, all, p) == all \o Pieces(p)
Spans == INSTANCE FoldLaws WITH Op <- PiecesMore

LEMMA AllPiecesFold ==
    ASSUME NEW ps PROVE AllPieces(ps) = Spans!Fold({}, <<>>, ps)
BY Zenon DEF AllPieces, PiecesMore, Spans!Fold, FoldLeft, MapThenFoldSet, Max, Spans!Greatest

LEMMA AllPiecesIn ==
    \A ps \in Seq(Paragraph) : AllPieces(ps) \in Seq(Piece) /\ TextsOf(AllPieces(ps)) = TextsOf(ps)
<1> DEFINE A == {ps \in Seq(Paragraph) : AllPieces(ps) \in Seq(Piece) /\ TextsOf(AllPieces(ps)) = TextsOf(ps)}
<1>0. \A q \in Piece : q \in Paragraph /\ q.text \in Seq(Word)
    BY DEF Piece, Paragraph, Text
<1>1. <<>> \in A
  <2>1. AllPieces(<<>>) = <<>>
      BY AllPiecesFold, Spans!FoldOfNothing
  <2> QED  BY <2>1, EmptySeq
<1>2. ASSUME NEW s \in Seq(Paragraph), NEW p \in Paragraph, s \in A PROVE Append(s, p) \in A
  <2>1. AllPieces(Append(s, p)) = AllPieces(s) \o Pieces(p)
    <3>1. Spans!Fold({}, <<>>, Append(s, p)) = PiecesMore({}, Spans!Fold({}, <<>>, s), p)
        BY Spans!FoldOfAppend
    <3> QED  BY <3>1, AllPiecesFold DEF PiecesMore
  <2>2. PICK u \in Seq(Piece), v \in Seq(Piece) :
            u = AllPieces(s) /\ v = Pieces(p) /\ TextsOf(u) = TextsOf(s) /\ TextsOf(v) = p.text
      BY <1>2, PiecesIn
  <2>3. TextsOf(u \o v) = TextsOf(u) \o TextsOf(v)
      BY <1>0, TextsJoined
  <2>4. TextsOf(Append(s, p)) = TextsOf(s) \o p.text
      BY TextsMore
  <2>5. u \o v \in Seq(Piece) /\ Append(s, p) \in Seq(Paragraph)
      BY ConcatProperties, AppendProperties
  <2> QED  BY <2>1, <2>2, <2>3, <2>4, <2>5
<1>3. \A s \in Seq(Paragraph) : s \in A
  <2> HIDE DEF A
  <2> QED  BY <1>1, <1>2, Spans!SeqsOfSet
<1> QED  BY <1>3

-----------------------------------------------------------------------------
(* A section in parts *)

\* A part fits, or is a single sentence.
Capped(r) == Size(r) > ParentMax => Len(TextsOf(r.paragraphs)) = 1

PartOf(s) == {r \in Section : r.heading = s.heading /\ Capped(r)}

ParagraphsMore(none, all, r) == all \o r.paragraphs
Bodies == INSTANCE FoldLaws WITH Op <- ParagraphsMore

\* The paragraphs of all of them.
ParagraphsOf(parts) == Bodies!Fold({}, <<>>, parts)

LEMMA ParagraphsOfMore ==
    ASSUME NEW T, NEW s \in Seq(T), NEW x \in T
    PROVE  ParagraphsOf(Append(s, x)) = ParagraphsOf(s) \o x.paragraphs
BY Bodies!FoldOfAppend DEF ParagraphsOf, ParagraphsMore

LEMMA NoParagraphs == ParagraphsOf(<<>>) = <<>>
BY Bodies!FoldOfNothing DEF ParagraphsOf

LEMMA ParagraphsOfIn ==
    ASSUME NEW T, \A r \in T : r.paragraphs \in Seq(Paragraph)
    PROVE  \A s \in Seq(T) : ParagraphsOf(s) \in Seq(Paragraph)
<1> DEFINE A == {s \in Seq(T) : ParagraphsOf(s) \in Seq(Paragraph)}
<1>1. <<>> \in A
    BY NoParagraphs, EmptySeq
<1>2. ASSUME NEW s \in Seq(T), NEW x \in T, s \in A PROVE Append(s, x) \in A
  <2>1. ParagraphsOf(Append(s, x)) = ParagraphsOf(s) \o x.paragraphs
      BY ParagraphsOfMore
  <2>2. ParagraphsOf(s) \in Seq(Paragraph) /\ x.paragraphs \in Seq(Paragraph)
      BY <1>2
  <2>3. ParagraphsOf(s) \o x.paragraphs \in Seq(Paragraph)
      BY <2>2, ConcatProperties
  <2>4. Append(s, x) \in Seq(T)
      BY AppendProperties
  <2> QED  BY <2>1, <2>3, <2>4
<1>3. \A s \in Seq(T) : s \in A
  <2> HIDE DEF A
  <2> QED  BY <1>1, <1>2, Bodies!SeqsOfSet
<1> QED  BY <1>3

LEMMA SizeFacts ==
    ASSUME NEW r \in Section
    PROVE  /\ r.paragraphs \in Seq(Paragraph) /\ r.heading \in Text
           /\ TextsOf(r.paragraphs) \in Text /\ Size(r) = TokensOf(TextsOf(r.paragraphs)) /\ Size(r) \in Nat
<1>1. r.paragraphs \in Seq(Paragraph) /\ r.heading \in Text
    BY DEF Section
<1>2. TextsOf(r.paragraphs) \in Text
    BY <1>1, ParagraphTexts
<1> QED  BY <1>1, <1>2, TokensIn DEF Size

Shares == INSTANCE FoldLaws WITH Op <- WithPiece

LEMMA PartsFold ==
    ASSUME NEW s
    PROVE  Parts(s) = IF Size(s) <= ParentMax THEN <<s>> ELSE Shares!Fold(s, <<>>, AllPieces(s.paragraphs))
BY Zenon DEF Parts, Shares!Fold, FoldLeft, MapThenFoldSet, Max, Shares!Greatest

\* The parts share the pieces out, each with the heading of the section.
LEMMA SharedOut ==
    ASSUME NEW s \in Section
    PROVE  \A q \in Seq(Piece) : /\ Shares!Fold(s, <<>>, q) \in Seq(PartOf(s))
                                 /\ ParagraphsOf(Shares!Fold(s, <<>>, q)) = q
<1> DEFINE A == {q \in Seq(Piece) : /\ Shares!Fold(s, <<>>, q) \in Seq(PartOf(s))
                                    /\ ParagraphsOf(Shares!Fold(s, <<>>, q)) = q}
<1>0. \A q \in Piece : q \in Paragraph /\ q.text \in Text /\ q.page \in Nat
    BY DEF Piece, Paragraph
<1>1. <<>> \in A
  <2>1. Shares!Fold(s, <<>>, <<>>) = <<>>
      BY Shares!FoldOfNothing
  <2> QED  BY <2>1, NoParagraphs, EmptySeq
<1>2. ASSUME NEW q \in Seq(Piece), NEW p \in Piece, q \in A PROVE Append(q, p) \in A
  <2>1. PICK parts \in Seq(PartOf(s)) : parts = Shares!Fold(s, <<>>, q) /\ ParagraphsOf(parts) = q
      BY <1>2
  <2>2. Shares!Fold(s, <<>>, Append(q, p)) = WithPiece(s, parts, p)
    <3>1. Shares!Fold(s, <<>>, Append(q, p)) = WithPiece(s, Shares!Fold(s, <<>>, q), p)
        BY Shares!FoldOfAppend
    <3> QED  BY <2>1, <3>1
  <2>3. Append(q, p) \in Seq(Piece) /\ p \in Paragraph /\ p.text \in Text /\ p.page \in Nat
      BY <1>0, AppendProperties
  <2>4. CASE parts # <<>> /\ HasRoom(Size(Last(parts)), TokensOf(p.text))
    <3>0. PICK u \in Seq(PartOf(s)) : Before(parts, u, PartOf(s))
        BY <2>4, LastReplaced
    <3>1. PICK e \in PartOf(s) : e = Last(parts)
        BY <3>0 DEF Before
    <3>2. PICK ps \in Seq(Paragraph) : ps = e.paragraphs
        BY DEF PartOf, Section
    <3>3. PICK longer : longer = [e EXCEPT !.paragraphs = Append(@, p), !.last = Larger(@, p.page)]
        OBVIOUS
    <3>4. Append(ps, p) \in Seq(Paragraph) /\ Larger(e.last, p.page) \in Nat
        BY <2>3, <3>2, AppendProperties DEF PartOf, Section, Larger
    <3>5. longer \in Section /\ longer.paragraphs = Append(ps, p) /\ longer.heading = s.heading
        BY <3>2, <3>3, <3>4 DEF PartOf, Section
    <3>6. Size(longer) = Size(e) + TokensOf(p.text)
      <4>1. TextsOf(Append(ps, p)) = TextsOf(ps) \o p.text
          BY <2>3, TextsMore
      <4>2. TextsOf(ps) \in Text
          BY ParagraphTexts
      <4>3. TokensOf(TextsOf(ps) \o p.text) = TokensOf(TextsOf(ps)) + TokensOf(p.text)
          BY <2>3, <4>2, TokensJoined
      <4> QED  BY <3>2, <3>5, <4>1, <4>3 DEF Size
    <3>7. Size(longer) <= ParentMax
        BY <2>4, <3>1, <3>6 DEF HasRoom
    <3>8. longer \in PartOf(s)
      <4>1. Size(longer) \in Nat /\ ParentMax \in Nat
          BY <3>5, SizeFacts, SectionAssumption
      <4> QED  BY <3>5, <3>7, <4>1 DEF PartOf, Capped
    <3>9. parts = Append(u, e) /\ ReplaceAt(parts, Len(parts), longer) = Append(u, longer)
        BY <3>0, <3>1, <3>8 DEF Before
    <3>10. PICK v \in Seq(Paragraph) : v = ParagraphsOf(u)
      <4>1. \A r \in PartOf(s) : r.paragraphs \in Seq(Paragraph)
          BY DEF PartOf, Section
      <4> QED  BY <4>1, ParagraphsOfIn
    <3>11. ParagraphsOf(parts) = v \o ps
        BY <3>1, <3>2, <3>9, <3>10, ParagraphsOfMore
    <3>12. ParagraphsOf(Append(u, longer)) = v \o Append(ps, p)
        BY <3>5, <3>8, <3>10, ParagraphsOfMore
    <3>13. v \o Append(ps, p) = Append(v \o ps, p)
        BY <2>3, JoinAppend, SMTT(30)
    <3>14. WithPiece(s, parts, p) = Append(u, longer)
        BY <2>4, <3>1, <3>3, <3>9 DEF WithPiece
    <3>15. Append(u, longer) \in Seq(PartOf(s))
        BY <3>8, AppendProperties
    <3> QED  BY <2>1, <2>2, <2>3, <3>11, <3>12, <3>13, <3>14, <3>15
  <2>5. CASE ~(parts # <<>> /\ HasRoom(Size(Last(parts)), TokensOf(p.text)))
    <3>1. PICK none \in Seq(Paragraph) : none = <<>>
        BY EmptySeq
    <3>2. PICK one \in Seq(Paragraph) : one = <<p>> /\ one = Append(none, p)
        BY <2>3, <3>1, Single
    <3>3. PICK fresh : fresh = [NewSection(s.heading, s.level, s.path, p.page, p.page)
                                   EXCEPT !.paragraphs = one]
        OBVIOUS
    <3>4. fresh \in Section /\ fresh.paragraphs = one /\ fresh.heading = s.heading
        BY <2>3, <3>3 DEF NewSection, Section
    <3>5. TextsOf(one) = p.text
      <4>1. TextsOf(Append(none, p)) = TextsOf(none) \o p.text
          BY <2>3, TextsMore
      <4>2. <<>> \o p.text = p.text
          BY <2>3, JoinNothing DEF Text
      <4> QED  BY <3>1, <3>2, <4>1, <4>2, NoTexts
    <3>6. fresh \in PartOf(s)
      <4>1. TokensOf(p.text) \in Nat /\ ParentMax \in Nat
          BY <2>3, TokensIn, SectionAssumption
      <4>2. TokensOf(p.text) > ParentMax => Len(p.text) = 1
          BY <4>1 DEF Piece
      <4> QED  BY <3>4, <3>5, <4>2 DEF PartOf, Capped, Size
    <3>7. WithPiece(s, parts, p) = Append(parts, fresh)
        BY <2>5, <3>2, <3>3 DEF WithPiece
    <3>8. ParagraphsOf(Append(parts, fresh)) = q \o one
        BY <2>1, <3>4, <3>6, ParagraphsOfMore
    <3>9. q \o one = Append(q, p)
        BY <3>2, AppendIsConcat
    <3>10. Append(parts, fresh) \in Seq(PartOf(s))
        BY <3>6, AppendProperties
    <3> QED  BY <2>2, <2>3, <3>7, <3>8, <3>9, <3>10
  <2> QED  BY <2>4, <2>5
<1>3. \A q \in Seq(Piece) : q \in A
  <2> HIDE DEF A
  <2> QED  BY <1>1, <1>2, Shares!SeqsOfSet
<1> QED  BY <1>3

\* What a section is divided into has its heading and its text.
LEMMA PartsIn ==
    ASSUME NEW s \in Section
    PROVE  /\ Parts(s) \in Seq(PartOf(s)) /\ Parts(s) # <<>>
           /\ TextsOf(ParagraphsOf(Parts(s))) = TextsOf(s.paragraphs)
<1>1. /\ s.paragraphs \in Seq(Paragraph) /\ Size(s) \in Nat /\ ParentMax \in Nat \ {0}
      /\ Size(s) = TokensOf(TextsOf(s.paragraphs))
    BY SizeFacts, SectionAssumption
<1>2. CASE Size(s) <= ParentMax
  <2>1. Parts(s) = <<s>>
      BY <1>2, PartsFold
  <2>2. s \in PartOf(s)
      BY <1>1, <1>2 DEF PartOf, Capped
  <2>3. PICK none \in Seq(PartOf(s)) : none = <<>>
      BY EmptySeq
  <2>4. <<s>> = Append(none, s) /\ <<s>> \in Seq(PartOf(s)) /\ Len(<<s>>) = 1
      BY <2>2, <2>3, Single
  <2>5. ParagraphsOf(Append(none, s)) = ParagraphsOf(none) \o s.paragraphs
      BY <2>2, ParagraphsOfMore
  <2>6. <<>> \o s.paragraphs = s.paragraphs
      BY <1>1, JoinNothing
  <2>7. ParagraphsOf(<<s>>) = s.paragraphs
      BY <2>3, <2>4, <2>5, <2>6, NoParagraphs
  <2>8. <<s>> # <<>>
      BY <2>4, EmptySeq
  <2> QED  BY <2>1, <2>4, <2>7, <2>8
<1>3. CASE ~(Size(s) <= ParentMax)
  <2>1. PICK q \in Seq(Piece) : q = AllPieces(s.paragraphs) /\ TextsOf(q) = TextsOf(s.paragraphs)
      BY <1>1, AllPiecesIn
  <2>2. Parts(s) = Shares!Fold(s, <<>>, q)
      BY <1>3, <2>1, PartsFold
  <2>3. Parts(s) \in Seq(PartOf(s)) /\ ParagraphsOf(Parts(s)) = q
      BY <2>2, SharedOut
  <2>4. Parts(s) # <<>>
    <3>1. SUFFICES ASSUME Parts(s) = <<>> PROVE FALSE
        OBVIOUS
    <3>2. q = <<>>
        BY <2>3, <3>1, NoParagraphs
    <3>3. Size(s) = 0
        BY <1>1, <2>1, <3>2, NoTexts, NoTokens
    <3> QED  BY <1>1, <1>3, <3>3
  <2> QED  BY <2>1, <2>3, <2>4
<1> QED  BY <1>2, <1>3

-----------------------------------------------------------------------------
(* What the sections tell *)

\* The heading of a section and its text; a document that is headings only has
\* them in both.
Told(s) == s.heading \o Without(TextsOf(s.paragraphs), ToSet(s.heading))

ToldMore(none, all, s) == all \o Told(s)
Stories == INSTANCE FoldLaws WITH Op <- ToldMore
Story(ss) == Stories!Fold({}, <<>>, ss)

\* The text of the section is none of its heading.
Plain(s) == ToSet(s.heading) \cap ToSet(TextsOf(s.paragraphs)) = {}

LEMMA StoryMore ==
    ASSUME NEW T, NEW s \in Seq(T), NEW x \in T
    PROVE  Story(Append(s, x)) = Story(s) \o Told(x)
BY Stories!FoldOfAppend DEF Story, ToldMore

LEMMA NoStory == Story(<<>>) = <<>>
BY Stories!FoldOfNothing DEF Story

\* The words of what a section tells are those of its heading and of its text.
LEMMA ToldIn ==
    ASSUME NEW s \in Section
    PROVE  /\ s.heading \in Text /\ TextsOf(s.paragraphs) \in Text /\ Told(s) \in Text
           /\ ToSet(Told(s)) = ToSet(s.heading) \cup ToSet(TextsOf(s.paragraphs))
           /\ Plain(s) => Told(s) = s.heading \o TextsOf(s.paragraphs)
<1>1. PICK h \in Text, t \in Text : h = s.heading /\ t = TextsOf(s.paragraphs)
    BY SizeFacts
<1>2. PICK w \in Text : /\ w = Without(t, ToSet(h)) /\ ToSet(w) = ToSet(t) \ ToSet(h)
                        /\ ToSet(t) \cap ToSet(h) = {} => w = t
    BY WithoutIn DEF Text
<1>3. h \o w \in Text /\ ToSet(h \o w) = ToSet(h) \cup ToSet(w)
    BY JoinedSets DEF Text
<1>4. Told(s) = h \o w
    BY <1>1, <1>2 DEF Told
<1>5. ToSet(h) \cup ToSet(w) = ToSet(h) \cup ToSet(t)
    BY <1>2
<1>6. Plain(s) => w = t
    BY <1>1, <1>2 DEF Plain
<1> QED  BY <1>1, <1>3, <1>4, <1>5, <1>6

LEMMA StoryIn == \A ss \in Seq(Section) : Story(ss) \in Text
<1> DEFINE A == {ss \in Seq(Section) : Story(ss) \in Text}
<1>1. <<>> \in A
    BY NoStory, EmptySeq DEF Text
<1>2. ASSUME NEW s \in Seq(Section), NEW x \in Section, s \in A PROVE Append(s, x) \in A
  <2>1. Story(Append(s, x)) = Story(s) \o Told(x)
      BY StoryMore
  <2>2. Story(s) \in Text /\ Told(x) \in Text
      BY <1>2, ToldIn
  <2>3. Story(s) \o Told(x) \in Text
      BY <2>2, ConcatProperties DEF Text
  <2>4. Append(s, x) \in Seq(Section)
      BY AppendProperties
  <2> QED  BY <2>1, <2>3, <2>4
<1>3. \A s \in Seq(Section) : s \in A
  <2> HIDE DEF A
  <2> QED  BY <1>1, <1>2, Stories!SeqsOfSet
<1> QED  BY <1>3

\* More text that is none of the heading is told at the end.
LEMMA TellMore ==
    ASSUME NEW s \in Section, NEW r \in Section, r.heading = s.heading,
           NEW ps \in Seq(Paragraph), r.paragraphs = s.paragraphs \o ps,
           ToSet(s.heading) \cap ToSet(TextsOf(ps)) = {}
    PROVE  Told(r) = Told(s) \o TextsOf(ps) /\ (Plain(s) => Plain(r))
<1>1. PICK h \in Text, t \in Text, v \in Text :
          h = s.heading /\ t = TextsOf(s.paragraphs) /\ v = TextsOf(ps)
    BY SizeFacts, ParagraphTexts
<1>2. TextsOf(r.paragraphs) = t \o v
  <2>1. \A p \in Paragraph : p.text \in Seq(Word)
      BY DEF Paragraph, Text
  <2>2. PICK qs \in Seq(Paragraph) : qs = s.paragraphs
      BY DEF Section
  <2>3. TextsOf(qs \o ps) = TextsOf(qs) \o TextsOf(ps)
      BY <2>1, TextsJoined, SMTT(30)
  <2> QED  BY <1>1, <2>2, <2>3
<1>3. Without(t \o v, ToSet(h)) = Without(t, ToSet(h)) \o Without(v, ToSet(h))
    BY WithoutJoined, SMTT(30) DEF Text
<1>4. Without(v, ToSet(h)) = v
  <2>1. ToSet(v) \cap ToSet(h) = {} => Without(v, ToSet(h)) = v
      BY WithoutIn DEF Text
  <2> QED  BY <1>1, <2>1
<1>5. PICK w \in Text : w = Without(t, ToSet(h))
    BY WithoutIn DEF Text
<1>6. h \o (w \o v) = (h \o w) \o v
    BY ConcatAssociative, SMTT(30) DEF Text
<1>7. Told(s) = h \o w /\ Told(r) = h \o (w \o v)
    BY <1>1, <1>2, <1>3, <1>4, <1>5 DEF Told
<1>8. Plain(s) => Plain(r)
  <2>1. ToSet(t \o v) = ToSet(t) \cup ToSet(v)
      BY JoinedSets DEF Text
  <2> QED  BY <1>1, <1>2, <2>1 DEF Plain
<1> QED  BY <1>1, <1>6, <1>7, <1>8

\* One paragraph more.
LEMMA TellParagraph ==
    ASSUME NEW s \in Section, NEW r \in Section, r.heading = s.heading,
           NEW p \in Paragraph, r.paragraphs = Append(s.paragraphs, p),
           ToSet(s.heading) \cap ToSet(p.text) = {}
    PROVE  Told(r) = Told(s) \o p.text /\ (Plain(s) => Plain(r))
<1>1. PICK ps \in Seq(Paragraph) : ps = <<p>> /\ Append(<<>>, p) = ps
    BY Single
<1>2. s.paragraphs \in Seq(Paragraph)
    BY DEF Section
<1>3. r.paragraphs = s.paragraphs \o ps
    BY <1>1, <1>2, AppendIsConcat
<1>4. TextsOf(ps) = p.text
  <2>1. PICK none \in Seq(Paragraph) : none = <<>>
      BY EmptySeq
  <2>2. TextsOf(Append(none, p)) = TextsOf(none) \o p.text
      BY TextsMore
  <2>3. <<>> \o p.text = p.text
      BY JoinNothing DEF Paragraph, Text
  <2> QED  BY <1>1, <2>1, <2>2, <2>3, NoTexts
<1> QED  BY <1>3, <1>4, TellMore, ZenonT(60)

\* A section without paragraphs tells its heading.
LEMMA TellHeading ==
    ASSUME NEW s \in Section, s.paragraphs = <<>> PROVE Told(s) = s.heading /\ Plain(s)
<1>1. s.heading \in Text /\ TextsOf(s.paragraphs) = <<>> /\ ToSet(<<>>) = {}
    BY NoTexts, NoElements DEF Section
<1>2. Plain(s)
    BY <1>1 DEF Plain
<1>3. s.heading \o <<>> = s.heading
    BY <1>1, JoinNothing DEF Text
<1> QED  BY <1>1, <1>2, <1>3, ToldIn

\* A tiny section that is folded into its predecessor tells the same there.
LEMMA TellFolded ==
    ASSUME NEW s \in Section, NEW tiny \in Section, Plain(tiny),
           ToSet(s.heading) \cap ToSet(Told(tiny)) = {}
    PROVE  Folded(s, tiny) \in Section /\ Told(Folded(s, tiny)) = Told(s) \o Told(tiny)
<1>1. PICK h \in Text, t \in Text, v \in Text : h = tiny.heading /\ t = TextsOf(tiny.paragraphs) /\ v = Told(s)
    BY ToldIn
<1>2. Told(tiny) = h \o t /\ ToSet(Told(tiny)) = ToSet(h) \cup ToSet(t)
    BY <1>1, ToldIn
<1>a. PICK page \in Nat : page = tiny.first
    BY DEF Section
<1>b. ToSet(s.heading) \cap ToSet(h) = {} /\ ToSet(s.heading) \cap ToSet(t) = {}
    BY <1>2
<1>3. PICK p \in Paragraph : p = [text |-> h, page |-> page, body |-> FALSE]
    BY DEF Paragraph
<1>c. p.text = h
    BY <1>3
<1>4. PICK q : q = With(s, h, page, FALSE)
    OBVIOUS
<1>5. PICK ps \in Seq(Paragraph) : ps = s.paragraphs /\ Append(ps, p) \in Seq(Paragraph)
    BY AppendProperties DEF Section
<1>6. q \in Section /\ q.heading = s.heading /\ q.paragraphs = Append(ps, p)
    BY <1>3, <1>4, <1>5 DEF With, Section
<1>7. Told(q) = v \o h
  <2>1. Told(q) = Told(s) \o p.text
      BY <1>b, <1>c, <1>5, <1>6, TellParagraph
  <2> QED  BY <1>1, <1>c, <2>1
<1>8. PICK r : r = Folded(s, tiny)
    OBVIOUS
<1>9. PICK ts \in Seq(Paragraph) : ts = tiny.paragraphs /\ q.paragraphs \o ts \in Seq(Paragraph)
    BY <1>5, <1>6, ConcatProperties DEF Section
<1>10. Larger(q.last, tiny.last) \in Nat
    BY <1>6 DEF Larger, Section
<1>11. r \in Section /\ r.heading = q.heading /\ r.paragraphs = q.paragraphs \o ts
    BY <1>1, <1>a, <1>4, <1>6, <1>8, <1>9, <1>10 DEF Folded, Section
<1>12. Told(r) = Told(q) \o t
  <2>1. ToSet(q.heading) \cap ToSet(TextsOf(ts)) = {}
      BY <1>b, <1>1, <1>6, <1>9
  <2>2. Told(r) = Told(q) \o TextsOf(ts)
      BY <1>6, <1>11, <2>1, TellMore
  <2> QED  BY <1>1, <1>9, <2>2
<1>13. (v \o h) \o t = v \o (h \o t)
    BY ConcatAssociative, SMTT(30) DEF Text
<1> QED  BY <1>1, <1>2, <1>7, <1>8, <1>11, <1>12, <1>13

-----------------------------------------------------------------------------
(* What is stored of the parents *)

StoredMore(none, all, s) == WithParent(all, s)
Stores == INSTANCE FoldLaws WITH Op <- StoredMore
StoredOf(ps) == Stores!Fold({}, <<>>, ps)

LEMMA StoredFold == Stored = StoredOf(parents)
BY Zenon DEF Stored, StoredOf, StoredMore, Stores!Fold, FoldLeft, MapThenFoldSet, Max, Stores!Greatest

LEMMA NothingStored == StoredOf(<<>>) = <<>>
BY Stores!FoldOfNothing DEF StoredOf

\* What is told of section s: heading h, and w of its text.
Tells(s, h, w) == h = s.heading /\ w = Without(TextsOf(s.paragraphs), ToSet(h))

\* What the parent adds to what is stored.
LEMMA ParentStored ==
    ASSUME NEW all \in Text, NEW s \in Section, NEW h \in Text, NEW w \in Text, Tells(s, h, w)
    PROVE  /\ WithParent(all, s) \in Text
           /\ ToSet(h) \cap ToSet(all) = {} => WithParent(all, s) = (all \o h) \o w
           /\ ToSet(h) \subseteq ToSet(all) => WithParent(all, s) = all \o w
<1>0. h \in Seq(Word)
    BY DEF Text
<1>1. DOMAIN h = 1 .. Len(h) /\ Len(h) \in Nat /\ ToSet(h) = {h[i] : i \in 1 .. Len(h)}
    BY <1>0, Elements
<1>2. PICK u \in Text : u = all \o h
    BY TextJoins
<1>3. all \o w \in Text /\ u \o w \in Text
    BY TextJoins
<1>4. WithParent(all, s) = (IF \E i \in 1 .. Len(h) : h[i] \in ToSet(all) THEN all ELSE u) \o w
    BY <1>1, <1>2 DEF WithParent, Tells
<1>5. ToSet(h) \cap ToSet(all) = {} => ~\E i \in 1 .. Len(h) : h[i] \in ToSet(all)
    BY <1>1
<1>6. ASSUME ToSet(h) \subseteq ToSet(all), ~\E i \in 1 .. Len(h) : h[i] \in ToSet(all) PROVE u = all
  <2>1. Len(h) = 0
      BY <1>1, <1>6
  <2>2. h = <<>>
      BY <2>1, EmptySeq DEF Text
  <2> QED  BY <1>2, <2>2, TextJoins
<1> QED  BY <1>2, <1>3, <1>4, <1>5, <1>6

LEMMA StoredOfMore ==
    ASSUME NEW T, NEW s \in Seq(T), NEW x \in T
    PROVE  StoredOf(Append(s, x)) = WithParent(StoredOf(s), x)
BY Stores!FoldOfAppend DEF StoredOf, StoredMore

LEMMA StoredIn == \A ps \in Seq(Section) : StoredOf(ps) \in Text
<1> DEFINE A == {ps \in Seq(Section) : StoredOf(ps) \in Text}
<1>1. <<>> \in A
    BY NothingStored, EmptySeq DEF Text
<1>2. ASSUME NEW s \in Seq(Section), NEW x \in Section, s \in A PROVE Append(s, x) \in A
  <2>1. PICK all \in Text : all = StoredOf(s)
      BY <1>2
  <2>2. PICK h \in Text, t \in Text : h = x.heading /\ t = TextsOf(x.paragraphs)
      BY SizeFacts
  <2>3. PICK w \in Text : w = Without(t, ToSet(h))
      BY TextWithout
  <2>4. WithParent(all, x) \in Text
      BY <2>2, <2>3, ParentStored DEF Tells
  <2>5. StoredOf(Append(s, x)) = WithParent(StoredOf(s), x)
      BY StoredOfMore
  <2> QED  BY <2>1, <2>4, <2>5, AppendProperties
<1>3. \A s \in Seq(Section) : s \in A
  <2> HIDE DEF A
  <2> QED  BY <1>1, <1>2, Stores!SeqsOfSet
<1> QED  BY <1>3

Shared(ps, s, q) ==
    StoredOf(ps \o q) = StoredOf(ps) \o
        (s.heading \o Without(TextsOf(ParagraphsOf(q)), ToSet(s.heading)))

Regrouped(s, h, z, w) == (s \o (h \o z)) \o w = s \o (h \o (z \o w))

LEMMA TextRegrouped ==
    ASSUME NEW s \in Text, NEW h \in Text, NEW z \in Text, NEW w \in Text
    PROVE  Regrouped(s, h, z, w)
<1>1. PICK hz \in Text : hz = h \o z
    BY TextJoins
<1>2. (s \o hz) \o w = s \o (hz \o w)
    BY TextAssociative, ZenonT(60)
<1>3. (h \o z) \o w = h \o (z \o w)
    BY TextAssociative, ZenonT(60)
<1> QED  BY <1>1, <1>2, <1>3 DEF Regrouped

\* What part x, which tells h and w, adds to all that was stored before.
Adds(all, h, z, w, x) ==
    /\ z = <<>> => WithParent(all, x) = all \o (h \o (z \o w))
    /\ WithParent(all \o (h \o z), x) = all \o (h \o (z \o w))

LEMMA PartAdded ==
    ASSUME NEW all \in Text, NEW h \in Text, NEW z \in Text, NEW w \in Text,
           ToSet(h) \cap ToSet(all) = {}, NEW x \in Section, Tells(x, h, w)
    PROVE  Adds(all, h, z, w, x)
<1>1. (all \o h) \o w = all \o (h \o w)
    BY TextAssociative, ZenonT(60)
<1>2. Regrouped(all, h, z, w)
    BY TextRegrouped
<1>3. z = <<>> => z \o w = w
    BY TextJoins
<1>4. WithParent(all, x) = (all \o h) \o w
    BY ParentStored
<1>5. WithParent(all \o (h \o z), x) = (all \o (h \o z)) \o w
  <2>1. h \o z \in Text /\ ToSet(h) \subseteq ToSet(h \o z)
      BY TextJoins
  <2>2. all \o (h \o z) \in Text /\ ToSet(h \o z) \subseteq ToSet(all \o (h \o z))
      BY <2>1, TextJoins
  <2>3. \A m \in Text : ToSet(h) \subseteq ToSet(m) => WithParent(m, x) = m \o w
      BY ParentStored
  <2> QED  BY <2>1, <2>2, <2>3
<1> QED  BY <1>1, <1>2, <1>3, <1>4, <1>5 DEF Adds, Regrouped

LEMMA PartStored ==
    ASSUME NEW ps \in Seq(Section), NEW s \in Section,
           ToSet(s.heading) \cap ToSet(StoredOf(ps)) = {},
           NEW q \in Seq(PartOf(s)), NEW x \in PartOf(s), q # <<>> => Shared(ps, s, q)
    PROVE  Shared(ps, s, Append(q, x))
<1>a. PICK h \in Text, all \in Text : h = s.heading /\ all = StoredOf(ps) /\ ToSet(h) \cap ToSet(all) = {}
    BY SizeFacts, StoredIn
<1>b. q # <<>> => StoredOf(ps \o q) = StoredOf(ps) \o
        (s.heading \o Without(TextsOf(ParagraphsOf(q)), ToSet(s.heading)))
    BY DEF Shared
<1>1. x \in Section /\ x.heading = h
    BY <1>a DEF PartOf
<1>2. PICK t \in Text, xs \in Seq(Paragraph) : xs = x.paragraphs /\ t = TextsOf(xs)
    BY <1>1, SizeFacts
<1>3. PICK w \in Text : w = Without(t, ToSet(h))
    BY TextWithout
<1>4. PICK qs \in Seq(Paragraph) : qs = ParagraphsOf(q)
  <2>1. \A r \in PartOf(s) : r.paragraphs \in Seq(Paragraph)
      BY DEF PartOf, Section
  <2> QED  BY <2>1, ParagraphsOfIn
<1>5. PICK v \in Text : v = TextsOf(qs)
    BY ParagraphTexts
<1>6. PICK z \in Text : z = Without(v, ToSet(h))
    BY TextWithout
<1>7. TextsOf(ParagraphsOf(Append(q, x))) = v \o t
  <2>1. ParagraphsOf(Append(q, x)) = qs \o xs
      BY <1>2, <1>4, ParagraphsOfMore
  <2>2. \A p \in Paragraph : p.text \in Seq(Word)
      BY DEF Paragraph, Text
  <2>3. TextsOf(qs \o xs) = TextsOf(qs) \o TextsOf(xs)
      BY <2>2, TextsJoined
  <2> QED  BY <1>2, <1>5, <2>1, <2>3
<1>8. Without(v \o t, ToSet(h)) = z \o w
    BY <1>3, <1>6, TextWithout
<1>9. PICK qq \in Seq(Section) : qq = q
  <2>1. PartOf(s) \subseteq Section
      BY DEF PartOf
  <2> QED  BY <2>1, SeqMonotonic
<1>10. PICK u \in Seq(Section) : u = ps \o qq
    BY ConcatProperties
<1>11. ps \o Append(q, x) = Append(u, x)
    BY <1>1, <1>9, <1>10, JoinAppend
<1>12. PICK so \in Text : so = StoredOf(u)
    BY StoredIn
<1>13. StoredOf(Append(u, x)) = WithParent(so, x)
    BY <1>1, <1>12, StoredOfMore
<1>14. Adds(all, h, z, w, x)
  <2>1. Tells(x, h, w)
      BY <1>1, <1>2, <1>3 DEF Tells
  <2> QED  BY <1>a, <1>1, <2>1, PartAdded
<1>15. WithParent(so, x) = all \o (h \o (z \o w))
  <2>1. CASE q = <<>>
    <3>1. so = all
        BY <1>a, <1>9, <1>10, <1>12, <2>1, JoinNothing
    <3>2. z = <<>>
      <4>1. qs = <<>>
          BY <1>4, <2>1, NoParagraphs
      <4>2. v = <<>>
          BY <1>5, <4>1, NoTexts
      <4>3. ToSet(<<>>) \subseteq ToSet(h) /\ <<>> \in Text
          BY TextJoins
      <4>4. Without(<<>>, ToSet(h)) = <<>>
          BY <4>3, TextWithout
      <4> QED  BY <1>6, <4>2, <4>4
    <3> QED  BY <1>14, <3>1, <3>2 DEF Adds
  <2>2. CASE q # <<>>
    <3>1. so = all \o (h \o z)
        BY <1>a, <1>b, <1>4, <1>5, <1>6, <1>9, <1>10, <1>12, <2>2
    <3> QED  BY <1>14, <3>1 DEF Adds
  <2> QED  BY <2>1, <2>2
<1> QED  BY <1>a, <1>7, <1>8, <1>11, <1>13, <1>15 DEF Shared

\* The parts of a section are stored with its heading once.
LEMMA PartsStored ==
    ASSUME NEW ps \in Seq(Section), NEW s \in Section,
           ToSet(s.heading) \cap ToSet(StoredOf(ps)) = {}
    PROVE  \A q \in Seq(PartOf(s)) : q # <<>> => Shared(ps, s, q)
<1> DEFINE A == {q \in Seq(PartOf(s)) : q # <<>> => Shared(ps, s, q)}
<1>1. <<>> \in A
    BY EmptySeq
<1>2. ASSUME NEW q \in Seq(PartOf(s)), NEW x \in PartOf(s), q \in A PROVE Append(q, x) \in A
  <2>1. Append(q, x) \in Seq(PartOf(s))
      BY AppendProperties
  <2>2. Shared(ps, s, Append(q, x))
      BY <1>2, PartStored
  <2> QED  BY <2>1, <2>2
<1>3. \A q \in Seq(PartOf(s)) : q \in A
  <2> HIDE DEF A
  <2> QED  BY <1>1, <1>2, Stores!SeqsOfSet
<1> QED  BY <1>3

\* However a section is divided, it is stored as it is told.
LEMMA SplitStored ==
    ASSUME NEW ps \in Seq(Section), NEW s \in Section,
           ToSet(s.heading) \cap ToSet(StoredOf(ps)) = {}
    PROVE  /\ StoredOf(ps \o Parts(s)) = StoredOf(ps) \o Told(s)
           /\ ps \o Parts(s) \in Seq(Section)
<1>1. PICK q \in Seq(PartOf(s)) :
          q = Parts(s) /\ q # <<>> /\ TextsOf(ParagraphsOf(q)) = TextsOf(s.paragraphs)
    BY PartsIn
<1>2. StoredOf(ps \o q) = StoredOf(ps) \o
          (s.heading \o Without(TextsOf(ParagraphsOf(q)), ToSet(s.heading)))
    BY <1>1, PartsStored DEF Shared
<1>3. q \in Seq(Section)
  <2>1. PartOf(s) \subseteq Section
      BY DEF PartOf
  <2> QED  BY <2>1, SeqMonotonic
<1>4. ps \o q \in Seq(Section)
    BY <1>3, ConcatProperties
<1> QED  BY <1>1, <1>2, <1>4 DEF Told

-----------------------------------------------------------------------------
(* The outline *)

Numbers(k) == [j \in 1 .. k |-> j]

\* The sections that are open at section k, as in Outline.
OpenAt(ss, k) == {j \in 1 .. k : /\ ss[j].level > 0
                                 /\ \A m \in j + 1 .. k : ss[m].level > ss[j].level}
OpenList(ss, k) == Filtered(Numbers(k), OpenAt(ss, k))
OutlineOf(ss, k) == [i \in DOMAIN OpenList(ss, k) |-> ss[OpenList(ss, k)[i]].heading]

LEMMA OutlineIs == \A k : Outline(k) = OutlineOf(sections, k)
BY DEF Outline, OutlineOf, OpenList, OpenAt, Numbers

\* What the stack keeps of section j.
Mark == Nat \X Text
MarkOf(ss, j) == <<ss[j].level, ss[j].heading>>
MarksOf(ss, s) == [i \in DOMAIN s |-> MarkOf(ss, s[i])]

LEMMA Numbered ==
    ASSUME NEW k \in Nat
    PROVE  /\ Numbers(k) \in Seq(1 .. k) /\ ToSet(Numbers(k)) = 1 .. k /\ Len(Numbers(k)) = k
           /\ Numbers(k + 1) = Append(Numbers(k), k + 1) /\ Numbers(k) \in Seq(1 .. k + 1)
           /\ Numbers(0) = <<>> /\ IsInjective(Numbers(k))
<1>1. PICK s : s = Numbers(k)
    OBVIOUS
<1>2. s \in [1 .. k -> 1 .. k] /\ DOMAIN s = 1 .. k /\ \A i \in 1 .. k : s[i] = i
    BY <1>1 DEF Numbers
<1>3. s \in Seq(1 .. k)
  <2>1. s \in UNION {[1 .. m -> 1 .. k] : m \in Nat}
      BY <1>2
  <2> QED  BY <2>1, SeqDef, Zenon
<1>4. Len(s) = k
    BY <1>2, <1>3
<1>5. ToSet(s) = 1 .. k
    BY <1>2 DEF ToSet
<1>6. IsInjective(s)
    BY <1>2 DEF IsInjective
<1>7. s \in Seq(1 .. k + 1)
  <2>1. 1 .. k \subseteq 1 .. k + 1
      OBVIOUS
  <2> QED  BY <1>3, <2>1, SeqMonotonic
<1>8. Numbers(k + 1) = Append(s, k + 1)
  <2>1. PICK w : w = Append(s, k + 1)
      OBVIOUS
  <2>2. w \in Seq(1 .. k + 1) /\ Len(w) = k + 1 /\ w[k + 1] = k + 1 /\ \A i \in 1 .. k : w[i] = s[i]
      BY <1>4, <1>7, <2>1, AppendProperties
  <2>3. \A i \in 1 .. k + 1 : i \in 1 .. k \/ i = k + 1
      OBVIOUS
  <2>4. \A i \in 1 .. k + 1 : w[i] = i
      BY <1>2, <2>2, <2>3
  <2>5. DOMAIN w = 1 .. k + 1 /\ w = [i \in DOMAIN w |-> w[i]]
      BY <2>2
  <2>6. w = [i \in 1 .. k + 1 |-> i]
      BY <2>4, <2>5
  <2> QED  BY <2>1, <2>6 DEF Numbers
<1>9. Numbers(0) = <<>>
  <2>1. 1 .. 0 = {}
      OBVIOUS
  <2> QED  BY <2>1 DEF Numbers
<1> QED  BY <1>1, <1>3, <1>4, <1>5, <1>6, <1>7, <1>8, <1>9

LEMMA MarksMore ==
    ASSUME NEW ss, NEW k \in Nat, NEW s \in Seq(1 .. k), NEW j \in 1 .. k, \A m \in 1 .. k : MarkOf(ss, m) \in Mark
    PROVE  /\ MarksOf(ss, s) \in Seq(Mark) /\ Len(MarksOf(ss, s)) = Len(s)
           /\ MarksOf(ss, Append(s, j)) = Append(MarksOf(ss, s), MarkOf(ss, j))
<1>0. PICK q : q = MarksOf(ss, s)
    OBVIOUS
<1>1. PICK d \in Nat : d = Len(s) /\ DOMAIN s = 1 .. d /\ \A i \in 1 .. d : s[i] \in 1 .. k
    OBVIOUS
<1>2. q = [i \in 1 .. d |-> MarkOf(ss, s[i])]
    BY <1>0, <1>1 DEF MarksOf
<1>3. q \in [1 .. d -> Mark] /\ DOMAIN q = 1 .. d
    BY <1>1, <1>2
<1>4. q \in Seq(Mark)
  <2>1. q \in UNION {[1 .. m -> Mark] : m \in Nat}
      BY <1>3
  <2> QED  BY <2>1, SeqDef, Zenon
<1>5. Len(q) = d
    BY <1>3, <1>4
<1>6. PICK w \in Seq(1 .. k) : w = Append(s, j)
    BY AppendProperties
<1>7. Len(w) = d + 1 /\ w[d + 1] = j /\ (\A i \in 1 .. d : w[i] = s[i]) /\ DOMAIN w = 1 .. d + 1
  <2>1. Len(w) = d + 1 /\ w[d + 1] = j /\ (\A i \in 1 .. d : w[i] = s[i])
      BY <1>1, <1>6, AppendProperties
  <2>2. DOMAIN w = 1 .. Len(w)
      OBVIOUS
  <2> QED  BY <2>1, <2>2
<1>8. PICK v \in Seq(Mark) : v = Append(q, MarkOf(ss, j))
    BY <1>4, AppendProperties
<1>9. Len(v) = d + 1 /\ v[d + 1] = MarkOf(ss, j) /\ (\A i \in 1 .. d : v[i] = q[i]) /\ DOMAIN v = 1 .. d + 1
  <2>1. Len(v) = d + 1 /\ v[d + 1] = MarkOf(ss, j) /\ (\A i \in 1 .. d : v[i] = q[i])
      BY <1>4, <1>5, <1>8, AppendProperties, SMTT(30)
  <2>2. DOMAIN v = 1 .. Len(v)
      OBVIOUS
  <2> QED  BY <2>1, <2>2
<1>10. \A i \in 1 .. d + 1 : i \in 1 .. d \/ i = d + 1
    OBVIOUS
<1>11. \A i \in 1 .. d + 1 : v[i] = MarkOf(ss, w[i])
    BY <1>2, <1>7, <1>9, <1>10
<1>12. MarksOf(ss, w) = [i \in 1 .. d + 1 |-> MarkOf(ss, w[i])]
    BY <1>7 DEF MarksOf
<1>13. v = [i \in 1 .. d + 1 |-> v[i]]
    BY <1>9
<1>14. MarksOf(ss, w) = v
    BY <1>11, <1>12, <1>13
<1> QED  BY <1>0, <1>1, <1>4, <1>5, <1>6, <1>8, <1>14

LEMMA FilteredMarks ==
    ASSUME NEW ss, NEW k \in Nat, \A m \in 1 .. k : MarkOf(ss, m) \in Mark, NEW S
    PROVE  \A s \in Seq(1 .. k) :
               /\ MarksOf(ss, s) \in Seq(Mark) /\ Len(MarksOf(ss, s)) = Len(s)
               /\ Filtered(MarksOf(ss, s), S) = MarksOf(ss, Filtered(s, {j \in 1 .. k : MarkOf(ss, j) \in S}))
<1> DEFINE R == {j \in 1 .. k : MarkOf(ss, j) \in S}
           A == {s \in Seq(1 .. k) :
                   /\ MarksOf(ss, s) \in Seq(Mark) /\ Len(MarksOf(ss, s)) = Len(s)
                   /\ Filtered(MarksOf(ss, s), S) = MarksOf(ss, Filtered(s, R))}
<1>0. MarksOf(ss, <<>>) = <<>>
    BY DEF MarksOf
<1>1. <<>> \in A
  <2>1. <<>> \in Seq(Mark) /\ <<>> \in Seq(1 .. k) /\ Len(<<>>) = 0
      BY EmptySeq
  <2> QED  BY <1>0, <2>1, FilteredNothing
<1>2. ASSUME NEW s \in Seq(1 .. k), NEW j \in 1 .. k, s \in A PROVE Append(s, j) \in A
  <2>a. j \in R <=> MarkOf(ss, j) \in S
      OBVIOUS
  <2> HIDE DEF R
  <2>1. PICK q \in Seq(Mark) : q = MarksOf(ss, s) /\ Len(q) = Len(s) /\ Filtered(q, S) = MarksOf(ss, Filtered(s, R))
      BY <1>2
  <2>2. MarksOf(ss, Append(s, j)) = Append(q, MarkOf(ss, j))
      BY <2>1, MarksMore
  <2>3. PICK e \in Mark : e = MarkOf(ss, j)
      OBVIOUS
  <2>4. Filtered(Append(q, e), S) = IF e \in S THEN Append(Filtered(q, S), e) ELSE Filtered(q, S)
      BY FilteredMore
  <2>5. Filtered(Append(s, j), R) = IF j \in R THEN Append(Filtered(s, R), j) ELSE Filtered(s, R)
      BY FilteredMore
  <2>6. PICK f \in Seq(1 .. k) : f = Filtered(s, R)
      BY FilteredIn
  <2>7. MarksOf(ss, Append(f, j)) = Append(MarksOf(ss, f), e)
      BY <2>3, MarksMore
  <2>8. Filtered(MarksOf(ss, Append(s, j)), S) = MarksOf(ss, Filtered(Append(s, j), R))
    <3>1. CASE j \in R
        BY <2>a, <2>1, <2>2, <2>3, <2>4, <2>5, <2>6, <2>7, <3>1
    <3>2. CASE j \notin R
        BY <2>a, <2>1, <2>2, <2>3, <2>4, <2>5, <2>6, <3>2
    <3> QED  BY <3>1, <3>2
  <2>9. Append(q, e) \in Seq(Mark) /\ Len(Append(q, e)) = Len(q) + 1
      BY AppendProperties
  <2>10. Append(s, j) \in Seq(1 .. k) /\ Len(Append(s, j)) = Len(s) + 1
      BY AppendProperties
  <2> QED  BY <2>1, <2>2, <2>3, <2>8, <2>9, <2>10
<1>3. \A s \in Seq(1 .. k) : s \in A
  <2> HIDE DEF A
  <2> QED  BY <1>1, <1>2, Filters!SeqsOfSet
<1> QED  BY <1>3

LEMMA MarksIn ==
    ASSUME NEW ss, NEW k \in Nat, \A m \in 1 .. k : MarkOf(ss, m) \in Mark
    PROVE  \A s \in Seq(1 .. k) : MarksOf(ss, s) \in Seq(Mark)
<1>1. \A s \in Seq(1 .. k) :
          /\ MarksOf(ss, s) \in Seq(Mark) /\ Len(MarksOf(ss, s)) = Len(s)
          /\ Filtered(MarksOf(ss, s), {}) = MarksOf(ss, Filtered(s, {j \in 1 .. k : MarkOf(ss, j) \in {}}))
    BY FilteredMarks
<1> QED  BY <1>1

\* Two lists of sections have the same outline up to k.
Agree(ss, rr, k) == \A j \in 1 .. k : ss[j].level = rr[j].level /\ ss[j].heading = rr[j].heading

LEMMA OutlineAgrees ==
    ASSUME NEW ss, NEW rr, NEW k \in Nat, Agree(ss, rr, k)
    PROVE  /\ OpenList(ss, k) = OpenList(rr, k)
           /\ OutlineOf(ss, k) = OutlineOf(rr, k)
           /\ \A s \in Seq(1 .. k) : MarksOf(ss, s) = MarksOf(rr, s)
<1>1. \A j \in 1 .. k : ss[j].level = rr[j].level /\ ss[j].heading = rr[j].heading
    BY DEF Agree
<1>2. \A j \in 1 .. k : \A m \in j + 1 .. k : m \in 1 .. k
    OBVIOUS
<1>3. OpenAt(ss, k) = OpenAt(rr, k)
    BY <1>1, <1>2 DEF OpenAt
<1>4. OpenList(ss, k) = OpenList(rr, k)
    BY <1>3 DEF OpenList
<1>5. PICK s \in Seq(1 .. k) : s = OpenList(rr, k)
    BY Numbered, FilteredIn DEF OpenList
<1>6. \A i \in DOMAIN s : s[i] \in 1 .. k
    OBVIOUS
<1>7. OutlineOf(ss, k) = OutlineOf(rr, k)
    BY <1>1, <1>4, <1>5, <1>6 DEF OutlineOf
<1>8. ASSUME NEW t \in Seq(1 .. k) PROVE MarksOf(ss, t) = MarksOf(rr, t)
  <2>1. \A i \in DOMAIN t : t[i] \in 1 .. k
      OBVIOUS
  <2>2. \A i \in DOMAIN t : MarkOf(ss, t[i]) = MarkOf(rr, t[i])
      BY <1>1, <2>1 DEF MarkOf
  <2> QED  BY <2>2 DEF MarksOf
<1> QED  BY <1>4, <1>7, <1>8

\* The sections above level l.
Above(ss, k, l) == {j \in 1 .. k : ss[j].level < l}

\* A new section closes those of its own level and below.
LEMMA OpenMore ==
    ASSUME NEW ss \in Seq(Section), NEW s \in Section, s.level > 0, NEW k \in Nat, k = Len(ss),
           NEW rr, rr = Append(ss, s)
    PROVE  OpenList(rr, k + 1) = Append(Filtered(OpenList(ss, k), Above(ss, k, s.level)), k + 1)
<1>1. rr \in Seq(Section) /\ Len(rr) = k + 1 /\ rr[k + 1] = s /\ \A i \in 1 .. k : rr[i] = ss[i]
    BY AppendProperties
<1>a. \A j \in 1 .. k : ss[j] \in Section
    OBVIOUS
<1>2. \A j \in 1 .. k : ss[j].level \in Nat /\ rr[j].level = ss[j].level
    BY <1>a, <1>1 DEF Section
<1>3. s.level \in Nat /\ rr[k + 1].level = s.level
    BY <1>1 DEF Section
<1>4. ASSUME NEW j \in 1 .. k PROVE j \in OpenAt(rr, k + 1) <=> j \in OpenAt(ss, k) \cap Above(ss, k, s.level)
  <2>1. \A m : m \in j + 1 .. k + 1 <=> m \in j + 1 .. k \/ m = k + 1
      OBVIOUS
  <2>2. \A m \in j + 1 .. k : m \in 1 .. k
      OBVIOUS
  <2>3. (\A m \in j + 1 .. k + 1 : rr[m].level > rr[j].level) <=>
           (\A m \in j + 1 .. k : ss[m].level > ss[j].level) /\ s.level > ss[j].level
      BY <1>2, <1>3, <2>1, <2>2
  <2>4. j \in 1 .. k + 1
      OBVIOUS
  <2> QED  BY <1>2, <1>3, <2>3, <2>4 DEF OpenAt, Above
<1>5. k + 1 \in OpenAt(rr, k + 1)
  <2>1. k + 1 \in 1 .. k + 1 /\ \A m : m \notin (k + 1) + 1 .. k + 1
      OBVIOUS
  <2> QED  BY <1>3, <2>1 DEF OpenAt
<1>6. PICK f \in Seq(1 .. k) : f = Numbers(k) /\ ToSet(f) = 1 .. k
    BY Numbered
<1>7. Numbers(k + 1) = Append(f, k + 1) /\ f \in Seq(1 .. k + 1)
    BY <1>6, Numbered
<1>8. k + 1 \in 1 .. k + 1
    OBVIOUS
<1>9. OpenList(rr, k + 1) = Append(Filtered(f, OpenAt(rr, k + 1)), k + 1)
  <2>1. \A S : k + 1 \in S => Filtered(Append(f, k + 1), S) = Append(Filtered(f, S), k + 1)
      BY <1>7, <1>8, FilteredMore
  <2> QED  BY <1>5, <1>7, <2>1 DEF OpenList
<1>10. Filtered(f, OpenAt(rr, k + 1)) = Filtered(f, OpenAt(ss, k) \cap Above(ss, k, s.level))
  <2>1. ToSet(f) \cap OpenAt(rr, k + 1) = ToSet(f) \cap (OpenAt(ss, k) \cap Above(ss, k, s.level))
      BY <1>4, <1>6
  <2> QED  BY <2>1, FilteredSame
<1>11. Filtered(Filtered(f, OpenAt(ss, k)), Above(ss, k, s.level)) = Filtered(f, OpenAt(ss, k) \cap Above(ss, k, s.level))
    BY FilteredTwice
<1> QED  BY <1>6, <1>9, <1>10, <1>11 DEF OpenList

\* What path_for leaves on the stack.
LEMMA EnclosingIs ==
    ASSUME NEW ss \in Seq(Section), NEW k \in Nat, k = Len(ss), NEW l \in Nat,
           stack = MarksOf(ss, OpenList(ss, k))
    PROVE  Enclosing(l) = MarksOf(ss, Filtered(OpenList(ss, k), Above(ss, k, l)))
<1>a. \A m \in 1 .. k : ss[m] \in Section
    OBVIOUS
<1>b. \A r \in Section : r.level \in Nat /\ r.heading \in Text
    BY DEF Section
<1>1. \A m \in 1 .. k : MarkOf(ss, m) \in Mark /\ ss[m].level \in Nat
    BY <1>a, <1>b DEF MarkOf, Mark
<1>2. PICK s \in Seq(1 .. k) : s = OpenList(ss, k)
    BY Numbered, FilteredIn DEF OpenList
<1>3. PICK q \in Seq(Mark) : q = MarksOf(ss, s) /\ Len(q) = Len(s)
    BY <1>1, FilteredMarks
<1>4. PICK S : S = {h \in ToSet(q) : h[1] < l}
    OBVIOUS
<1>5. Filtered(q, S) = MarksOf(ss, Filtered(s, {j \in 1 .. k : MarkOf(ss, j) \in S}))
    BY <1>1, <1>3, FilteredMarks
<1>6. PICK R : R = {j \in 1 .. k : MarkOf(ss, j) \in S}
    OBVIOUS
<1>7. ToSet(s) \cap R = ToSet(s) \cap Above(ss, k, l)
  <2>1. PICK d \in Nat : d = Len(s) /\ \A i \in 1 .. d : s[i] \in 1 .. k
      BY SMTT(30)
  <2>2. DOMAIN s = 1 .. d /\ DOMAIN q = 1 .. d
    <3>1. DOMAIN q = 1 .. Len(q)
        OBVIOUS
    <3> QED  BY <1>3, <2>1, <3>1
  <2>3. ToSet(s) = {s[i] : i \in 1 .. d} /\ ToSet(q) = {q[i] : i \in 1 .. d}
      BY <2>2 DEF ToSet
  <2>4. \A i \in 1 .. d : q[i] = MarkOf(ss, s[i])
      BY <1>3, <2>2 DEF MarksOf
  <2>5. \A j \in ToSet(s) : j \in 1 .. k /\ MarkOf(ss, j) \in ToSet(q)
      BY <2>1, <2>3, <2>4
  <2>6. \A j \in ToSet(s) : j \in R <=> j \in Above(ss, k, l)
    <3> SUFFICES ASSUME NEW j \in ToSet(s) PROVE j \in R <=> j \in Above(ss, k, l)
        OBVIOUS
    <3>1. j \in R <=> MarkOf(ss, j)[1] < l
        BY <1>4, <1>6, <2>5
    <3>2. MarkOf(ss, j)[1] = ss[j].level
        BY DEF MarkOf
    <3> QED  BY <2>5, <3>1, <3>2 DEF Above
  <2> QED  BY <2>6
<1>8. Filtered(s, R) = Filtered(s, Above(ss, k, l))
    BY <1>7, FilteredSame
<1> QED  BY <1>2, <1>3, <1>4, <1>5, <1>6, <1>8 DEF Enclosing

-----------------------------------------------------------------------------
(* The inductive invariant of Sections *)

Block == [text : Text, page : Nat, level : Nat]
Title == {b \in Block : b.level > 0}
Parent == {s \in Section : Capped(s)}

SectionShapes ==
    /\ phase \in {"idle", "building", "merging", "splitting", "built"}
    /\ source \in Seq(Block) /\ IsInjective(TextsOf(source))
    /\ at \in Nat
    /\ pending \in Seq(Title)
    /\ sections \in Seq(Section) /\ merged \in Seq(Section) /\ parents \in Seq(Parent)

\* What is told of the sections, and the headings still without a body, are the
\* text of the k blocks the loop has seen; the stack has the open headings.
Building(blks, k, titles, ss, open) ==
    /\ k <= Len(blks)
    /\ Story(ss) \o TextsOf(titles) = TextsOf(SubSeq(blks, 1, k))
    /\ \A j \in 1 .. Len(ss) : Plain(ss[j])
    /\ open = MarksOf(ss, OpenList(ss, Len(ss)))

\* Only the first section may have its heading as its text.
Merging(blks, k, ss, ms) ==
    /\ k <= Len(ss)
    /\ Story(ss) = TextsOf(blks)
    /\ \A j \in 2 .. Len(ss) : Plain(ss[j])
    /\ Story(ms) = Story(SubSeq(ss, 1, k))
    /\ k = 0 => ms = <<>>

Splitting(blks, k, ms, ps) ==
    /\ k <= Len(ms)
    /\ Story(ms) = TextsOf(blks)
    /\ StoredOf(ps) = Story(SubSeq(ms, 1, k))

SectionLoops ==
    /\ phase = "idle" => at = 0 /\ pending = <<>> /\ stack = <<>> /\ sections = <<>>
    /\ phase \in {"idle", "building"} => merged = <<>>
    /\ phase \in {"idle", "building", "merging"} => parents = <<>>
    /\ phase = "building" => Building(source, at, pending, sections, stack)
    /\ phase = "merging" => Merging(source, at, sections, merged)
    /\ phase = "splitting" => Splitting(source, at, merged, parents)
    /\ phase = "built" => StoredOf(parents) = TextsOf(source)

\* A section has the path of the outline.
Pathed(ss) == \A k \in 1 .. Len(ss) : ss[k].level > 0 => ss[k].path = OutlineOf(ss, k)

SectionInv == SectionShapes /\ SectionLoops /\ Pathed(sections)

LEMMA BeginningOfAppend ==
    ASSUME NEW T, NEW s \in Seq(T), NEW x \in T, NEW k \in 0 .. Len(s)
    PROVE  SubSeq(Append(s, x), 1, k) = SubSeq(s, 1, k)
<1>1. PICK m \in Nat : m = Len(s) /\ k \in 0 .. m
    OBVIOUS
<1>a. PICK w \in Seq(T) : w = Append(s, x)
    BY AppendProperties
<1>2. Len(w) = m + 1 /\ \A i \in 1 .. m : w[i] = s[i]
    BY <1>1, <1>a, AppendProperties
<1>3. k \in 0 .. Len(w) /\ \A i \in 1 .. k : i \in 1 .. m
    BY <1>1, <1>2
<1>4. PICK u \in Seq(T) : u = SubSeq(s, 1, k) /\ Len(u) = k /\ \A i \in 1 .. k : u[i] = s[i]
    BY Beginning, ZenonT(60)
<1>5. PICK v \in Seq(T) : v = SubSeq(w, 1, k) /\ Len(v) = k /\ \A i \in 1 .. k : v[i] = w[i]
    BY <1>3, Beginning, ZenonT(60)
<1>6. \A i \in 1 .. k : u[i] = v[i]
    BY <1>2, <1>3, <1>4, <1>5
<1>7. u = v
    BY <1>4, <1>5, <1>6, SeqEqual
<1> QED  BY <1>a, <1>4, <1>5, <1>7

\* Of texts without repetitions the beginning has none.
TextsApart(s) == \A k \in 0 .. Len(s) : IsInjective(TextsOf(SubSeq(s, 1, k)))

LEMMA TextsBegin ==
    ASSUME NEW T, \A x \in T : x.text \in Text
    PROVE  \A s \in Seq(T) : IsInjective(TextsOf(s)) => TextsApart(s)
<1> DEFINE A == {s \in Seq(T) : IsInjective(TextsOf(s)) => TextsApart(s)}
<1>1. <<>> \in A
  <2>1. PICK none \in Seq(T) : none = <<>> /\ Len(none) = 0
      BY NoElements
  <2>2. \A k \in 0 .. 0 : SubSeq(none, 1, k) = <<>>
      BY <2>1, Beginning
  <2>3. TextsApart(none)
      BY <2>1, <2>2, NoTexts, NoElements DEF TextsApart
  <2> QED  BY <2>1, <2>3
<1>2. ASSUME NEW s \in Seq(T), NEW x \in T, s \in A PROVE Append(s, x) \in A
  <2>1. PICK w \in Seq(T) : w = Append(s, x) /\ Len(w) = Len(s) + 1
      BY AppendProperties
  <2>2. PICK q \in Text, t \in Text : q = TextsOf(s) /\ t = x.text
      BY TextsIn DEF Text
  <2>3. TextsOf(w) = q \o t
      BY <2>1, <2>2, TextsMore
  <2>4. ASSUME IsInjective(TextsOf(w)) PROVE TextsApart(w)
    <3>1. IsInjective(q)
        BY <2>3, <2>4, TextJoins
    <3>2. TextsApart(s)
        BY <1>2, <2>2, <3>1
    <3>3. \A k \in 0 .. Len(s) : IsInjective(TextsOf(SubSeq(w, 1, k)))
        BY <2>1, <3>2, BeginningOfAppend DEF TextsApart
    <3>4. SubSeq(w, 1, Len(w)) = w
        BY SubSeqFull
    <3>5. \A k \in 0 .. Len(w) : k \in 0 .. Len(s) \/ k = Len(w)
        BY <2>1
    <3> QED  BY <2>4, <3>3, <3>4, <3>5 DEF TextsApart
  <2> QED  BY <2>1, <2>4
<1>3. \A s \in Seq(T) : s \in A
  <2> HIDE DEF A
  <2> QED  BY <1>1, <1>2, Joins!SeqsOfSet
<1> QED  BY <1>3

StoryApart(s) == \A k \in 0 .. Len(s) : IsInjective(Story(SubSeq(s, 1, k)))

LEMMA StoryBegins == \A s \in Seq(Section) : IsInjective(Story(s)) => StoryApart(s)
<1> DEFINE A == {s \in Seq(Section) : IsInjective(Story(s)) => StoryApart(s)}
<1>1. <<>> \in A
  <2>1. PICK none \in Seq(Section) : none = <<>> /\ Len(none) = 0
      BY NoElements
  <2>2. \A k \in 0 .. 0 : SubSeq(none, 1, k) = <<>>
      BY <2>1, Beginning
  <2>3. StoryApart(none)
      BY <2>1, <2>2, NoStory, NoElements DEF StoryApart
  <2> QED  BY <2>1, <2>3
<1>2. ASSUME NEW s \in Seq(Section), NEW x \in Section, s \in A PROVE Append(s, x) \in A
  <2>1. PICK w \in Seq(Section) : w = Append(s, x) /\ Len(w) = Len(s) + 1
      BY AppendProperties
  <2>2. PICK q \in Text, t \in Text : q = Story(s) /\ t = Told(x)
      BY StoryIn, ToldIn
  <2>3. Story(w) = q \o t
      BY <2>1, <2>2, StoryMore
  <2>4. ASSUME IsInjective(Story(w)) PROVE StoryApart(w)
    <3>1. IsInjective(q)
        BY <2>3, <2>4, TextJoins
    <3>2. StoryApart(s)
        BY <1>2, <2>2, <3>1
    <3>3. \A k \in 0 .. Len(s) : IsInjective(Story(SubSeq(w, 1, k)))
        BY <2>1, <3>2, BeginningOfAppend DEF StoryApart
    <3>4. SubSeq(w, 1, Len(w)) = w
        BY SubSeqFull
    <3>5. \A k \in 0 .. Len(w) : k \in 0 .. Len(s) \/ k = Len(w)
        BY <2>1
    <3> QED  BY <2>4, <3>3, <3>4, <3>5 DEF StoryApart
  <2> QED  BY <2>1, <2>4
<1>3. \A s \in Seq(Section) : s \in A
  <2> HIDE DEF A
  <2> QED  BY <1>1, <1>2, Stores!SeqsOfSet
<1> QED  BY <1>3

\* The next element of the list, and the text up to it.
NextText(s, k, before, x) ==
    /\ before = TextsOf(SubSeq(s, 1, k)) /\ x = s[k + 1]
    /\ TextsOf(SubSeq(s, 1, k + 1)) = before \o x.text

LEMMA OneTextMore ==
    ASSUME NEW T, \A x \in T : x.text \in Text, NEW s \in Seq(T), NEW k \in Nat, k < Len(s),
           IsInjective(TextsOf(s))
    PROVE  \E before \in Text, x \in T : NextText(s, k, before, x) /\ IsInjective(before \o x.text)
<1>1. PICK m \in Nat : m = Len(s) /\ k \in 0 .. Len(s) /\ k + 1 \in 0 .. Len(s)
    OBVIOUS
<1>a. PICK u \in Seq(T) : u = SubSeq(s, 1, k)
    BY <1>1, Beginning
<1>b. PICK x \in T : x = s[k + 1]
    OBVIOUS
<1>2. u = SubSeq(s, 1, k) /\ x = s[k + 1] /\ SubSeq(s, 1, k + 1) = Append(u, x)
    BY <1>a, <1>b, <1>1, Beginning
<1>3. PICK before \in Text : before = TextsOf(u)
    BY TextsIn DEF Text
<1>4. TextsOf(Append(u, x)) = before \o x.text
    BY <1>3, TextsMore
<1>5. NextText(s, k, before, x)
    BY <1>2, <1>3, <1>4 DEF NextText
<1>6. IsInjective(TextsOf(SubSeq(s, 1, k + 1)))
    BY <1>1, TextsBegin DEF TextsApart
<1>7. IsInjective(before \o x.text)
    BY <1>2, <1>4, <1>6
<1> QED  BY <1>5, <1>7

NextTold(s, k, before, x) ==
    /\ before = Story(SubSeq(s, 1, k)) /\ x = s[k + 1]
    /\ Story(SubSeq(s, 1, k + 1)) = before \o Told(x)

LEMMA OneTaleMore ==
    ASSUME NEW s \in Seq(Section), NEW k \in Nat, k < Len(s), IsInjective(Story(s))
    PROVE  \E before \in Text, x \in Section : NextTold(s, k, before, x) /\ IsInjective(before \o Told(x))
<1>1. PICK m \in Nat : m = Len(s) /\ k \in 0 .. Len(s) /\ k + 1 \in 0 .. Len(s)
    OBVIOUS
<1>a. PICK u \in Seq(Section) : u = SubSeq(s, 1, k)
    BY <1>1, Beginning
<1>b. PICK x \in Section : x = s[k + 1]
    OBVIOUS
<1>2. u = SubSeq(s, 1, k) /\ x = s[k + 1] /\ SubSeq(s, 1, k + 1) = Append(u, x)
    BY <1>a, <1>b, <1>1, Beginning
<1>3. PICK before \in Text : before = Story(u)
    BY StoryIn
<1>4. Story(Append(u, x)) = before \o Told(x)
    BY <1>3, StoryMore
<1>5. NextTold(s, k, before, x)
    BY <1>2, <1>3, <1>4 DEF NextTold
<1>6. IsInjective(Story(SubSeq(s, 1, k + 1)))
    BY <1>1, StoryBegins DEF StoryApart
<1>7. IsInjective(before \o Told(x))
    BY <1>2, <1>4, <1>6
<1> QED  BY <1>5, <1>7

-----------------------------------------------------------------------------
(* One paragraph, one section more *)

AllPlain(ss) == \A j \in 1 .. Len(ss) : Plain(ss[j])

\* Section s with paragraph p.
Longer(s, p, r) ==
    /\ r.heading = s.heading /\ r.level = s.level /\ r.path = s.path
    /\ r.paragraphs = Append(s.paragraphs, p)

\* The sections ss with text t in the last of them: the outline is the same.
SaysMore(ss, t, rr) ==
    /\ rr \in Seq(Section) /\ Len(rr) = Len(ss)
    /\ Story(rr) = Story(ss) \o t
    /\ AllPlain(ss) => AllPlain(rr)
    /\ Pathed(ss) => Pathed(rr)
    /\ MarksOf(rr, OpenList(rr, Len(rr))) = MarksOf(ss, OpenList(ss, Len(ss)))

LEMMA LastSaysMore ==
    ASSUME NEW ss \in Seq(Section), ss # <<>>, NEW r \in Section, NEW p \in Paragraph,
           Longer(Last(ss), p, r), IsInjective(Story(ss) \o p.text)
    PROVE  SaysMore(ss, p.text, ReplaceAt(ss, Len(ss), r))
<1>1. PICK u \in Seq(Section) : Before(ss, u, Section)
    BY LastReplaced
<1>2. PICK e \in Section : e = Last(ss)
    BY <1>1 DEF Before
<1>3. ss = Append(u, e) /\ ReplaceAt(ss, Len(ss), r) = Append(u, r)
    BY <1>1, <1>2 DEF Before
<1>4. PICK rr \in Seq(Section) : rr = Append(u, r)
    BY AppendProperties
<1>5. PICK m \in Nat : m = Len(u)
    OBVIOUS
<1>6. /\ Len(ss) = m + 1 /\ Len(rr) = m + 1 /\ ss[m + 1] = e /\ rr[m + 1] = r
      /\ \A i \in 1 .. m : ss[i] = u[i] /\ rr[i] = u[i]
    BY <1>3, <1>4, <1>5, AppendProperties
<1>7. \A i \in 1 .. m + 1 : i \in 1 .. m \/ i = m + 1
    OBVIOUS
<1>8. Longer(e, p, r)
    BY <1>2
<1>9. \A i \in 1 .. m + 1 : rr[i].level = ss[i].level /\ rr[i].heading = ss[i].heading /\ rr[i].path = ss[i].path
    BY <1>6, <1>7, <1>8 DEF Longer
<1>10. PICK v \in Text, t \in Text, w \in Text : v = Story(u) /\ t = p.text /\ w = Told(e)
    BY StoryIn, ToldIn DEF Paragraph
<1>11. Story(ss) = v \o w
    BY <1>3, <1>10, StoryMore
<1>12. ToSet(e.heading) \cap ToSet(t) = {}
  <2>1. v \o w \in Text /\ ToSet(v \o w) = ToSet(v) \cup ToSet(w)
      BY TextJoins
  <2>2. ToSet(v \o w) \cap ToSet(t) = {}
      BY <1>10, <1>11, <2>1, TextJoins
  <2>3. ToSet(e.heading) \subseteq ToSet(w)
      BY <1>10, ToldIn
  <2> QED  BY <2>1, <2>2, <2>3
<1>13. Told(r) = w \o t /\ (Plain(e) => Plain(r))
  <2>1. r.heading = e.heading /\ r.paragraphs = Append(e.paragraphs, p)
      BY <1>8 DEF Longer
  <2>2. Told(r) = Told(e) \o p.text /\ (Plain(e) => Plain(r))
      BY <1>10, <1>12, <2>1, TellParagraph
  <2> QED  BY <1>10, <2>2
<1>14. Story(rr) = v \o (w \o t)
    BY <1>4, <1>10, <1>13, StoryMore
<1>15. (v \o w) \o t = v \o (w \o t)
    BY TextAssociative, ZenonT(60)
<1>16. AllPlain(ss) => AllPlain(rr)
    BY <1>6, <1>7, <1>13 DEF AllPlain
<1>17. Pathed(ss) => Pathed(rr)
  <2> SUFFICES ASSUME Pathed(ss), NEW k \in 1 .. m + 1, rr[k].level > 0 PROVE rr[k].path = OutlineOf(rr, k)
      BY <1>6 DEF Pathed
  <2>1. Agree(ss, rr, k)
      BY <1>9, SMTT(30) DEF Agree
  <2>2. OutlineOf(ss, k) = OutlineOf(rr, k)
      BY <2>1, OutlineAgrees
  <2>3. ss[k].path = OutlineOf(ss, k)
      BY <1>6, <1>9 DEF Pathed
  <2> QED  BY <1>9, <2>2, <2>3
<1>18. MarksOf(rr, OpenList(rr, Len(rr))) = MarksOf(ss, OpenList(ss, Len(ss)))
  <2>1. Agree(ss, rr, m + 1)
      BY <1>9 DEF Agree
  <2>2. PICK q \in Seq(1 .. m + 1) : q = OpenList(ss, m + 1)
      BY Numbered, FilteredIn DEF OpenList
  <2>3. OpenList(rr, m + 1) = q /\ MarksOf(ss, q) = MarksOf(rr, q)
      BY <2>1, <2>2, OutlineAgrees
  <2> QED  BY <1>6, <2>2, <2>3
<1>19. SaysMore(ss, t, rr)
    BY <1>6, <1>11, <1>14, <1>15, <1>16, <1>17, <1>18 DEF SaysMore
<1> QED  BY <1>3, <1>4, <1>10, <1>19

\* What a new section adds to the outline.
LEMMA NextOpen ==
    ASSUME NEW ss \in Seq(Section), NEW s \in Section, NEW k \in Nat, k = Len(ss), s.level > 0,
           stack = MarksOf(ss, OpenList(ss, k)),
           NEW rr, rr = Append(ss, s)
    PROVE  Append(Enclosing(s.level), <<s.level, s.heading>>) = MarksOf(rr, OpenList(rr, k + 1))
<1>1. rr \in Seq(Section) /\ Len(rr) = k + 1 /\ rr[k + 1] = s /\ \A i \in 1 .. k : rr[i] = ss[i]
    BY AppendProperties
<1>2. s.level \in Nat
    BY DEF Section
<1>3. PICK f \in Seq(1 .. k) : f = Filtered(OpenList(ss, k), Above(ss, k, s.level))
    BY Numbered, FilteredIn DEF OpenList
<1>4. OpenList(rr, k + 1) = Append(f, k + 1)
    BY <1>3, OpenMore
<1>5. Enclosing(s.level) = MarksOf(ss, f)
    BY <1>2, <1>3, EnclosingIs
<1>6. MarksOf(ss, f) = MarksOf(rr, f)
  <2>1. Agree(ss, rr, k)
      BY <1>1 DEF Agree
  <2> QED  BY <2>1, OutlineAgrees
<1>7. f \in Seq(1 .. k + 1)
  <2>1. 1 .. k \subseteq 1 .. k + 1
      OBVIOUS
  <2> QED  BY <2>1, SeqMonotonic
<1>8. \A m \in 1 .. k + 1 : MarkOf(rr, m) \in Mark
  <2>1. \A m \in 1 .. k + 1 : rr[m] \in Section
      BY <1>1
  <2>2. \A r \in Section : r.level \in Nat /\ r.heading \in Text
      BY DEF Section
  <2> QED  BY <2>1, <2>2 DEF MarkOf, Mark
<1>9. k + 1 \in 1 .. k + 1 /\ k + 1 \in Nat
    OBVIOUS
<1>10. MarksOf(rr, Append(f, k + 1)) = Append(MarksOf(rr, f), MarkOf(rr, k + 1))
    BY <1>7, <1>8, <1>9, MarksMore
<1>11. MarkOf(rr, k + 1) = <<s.level, s.heading>>
    BY <1>1 DEF MarkOf
<1> QED  BY <1>4, <1>5, <1>6, <1>10, <1>11

\* The headings of the open sections are the outline.
LEMMA HeadingsOpen ==
    ASSUME NEW ss, NEW k, NEW open, open = MarksOf(ss, OpenList(ss, k))
    PROVE  [i \in DOMAIN open |-> open[i][2]] = OutlineOf(ss, k)
<1>1. PICK q : q = OpenList(ss, k)
    OBVIOUS
<1>2. DOMAIN open = DOMAIN q /\ \A i \in DOMAIN q : open[i] = MarkOf(ss, q[i])
    BY <1>1 DEF MarksOf
<1>3. \A i \in DOMAIN q : open[i][2] = ss[q[i]].heading
    BY <1>2 DEF MarkOf
<1> QED  BY <1>1, <1>2, <1>3 DEF OutlineOf

\* Section s is added, and the stack is open then.
Added(ss, s, open) ==
    /\ Append(ss, s) \in Seq(Section) /\ Append(ss, s) # <<>>
    /\ Story(Append(ss, s)) = Story(ss) \o s.heading
    /\ AllPlain(Append(ss, s)) /\ Pathed(Append(ss, s))
    /\ Last(Append(ss, s)) = s
    /\ open = MarksOf(Append(ss, s), OpenList(Append(ss, s), Len(Append(ss, s))))

LEMMA SectionAdded ==
    ASSUME NEW ss \in Seq(Section), NEW s \in Section, s.paragraphs = <<>>,
           AllPlain(ss), Pathed(ss), NEW open,
           open = MarksOf(Append(ss, s), OpenList(Append(ss, s), Len(ss) + 1)),
           s.level > 0 => s.path = [i \in DOMAIN open |-> open[i][2]]
    PROVE  Added(ss, s, open)
<1>1. PICK k \in Nat : k = Len(ss)
    OBVIOUS
<1>2. PICK rr \in Seq(Section) : rr = Append(ss, s)
    BY AppendProperties
<1>3. Len(rr) = k + 1 /\ rr[k + 1] = s /\ \A i \in 1 .. k : rr[i] = ss[i]
    BY <1>1, <1>2, AppendProperties
<1>4. \A i \in 1 .. k + 1 : i \in 1 .. k \/ i = k + 1
    OBVIOUS
<1>5. Story(rr) = Story(ss) \o s.heading
  <2>1. Story(Append(ss, s)) = Story(ss) \o Told(s)
      BY StoryMore
  <2>2. Told(s) = s.heading
      BY TellHeading
  <2> QED  BY <1>2, <2>1, <2>2
<1>6. AllPlain(rr)
  <2>1. Plain(s)
      BY TellHeading
  <2> QED  BY <1>1, <1>3, <1>4, <2>1 DEF AllPlain
<1>7. Pathed(rr)
  <2>1. ASSUME NEW j \in 1 .. k, rr[j].level > 0 PROVE rr[j].path = OutlineOf(rr, j)
    <3>1. Agree(ss, rr, j)
        BY <1>3 DEF Agree
    <3>2. OutlineOf(ss, j) = OutlineOf(rr, j)
        BY <3>1, OutlineAgrees
    <3>3. ss[j].path = OutlineOf(ss, j)
        BY <1>1, <1>3, <2>1 DEF Pathed
    <3> QED  BY <1>3, <3>2, <3>3
  <2>2. s.level > 0 => s.path = OutlineOf(rr, k + 1)
      BY <1>1, <1>2, HeadingsOpen
  <2> QED  BY <1>3, <1>4, <2>1, <2>2 DEF Pathed
<1>8. Last(rr) = s /\ rr # <<>>
    BY <1>3, EmptySeq DEF Last
<1> QED  BY <1>1, <1>2, <1>3, <1>5, <1>6, <1>7, <1>8 DEF Added

\* A set of numbers that is not empty has a least one.
LEMMA LeastIn ==
    ASSUME NEW S \in SUBSET Nat, S # {} PROVE Least(S) \in S
<1>1. PICK m \in S : \A k \in S : ~(<<k, m>> \in OpToRel(<, Nat))
    BY NatLessThanWellFounded, WFMin
<1>a. \A k \in S : k \in Nat
    OBVIOUS
<1>b. \A k \in S : ~(k < m)
    BY <1>a, <1>1 DEF OpToRel
<1>2. \A k \in S : m <= k
    BY <1>a, <1>b
<1>3. \E x \in S : \A y \in S : x <= y
    BY <1>2
<1> QED  BY <1>3, Zenon DEF Least

\* A section that a body block is put into.
LEMMA LongerIs ==
    ASSUME NEW s \in Section, NEW t \in Text, NEW page \in Nat, NEW body \in BOOLEAN
    PROVE  /\ With(s, t, page, body) \in Section
           /\ [With(s, t, page, body) EXCEPT !.last = Larger(@, page)] \in Section
           /\ \E p \in Paragraph : /\ p.text = t
                                   /\ Longer(s, p, With(s, t, page, body))
                                   /\ Longer(s, p, [With(s, t, page, body) EXCEPT !.last = Larger(@, page)])
<1>1. PICK p : p = [text |-> t, page |-> page, body |-> body]
    OBVIOUS
<1>2. p \in Paragraph /\ p.text = t
    BY <1>1 DEF Paragraph
<1>3. Append(s.paragraphs, p) \in Seq(Paragraph)
    BY <1>2, AppendProperties DEF Section
<1>4. PICK r : r = With(s, t, page, body)
    OBVIOUS
<1>5. r = [s EXCEPT !.paragraphs = Append(s.paragraphs, p)]
    BY <1>1, <1>4 DEF With
<1>6. r \in Section /\ Longer(s, p, r)
    BY <1>3, <1>5 DEF Section, Longer
<1>7. PICK z : z = [r EXCEPT !.last = Larger(@, page)]
    OBVIOUS
<1>8. Larger(r.last, page) \in Nat
    BY <1>6 DEF Larger, Section
<1>9. z \in Section /\ z.heading = r.heading /\ z.level = r.level /\ z.path = r.path /\ z.paragraphs = r.paragraphs
    BY <1>6, <1>7, <1>8 DEF Section
<1>10. Longer(s, p, z)
    BY <1>6, <1>9 DEF Longer
<1> QED  BY <1>2, <1>4, <1>6, <1>7, <1>9, <1>10

-----------------------------------------------------------------------------
(* Every step keeps the invariant *)

\* The next block, and all the text up to it.
LEMMA NextBlock ==
    ASSUME SectionInv, phase = "building", at < Len(source)
    PROVE  \E b \in Block :
              /\ b = source[at + 1]
              /\ IsInjective((Story(sections) \o TextsOf(pending)) \o b.text)
              /\ (Story(sections) \o TextsOf(pending)) \o b.text = TextsOf(SubSeq(source, 1, at + 1))
<1>1. source \in Seq(Block) /\ IsInjective(TextsOf(source)) /\ at \in Nat
    BY DEF SectionInv, SectionShapes
<1>2. Story(sections) \o TextsOf(pending) = TextsOf(SubSeq(source, 1, at))
    BY DEF SectionInv, SectionLoops, Building
<1>3. \A x \in Block : x.text \in Text
    BY DEF Block
<1>4. PICK before \in Text, b \in Block : NextText(source, at, before, b) /\ IsInjective(before \o b.text)
    BY <1>1, <1>3, OneTextMore
<1> QED  BY <1>2, <1>4 DEF NextText

LEMMA TitleTexts == \A s \in Seq(Title) : TextsOf(s) \in Text
<1>1. \A b \in Title : b.text \in Seq(Word)
    BY DEF Title, Block, Text
<1> QED  BY <1>1, TextsIn DEF Text

LEMMA HeadingKeeps ==
    ASSUME SectionInv, Heading PROVE SectionInv'
<1>1. /\ phase = "building" /\ phase' = phase /\ source' = source /\ stack' = stack
      /\ sections' = sections /\ merged' = merged /\ parents' = parents
      /\ at < Len(source) /\ at \in Nat /\ at' = at + 1 /\ Len(source) \in Nat
      /\ pending \in Seq(Title) /\ sections \in Seq(Section)
      /\ source[at + 1].level > 0 /\ pending' = Append(pending, source[at + 1])
      /\ Building(source, at, pending, sections, stack)
    BY DEF Heading, SectionInv, SectionShapes, SectionLoops
<1>2. PICK b \in Block : /\ b = source[at + 1]
                         /\ (Story(sections) \o TextsOf(pending)) \o b.text = TextsOf(SubSeq(source, 1, at + 1))
    BY <1>1, NextBlock
<1>3. b \in Title
    BY <1>1, <1>2 DEF Title
<1>4. PICK v \in Text, q \in Text, t \in Text : v = Story(sections) /\ q = TextsOf(pending) /\ t = b.text
    BY <1>1, StoryIn, TitleTexts DEF Block
<1>5. TextsOf(pending') = q \o t /\ pending' \in Seq(Title)
    BY <1>1, <1>2, <1>3, <1>4, TextsMore, AppendProperties
<1>6. (v \o q) \o t = v \o (q \o t)
    BY TextAssociative, ZenonT(60)
<1>7. Building(source, at + 1, pending', sections, stack)
  <2>1. Story(sections) \o TextsOf(pending') = TextsOf(SubSeq(source, 1, at + 1))
      BY <1>2, <1>4, <1>5, <1>6
  <2>2. at + 1 <= Len(source)
      BY <1>1
  <2> QED  BY <1>1, <2>1, <2>2 DEF Building
<1>8. SectionShapes'
    BY <1>1, <1>5 DEF SectionInv, SectionShapes
<1>9. SectionLoops'
    BY <1>1, <1>7 DEF SectionInv, SectionLoops
<1>10. Pathed(sections)'
    BY <1>1 DEF SectionInv
<1> QED  BY <1>8, <1>9, <1>10 DEF SectionInv

Opens(ss, s, k) ==
    Append(Enclosing(s.level), <<s.level, s.heading>>) =
        MarksOf(Append(ss, s), OpenList(Append(ss, s), k + 1))

LEMMA HeadingOpens ==
    ASSUME NEW ss \in Seq(Section), NEW s \in Section, NEW k \in Nat, k = Len(ss), s.level > 0,
           stack = MarksOf(ss, OpenList(ss, k))
    PROVE  Opens(ss, s, k)
<1>1. PICK rr : rr = Append(ss, s)
    OBVIOUS
<1>2. Append(Enclosing(s.level), <<s.level, s.heading>>) = MarksOf(rr, OpenList(rr, k + 1))
    BY <1>1, NextOpen, ZenonT(60)
<1> QED  BY <1>1, <1>2 DEF Opens

LEMMA MarkHeadings ==
    ASSUME NEW open \in Seq(Mark) PROVE [i \in DOMAIN open |-> open[i][2]] \in Seq(Text)
<1>1. PICK d \in Nat : d = Len(open) /\ DOMAIN open = 1 .. d /\ \A i \in 1 .. d : open[i] \in Mark
    OBVIOUS
<1>2. \A i \in 1 .. d : open[i][2] \in Text
    BY <1>1 DEF Mark
<1>3. PICK q : q = [i \in DOMAIN open |-> open[i][2]]
    OBVIOUS
<1>4. q \in [1 .. d -> Text]
    BY <1>1, <1>2, <1>3
<1>5. q \in UNION {[1 .. m -> Text] : m \in Nat}
    BY <1>4
<1> QED  BY <1>3, <1>5, SeqDef, Zenon

\* The sections as Present leaves them have a last one for the block.
LEMMA PresentIs ==
    ASSUME SectionInv, phase = "building", NEW b \in Block
    PROVE  /\ Present(b).sections \in Seq(Section) /\ Present(b).sections # <<>>
           /\ Story(Present(b).sections) = Story(sections) \o TextsOf(pending)
           /\ AllPlain(Present(b).sections) /\ Pathed(Present(b).sections)
           /\ Present(b).stack = MarksOf(Present(b).sections, OpenList(Present(b).sections, Len(Present(b).sections)))
<1>1. /\ sections \in Seq(Section) /\ pending \in Seq(Title)
      /\ Building(source, at, pending, sections, stack) /\ Pathed(sections)
    BY DEF SectionInv, SectionShapes, SectionLoops
<1>2. AllPlain(sections) /\ stack = MarksOf(sections, OpenList(sections, Len(sections)))
    BY <1>1 DEF Building, AllPlain
<1>3. b.page \in Nat
    BY DEF Block
<1>4. CASE pending # <<>>
  <2>1. PICK l : l = Least(LevelsOf(pending))
      OBVIOUS
  <2>2. PICK h \in Text : h = TextsOf(pending)
      BY <1>1, TitleTexts
  <2>3. l \in Nat /\ l > 0 /\ pending[1] \in Title
    <3>1. Len(pending) \in Nat /\ Len(pending) # 0 /\ DOMAIN pending = 1 .. Len(pending)
        BY <1>1, <1>4, EmptySeq
    <3>2. 1 \in 1 .. Len(pending)
        BY <3>1
    <3>3. \A i \in 1 .. Len(pending) : pending[i] \in Title
        BY <1>1
    <3>4. \A x \in Title : x.level \in Nat /\ x.level > 0
        BY DEF Title, Block
    <3>5. LevelsOf(pending) \in SUBSET Nat /\ LevelsOf(pending) # {} /\ \A x \in LevelsOf(pending) : x > 0
        BY <3>1, <3>2, <3>3, <3>4 DEF LevelsOf
    <3> QED  BY <2>1, <3>2, <3>3, <3>5, LeastIn
  <2>4. PICK open : open = Append(Enclosing(l), <<l, h>>)
      OBVIOUS
  <2>5. PICK s : s = NewSection(h, l, [i \in DOMAIN open |-> open[i][2]], pending[1].page, b.page)
      OBVIOUS
  <2>6. Present(b) = [stack |-> open, sections |-> Append(sections, s)]
      BY <1>4, <2>1, <2>2, <2>4, <2>5, Zenon DEF Present
  <2>7. s.level = l /\ s.heading = h /\ s.paragraphs = <<>> /\ s.path = [i \in DOMAIN open |-> open[i][2]]
      BY <2>5 DEF NewSection
  <2>8. [i \in DOMAIN open |-> open[i][2]] \in Seq(Text)
    <3>1. PICK k \in Nat : k = Len(sections)
        BY <1>1
    <3>2. PICK f \in Seq(1 .. k) : f = Filtered(OpenList(sections, k), Above(sections, k, l))
        BY Numbered, FilteredIn DEF OpenList
    <3>3. Enclosing(l) = MarksOf(sections, f)
        BY <1>1, <1>2, <2>3, <3>1, <3>2, EnclosingIs
    <3>4. \A m \in 1 .. k : MarkOf(sections, m) \in Mark
      <4>1. \A m \in 1 .. k : sections[m] \in Section
          BY <1>1, <3>1
      <4>2. \A r \in Section : r.level \in Nat /\ r.heading \in Text
          BY DEF Section
      <4> QED  BY <4>1, <4>2 DEF MarkOf, Mark
    <3>5. Enclosing(l) \in Seq(Mark)
        BY <3>3, <3>4, MarksIn
    <3>6. <<l, h>> \in Mark
        BY <2>3 DEF Mark
    <3>7. open \in Seq(Mark)
        BY <2>4, <3>5, <3>6, AppendProperties
    <3> QED  BY <3>7, MarkHeadings
  <2>9. s \in Section
      BY <1>3, <2>3, <2>5, <2>8, EmptySeq DEF NewSection, Section, Title, Block
  <2>10. open = MarksOf(Append(sections, s), OpenList(Append(sections, s), Len(sections) + 1))
    <3>1. PICK k \in Nat : k = Len(sections)
        BY <1>1
    <3>2. stack = MarksOf(sections, OpenList(sections, k)) /\ s.level > 0
        BY <1>2, <2>3, <2>7, <3>1
    <3>3. Opens(sections, s, k)
        BY <1>1, <2>9, <3>1, <3>2, HeadingOpens
    <3> QED  BY <2>4, <2>7, <3>1, <3>3 DEF Opens
  <2>11. Added(sections, s, open)
      BY <1>1, <1>2, <2>7, <2>9, <2>10, SectionAdded
  <2> QED  BY <2>2, <2>6, <2>7, <2>11 DEF Added
<1>5. CASE pending = <<>> /\ sections # <<>>
  <2>1. Present(b).stack = stack /\ Present(b).sections = sections
      BY <1>5 DEF Present
  <2>2. Story(sections) \o TextsOf(pending) = Story(sections)
    <3>1. PICK v \in Text : v = Story(sections)
        BY <1>1, StoryIn
    <3>2. v \o <<>> = v
        BY TextJoins
    <3> QED  BY <1>5, <3>1, <3>2, NoTexts
  <2> QED  BY <1>1, <1>2, <1>5, <2>1, <2>2
<1>6. CASE pending = <<>> /\ sections = <<>>
  <2>1. PICK s : s = NewSection(<<>>, 0, <<>>, b.page, b.page)
      OBVIOUS
  <2>2. s.level = 0 /\ s.heading = <<>> /\ s.paragraphs = <<>>
      BY <2>1 DEF NewSection
  <2>3. s \in Section
      BY <1>3, <2>1, TextJoins, EmptySeq DEF NewSection, Section
  <2>4. PICK none \in Seq(Section) : none = <<>> /\ sections = none /\ Len(none) = 0
      BY <1>6, NoElements
  <2>5. Append(none, s) = <<s>>
      BY <2>3, <2>4, Single
  <2>6. Present(b) = [stack |-> stack, sections |-> Append(sections, s)]
      BY <1>6, <2>1, <2>4, <2>5 DEF Present
  <2>7. stack = MarksOf(Append(sections, s), OpenList(Append(sections, s), Len(sections) + 1))
    <3>1. OpenList(none, 0) = <<>>
        BY Numbered, FilteredNothing DEF OpenList
    <3>2. stack = <<>>
        BY <1>2, <2>4, <3>1 DEF MarksOf
    <3>3. PICK rr : rr = Append(none, s)
        OBVIOUS
    <3>a. rr[1] = s
      <4>1. rr[Len(none) + 1] = s
          BY <2>3, <3>3, AppendProperties
      <4> QED  BY <2>4, <4>1
    <3>4. 1 \notin OpenAt(rr, 1)
        BY <2>2, <3>a DEF OpenAt
    <3>5. PICK no \in Seq(1 .. 0) : no = Numbers(0) /\ no = <<>> /\ Numbers(1) = Append(no, 1) /\ no \in Seq(1 .. 1)
      <4>1. 0 \in Nat /\ 0 + 1 = 1
          OBVIOUS
      <4> QED  BY <4>1, Numbered
    <3>6. Filtered(Append(no, 1), OpenAt(rr, 1)) = Filtered(no, OpenAt(rr, 1))
      <4>1. 1 \in 1 .. 1
          OBVIOUS
      <4> QED  BY <3>4, <3>5, <4>1, FilteredMore
    <3>7. OpenList(rr, 1) = <<>>
        BY <3>5, <3>6, FilteredNothing DEF OpenList
    <3> QED  BY <2>4, <3>2, <3>3, <3>7 DEF MarksOf
  <2>8. Added(sections, s, stack)
    <3>1. s.level > 0 => s.path = [i \in DOMAIN stack |-> stack[i][2]]
        BY <2>2
    <3> QED  BY <1>1, <1>2, <2>2, <2>3, <2>7, <3>1, SectionAdded
  <2>9. Story(Append(sections, s)) = Story(sections) \o TextsOf(pending)
      BY <1>6, <2>2, <2>8, NoTexts DEF Added
  <2>10. Present(b).sections = Append(sections, s) /\ Present(b).stack = stack
      BY <2>6
  <2> QED  BY <2>8, <2>9, <2>10 DEF Added
<1> QED  BY <1>4, <1>5, <1>6

LEMMA BodyKeeps ==
    ASSUME SectionInv, Body PROVE SectionInv'
<1>1. /\ phase = "building" /\ phase' = phase /\ source' = source
      /\ merged' = merged /\ parents' = parents
      /\ at < Len(source) /\ at \in Nat /\ at' = at + 1 /\ Len(source) \in Nat
      /\ pending' = <<>> /\ pending' \in Seq(Title)
    BY EmptySeq DEF Body, SectionInv, SectionShapes
<1>2. PICK b \in Block : /\ b = source[at + 1]
                         /\ IsInjective((Story(sections) \o TextsOf(pending)) \o b.text)
                         /\ (Story(sections) \o TextsOf(pending)) \o b.text = TextsOf(SubSeq(source, 1, at + 1))
    BY <1>1, NextBlock
<1>3. PICK ss \in Seq(Section) : /\ ss = Present(b).sections /\ ss # <<>>
                                 /\ Story(ss) = Story(sections) \o TextsOf(pending)
                                 /\ AllPlain(ss) /\ Pathed(ss)
                                 /\ Present(b).stack = MarksOf(ss, OpenList(ss, Len(ss)))
    BY <1>1, PresentIs
<1>4. PICK s \in Section : s = Last(ss)
  <2>1. Len(ss) \in 1 .. Len(ss)
      BY <1>3, EmptySeq
  <2>2. ss[Len(ss)] \in Section
      BY <2>1
  <2> QED  BY <2>2 DEF Last
<1>5. b.text \in Text /\ b.page \in Nat
    BY DEF Block
<1>6. PICK r : r = [With(s, b.text, b.page, TRUE) EXCEPT !.last = Larger(@, b.page)]
    OBVIOUS
<1>7. r \in Section /\ \E p \in Paragraph : p.text = b.text /\ Longer(s, p, r)
    BY <1>5, <1>6, LongerIs
<1>8. PICK p \in Paragraph : p.text = b.text /\ Longer(s, p, r)
    BY <1>7
<1>9. PICK rr : rr = ReplaceAt(ss, Len(ss), r)
    OBVIOUS
<1>10. SaysMore(ss, b.text, rr)
  <2>1. IsInjective(Story(ss) \o p.text) /\ Longer(Last(ss), p, r)
      BY <1>2, <1>3, <1>4, <1>8
  <2>2. SaysMore(ss, p.text, ReplaceAt(ss, Len(ss), r))
      BY <1>3, <1>7, <2>1, LastSaysMore
  <2> QED  BY <1>8, <1>9, <2>2
<1>11. sections' = rr /\ stack' = Present(b).stack
  <2>1. sections' = ReplaceAt(Present(b).sections, Len(Present(b).sections),
                        [With(Last(Present(b).sections), b.text, b.page, TRUE) EXCEPT !.last = Larger(@, b.page)])
        /\ stack' = Present(b).stack
      BY <1>2, Zenon DEF Body
  <2> QED  BY <1>3, <1>4, <1>6, <1>9, <2>1
<1>12. /\ rr \in Seq(Section) /\ Story(rr) = TextsOf(SubSeq(source, 1, at + 1))
       /\ AllPlain(rr) /\ Pathed(rr) /\ stack' = MarksOf(rr, OpenList(rr, Len(rr)))
    BY <1>2, <1>3, <1>10, <1>11 DEF SaysMore
<1>13. Story(rr) \o TextsOf(pending') = Story(rr)
  <2>1. PICK v \in Text : v = Story(rr)
      BY <1>12, StoryIn
  <2>2. v \o <<>> = v
      BY TextJoins
  <2> QED  BY <1>1, <2>1, <2>2, NoTexts
<1>14. Building(source, at + 1, pending', rr, stack')
  <2>1. at + 1 <= Len(source)
      BY <1>1
  <2> QED  BY <1>12, <1>13, <2>1 DEF Building, AllPlain
<1>15. SectionShapes'
    BY <1>1, <1>11, <1>12 DEF SectionInv, SectionShapes
<1>16. SectionLoops'
    BY <1>1, <1>11, <1>14 DEF SectionInv, SectionLoops
<1>17. Pathed(sections')
    BY <1>11, <1>12
<1> QED  BY <1>15, <1>16, <1>17 DEF SectionInv

LEMMA EndOfBlocksKeeps ==
    ASSUME SectionInv, EndOfBlocks PROVE SectionInv'
<1>1. /\ phase = "building" /\ phase' = "merging" /\ source' = source
      /\ merged' = merged /\ parents' = parents /\ merged = <<>> /\ parents = <<>>
      /\ at = Len(source) /\ at' = 0
      /\ pending' = <<>> /\ pending' \in Seq(Title) /\ pending \in Seq(Title)
      /\ sections \in Seq(Section) /\ source \in Seq(Block) /\ IsInjective(TextsOf(source))
    BY EmptySeq DEF EndOfBlocks, SectionInv, SectionShapes, SectionLoops
<1>2. /\ Building(source, at, pending, sections, stack) /\ Pathed(sections)
    BY <1>1 DEF SectionInv, SectionLoops
<1>3. Story(sections) \o TextsOf(pending) = TextsOf(source)
    BY <1>1, <1>2, SubSeqFull DEF Building
<1>4. PICK v \in Text, h \in Text : v = Story(sections) /\ h = TextsOf(pending)
    BY <1>1, StoryIn, TitleTexts
<1>5. /\ sections' \in Seq(Section) /\ Story(sections') = v \o h
      /\ \A j \in 2 .. Len(sections') : Plain(sections'[j])
      /\ Pathed(sections')
  <2>1. CASE pending = <<>>
    <3>1. sections' = sections
        BY <2>1 DEF EndOfBlocks
    <3>2. h = <<>> /\ v \o <<>> = v
        BY <1>4, <2>1, NoTexts, TextJoins
    <3>3. \A j \in 2 .. Len(sections) : Plain(sections[j])
        BY <1>1, <1>2 DEF Building
    <3> QED  BY <1>1, <1>2, <1>4, <3>1, <3>2, <3>3
  <2>2. CASE pending # <<>>
    <3>1. PICK page : page = pending[1].page
        OBVIOUS
    <3>2. page \in Nat
      <4>1. pending[1] \in Title
        <5>1. 1 \in 1 .. Len(pending)
            BY <1>1, <2>2, EmptySeq
        <5> QED  BY <1>1, <5>1
      <4> QED  BY <3>1, <4>1 DEF Title, Block
    <3>3. CASE sections # <<>>
      <4>1. PICK s \in Section : s = Last(sections)
        <5>1. Len(sections) \in 1 .. Len(sections)
            BY <1>1, <3>3, EmptySeq
        <5>2. sections[Len(sections)] \in Section
            BY <1>1, <5>1
        <5> QED  BY <5>2 DEF Last
      <4>2. PICK r : r = With(s, h, page, FALSE)
          OBVIOUS
      <4>3. r \in Section /\ \E p \in Paragraph : p.text = h /\ Longer(s, p, r)
          BY <1>4, <3>2, <4>2, LongerIs
      <4>4. PICK p \in Paragraph : p.text = h /\ Longer(s, p, r)
          BY <4>3
      <4>5. PICK rr : rr = ReplaceAt(sections, Len(sections), r)
          OBVIOUS
      <4>6. SaysMore(sections, h, rr)
        <5>1. IsInjective(Story(sections) \o p.text) /\ Longer(Last(sections), p, r)
            BY <1>1, <1>3, <1>4, <4>1, <4>4
        <5>2. SaysMore(sections, p.text, ReplaceAt(sections, Len(sections), r))
            BY <1>1, <3>3, <4>3, <5>1, LastSaysMore
        <5> QED  BY <4>4, <4>5, <5>2
      <4>7. sections' = rr
          BY <1>4, <2>2, <3>1, <3>3, <4>1, <4>2, <4>5 DEF EndOfBlocks
      <4>8. AllPlain(sections)
          BY <1>2 DEF Building, AllPlain
      <4>9. rr \in Seq(Section) /\ Story(rr) = v \o h /\ AllPlain(rr) /\ Pathed(rr)
          BY <1>2, <1>4, <4>6, <4>8 DEF SaysMore
      <4>10. \A j \in 2 .. Len(rr) : Plain(rr[j])
          BY <4>9 DEF AllPlain
      <4> QED  BY <4>7, <4>9, <4>10
    <3>4. CASE sections = <<>>
      <4>1. PICK s : s = NewSection(h, 0, <<h>>, page, page)
          OBVIOUS
      <4>2. s.level = 0 /\ s.heading = h /\ s.paragraphs = <<>>
          BY <4>1 DEF NewSection
      <4>3. s \in Section
        <5>1. <<h>> \in Seq(Text)
            OBVIOUS
        <5> QED  BY <1>4, <3>2, <4>1, <5>1, EmptySeq DEF NewSection, Section
      <4>4. PICK r : r = With(s, h, page, FALSE)
          OBVIOUS
      <4>5. r \in Section /\ \E p \in Paragraph : p.text = h /\ Longer(s, p, r)
          BY <1>4, <3>2, <4>3, <4>4, LongerIs
      <4>6. PICK p \in Paragraph : p.text = h /\ Longer(s, p, r)
          BY <4>5
      <4>7. sections' = <<r>>
          BY <1>4, <2>2, <3>1, <3>4, <4>1, <4>4 DEF EndOfBlocks
      <4>8. PICK none \in Seq(Section) : none = <<>> /\ Len(none) = 0 /\ Append(none, r) = <<r>>
        <5>1. PICK none \in Seq(Section) : none = <<>> /\ Len(none) = 0
            BY NoElements
        <5>2. Append(none, r) = <<r>>
            BY <4>5, <5>1, Single
        <5> QED  BY <5>1, <5>2
      <4>9. r.level = 0 /\ r.heading = h /\ TextsOf(r.paragraphs) = h
        <5>1. r.level = 0 /\ r.heading = h /\ r.paragraphs = Append(s.paragraphs, p)
            BY <4>2, <4>6 DEF Longer
        <5>2. PICK no \in Seq(Paragraph) : no = <<>> /\ s.paragraphs = no
            BY <4>2, NoElements
        <5>3. TextsOf(Append(no, p)) = TextsOf(no) \o p.text
            BY <4>6, TextsMore
        <5>4. <<>> \o h = h
            BY TextJoins
        <5> QED  BY <4>6, <5>1, <5>2, <5>3, <5>4, NoTexts
      <4>10. Story(<<r>>) = v \o h
        <5>1. Story(Append(none, r)) = Story(none) \o Told(r)
            BY <4>5, <4>8, StoryMore
        <5>2. v = <<>> /\ Story(none) = <<>>
            BY <1>4, <3>4, <4>8, NoStory
        <5>3. Without(h, ToSet(h)) = <<>>
          <6>1. ToSet(h) \subseteq ToSet(h)
              OBVIOUS
          <6> QED  BY <1>4, <6>1, TextWithout
        <5>4. Told(r) = h \o <<>>
            BY <4>9, <5>3 DEF Told
        <5>5. h \o <<>> = h
            BY TextJoins
        <5> QED  BY <4>8, <5>1, <5>2, <5>4, <5>5
      <4>11. PICK rr \in Seq(Section) : rr = <<r>> /\ Len(rr) = 1 /\ rr[1] = r
        <5>1. Append(none, r) \in Seq(Section) /\ Len(Append(none, r)) = 0 + 1 /\ Append(none, r)[0 + 1] = r
            BY <4>5, <4>8, AppendProperties
        <5>2. 0 + 1 = 1
            OBVIOUS
        <5> QED  BY <4>8, <5>1, <5>2
      <4>12. Pathed(rr)
          BY <4>9, <4>11 DEF Pathed
      <4> QED  BY <4>7, <4>10, <4>11, <4>12, SMTT(30)
    <3> QED  BY <3>3, <3>4
  <2> QED  BY <2>1, <2>2
<1>6. Merging(source, 0, sections', <<>>)
  <2>1. SubSeq(sections', 1, 0) = <<>>
    <3>1. 0 \in 0 .. Len(sections')
        BY <1>5
    <3>2. PICK none \in Seq(Section) : none = SubSeq(sections', 1, 0) /\ Len(none) = 0
        BY <1>5, <3>1, Beginning
    <3> QED  BY <3>2, EmptySeq
  <2>2. 0 <= Len(sections')
      BY <1>5
  <2> QED  BY <1>3, <1>4, <1>5, <2>1, <2>2 DEF Merging
<1>7. SectionShapes'
    BY <1>1, <1>5 DEF SectionInv, SectionShapes
<1>8. SectionLoops'
    BY <1>1, <1>6 DEF SectionLoops
<1> QED  BY <1>5, <1>7, <1>8 DEF SectionInv

\* The sections ss, with what x tells at the end.
TellsAlso(ss, x, rr) == rr \in Seq(Section) /\ Story(rr) = Story(ss) \o Told(x)

LEMMA TinyFolded ==
    ASSUME NEW ms \in Seq(Section), ms # <<>>, NEW x \in Section, Plain(x),
           IsInjective(Story(ms) \o Told(x))
    PROVE  TellsAlso(ms, x, ReplaceAt(ms, Len(ms), Folded(Last(ms), x)))
<1>1. PICK u \in Seq(Section) : Before(ms, u, Section)
    BY LastReplaced
<1>2. PICK e \in Section : e = Last(ms)
    BY <1>1 DEF Before
<1>3. PICK v \in Text, t \in Text, y \in Text : v = Story(u) /\ t = Told(e) /\ y = Told(x)
    BY StoryIn, ToldIn
<1>4. Story(ms) = v \o t
  <2>1. Story(Append(u, e)) = Story(u) \o Told(e)
      BY StoryMore
  <2> QED  BY <1>1, <1>2, <1>3, <2>1 DEF Before
<1>5. v \o t \in Text /\ ToSet(t) \subseteq ToSet(v \o t) /\ ToSet(v \o t) \cap ToSet(y) = {}
  <2>1. v \o t \in Text /\ ToSet(t) \subseteq ToSet(v \o t)
      BY TextJoins
  <2>2. IsInjective((v \o t) \o y)
      BY <1>3, <1>4
  <2> QED  BY <2>1, <2>2, TextJoins
<1>6. ToSet(e.heading) \cap ToSet(Told(x)) = {}
  <2>1. ToSet(e.heading) \subseteq ToSet(t)
      BY <1>3, ToldIn
  <2> QED  BY <1>3, <1>5, <2>1
<1>7. PICK f \in Section : f = Folded(e, x) /\ Told(f) = t \o y
    BY <1>3, <1>6, TellFolded
<1>8. Story(Append(u, f)) = v \o (t \o y)
    BY <1>3, <1>7, StoryMore
<1>9. (v \o t) \o y = v \o (t \o y)
    BY TextAssociative, ZenonT(60)
<1>10. ReplaceAt(ms, Len(ms), f) = Append(u, f) /\ Append(u, f) \in Seq(Section)
    BY <1>1, AppendProperties DEF Before
<1> QED  BY <1>2, <1>3, <1>4, <1>7, <1>8, <1>9, <1>10 DEF TellsAlso

LEMMA MergeKeeps ==
    ASSUME SectionInv, Merge PROVE SectionInv'
<1>1. /\ phase = "merging" /\ phase' = phase /\ source' = source /\ pending' = pending
      /\ stack' = stack /\ sections' = sections /\ parents' = parents
      /\ at < Len(sections) /\ at \in Nat /\ at' = at + 1 /\ Len(sections) \in Nat
      /\ sections \in Seq(Section) /\ merged \in Seq(Section)
      /\ IsInjective(TextsOf(source)) /\ Merging(source, at, sections, merged)
    BY DEF Merge, SectionInv, SectionShapes, SectionLoops
<1>2. Story(sections) = TextsOf(source) /\ Story(merged) = Story(SubSeq(sections, 1, at))
    BY <1>1 DEF Merging
<1>3. PICK before \in Text, x \in Section :
          NextTold(sections, at, before, x) /\ IsInjective(before \o Told(x))
    BY <1>1, <1>2, OneTaleMore
<1>4. /\ before = Story(merged) /\ x = sections[at + 1]
      /\ Story(SubSeq(sections, 1, at + 1)) = before \o Told(x)
    BY <1>2, <1>3 DEF NextTold
<1>5. TellsAlso(merged, x, merged')
  <2>1. CASE merged # <<>> /\ Size(x) < SectionMin
    <3>1. at + 1 \in 2 .. Len(sections)
        BY <1>1, <2>1 DEF Merging
    <3>2. Plain(x)
        BY <1>1, <1>4, <3>1 DEF Merging
    <3>3. TellsAlso(merged, x, ReplaceAt(merged, Len(merged), Folded(Last(merged), x)))
        BY <1>1, <1>3, <1>4, <2>1, <3>2, TinyFolded
    <3>4. merged' = ReplaceAt(merged, Len(merged), Folded(Last(merged), x))
        BY <1>4, <2>1 DEF Merge
    <3> QED  BY <3>3, <3>4
  <2>2. CASE ~(merged # <<>> /\ Size(x) < SectionMin)
    <3>1. merged' = Append(merged, x)
        BY <1>4, <2>2 DEF Merge
    <3>2. Story(Append(merged, x)) = Story(merged) \o Told(x)
        BY <1>1, StoryMore
    <3>3. Append(merged, x) \in Seq(Section)
        BY <1>1, AppendProperties
    <3> QED  BY <3>1, <3>2, <3>3 DEF TellsAlso
  <2> QED  BY <2>1, <2>2
<1>6. Merging(source, at + 1, sections, merged')
  <2>1. at + 1 <= Len(sections) /\ at + 1 # 0
      BY <1>1
  <2> QED  BY <1>1, <1>4, <1>5, <2>1 DEF Merging, TellsAlso
<1>7. SectionShapes'
    BY <1>1, <1>5 DEF SectionInv, SectionShapes, TellsAlso
<1>8. SectionLoops'
    BY <1>1, <1>6 DEF SectionInv, SectionLoops
<1>9. Pathed(sections')
    BY <1>1 DEF SectionInv
<1> QED  BY <1>7, <1>8, <1>9 DEF SectionInv

LEMMA BeginsEmpty == ASSUME NEW T, NEW s \in Seq(T) PROVE SubSeq(s, 1, 0) = <<>>
<1>1. 0 \in 0 .. Len(s)
    OBVIOUS
<1> QED  BY <1>1, Beginning

LEMMA EndOfMergeKeeps ==
    ASSUME SectionInv, EndOfMerge PROVE SectionInv'
<1>1. /\ phase = "merging" /\ phase' = "splitting" /\ source' = source /\ pending' = pending
      /\ stack' = stack /\ sections' = sections /\ merged' = merged /\ parents' = parents
      /\ at = Len(sections) /\ at' = 0 /\ parents = <<>>
      /\ sections \in Seq(Section) /\ merged \in Seq(Section)
      /\ Merging(source, at, sections, merged)
    BY DEF EndOfMerge, SectionInv, SectionShapes, SectionLoops
<1>2. Story(merged) = TextsOf(source)
    BY <1>1, SubSeqFull DEF Merging
<1>3. Splitting(source, 0, merged, parents)
  <2>1. SubSeq(merged, 1, 0) = <<>>
      BY <1>1, BeginsEmpty
  <2>2. StoredOf(parents) = Story(SubSeq(merged, 1, 0))
      BY <1>1, <2>1, NoStory, NothingStored
  <2>3. 0 <= Len(merged)
      BY <1>1
  <2> QED  BY <1>2, <2>2, <2>3 DEF Splitting
<1>4. SectionShapes'
    BY <1>1 DEF SectionInv, SectionShapes
<1>5. SectionLoops'
    BY <1>1, <1>3 DEF SectionLoops
<1> QED  BY <1>1, <1>4, <1>5 DEF SectionInv

LEMMA SplitKeeps ==
    ASSUME SectionInv, Split PROVE SectionInv'
<1>1. /\ phase = "splitting" /\ phase' = phase /\ source' = source /\ pending' = pending
      /\ stack' = stack /\ sections' = sections /\ merged' = merged
      /\ at < Len(merged) /\ at \in Nat /\ at' = at + 1 /\ Len(merged) \in Nat
      /\ merged \in Seq(Section) /\ parents \in Seq(Parent)
      /\ IsInjective(TextsOf(source)) /\ Splitting(source, at, merged, parents)
    BY DEF Split, SectionInv, SectionShapes, SectionLoops
<1>2. Story(merged) = TextsOf(source) /\ StoredOf(parents) = Story(SubSeq(merged, 1, at))
    BY <1>1 DEF Splitting
<1>3. PICK before \in Text, x \in Section :
          NextTold(merged, at, before, x) /\ IsInjective(before \o Told(x))
    BY <1>1, <1>2, OneTaleMore
<1>4. /\ before = StoredOf(parents) /\ x = merged[at + 1]
      /\ Story(SubSeq(merged, 1, at + 1)) = before \o Told(x)
    BY <1>2, <1>3 DEF NextTold
<1>5. parents' = parents \o Parts(x)
    BY <1>4 DEF Split
<1>6. parents \in Seq(Section)
  <2>1. Parent \subseteq Section
      BY DEF Parent
  <2> QED  BY <1>1, <2>1, SeqMonotonic
<1>7. ToSet(x.heading) \cap ToSet(StoredOf(parents)) = {}
  <2>1. PICK t \in Text : t = Told(x) /\ ToSet(x.heading) \subseteq ToSet(t)
      BY ToldIn
  <2>2. ToSet(before) \cap ToSet(t) = {}
      BY <1>3, <2>1, TextJoins
  <2> QED  BY <1>4, <2>1, <2>2
<1>8. StoredOf(parents') = StoredOf(parents) \o Told(x)
    BY <1>5, <1>6, <1>7, SplitStored
<1>9. parents' \in Seq(Parent)
  <2>1. Parts(x) \in Seq(Parent)
    <3>1. PartOf(x) \subseteq Parent
        BY DEF PartOf, Parent
    <3>2. Parts(x) \in Seq(PartOf(x))
        BY PartsIn
    <3> QED  BY <3>1, <3>2, SeqMonotonic
  <2> QED  BY <1>1, <1>5, <2>1, ConcatProperties
<1>10. Splitting(source, at + 1, merged, parents')
  <2>1. at + 1 <= Len(merged)
      BY <1>1
  <2> QED  BY <1>2, <1>4, <1>8, <2>1 DEF Splitting
<1>11. SectionShapes'
    BY <1>1, <1>9 DEF SectionInv, SectionShapes
<1>12. SectionLoops'
    BY <1>1, <1>10 DEF SectionInv, SectionLoops
<1> QED  BY <1>1, <1>11, <1>12 DEF SectionInv

LEMMA EndOfSplitKeeps ==
    ASSUME SectionInv, EndOfSplit PROVE SectionInv'
<1>1. /\ phase = "splitting" /\ phase' = "built" /\ source' = source /\ pending' = pending
      /\ stack' = stack /\ sections' = sections /\ merged' = merged /\ parents' = parents
      /\ at = Len(merged) /\ at' = 0 /\ merged \in Seq(Section)
      /\ Splitting(source, at, merged, parents)
    BY DEF EndOfSplit, SectionInv, SectionShapes, SectionLoops
<1>2. StoredOf(parents) = TextsOf(source)
    BY <1>1, SubSeqFull DEF Splitting
<1>3. SectionShapes'
    BY <1>1 DEF SectionInv, SectionShapes
<1>4. SectionLoops'
    BY <1>1, <1>2 DEF SectionLoops
<1> QED  BY <1>1, <1>3, <1>4 DEF SectionInv

LEMMA BeginKeeps ==
    ASSUME SectionInv, NEW found \in Seq(Block), IsInjective(TextsOf(found)), Begin(found)
    PROVE  SectionInv'
<1>1. /\ phase = "idle" /\ phase' = "building" /\ source' = found /\ pending' = pending
      /\ stack' = stack /\ sections' = sections /\ merged' = merged /\ parents' = parents
      /\ at' = at /\ at = 0 /\ pending = <<>> /\ stack = <<>> /\ sections = <<>>
      /\ merged = <<>> /\ parents = <<>>
    BY DEF Begin, SectionInv, SectionLoops
<1>2. Building(found, 0, <<>>, <<>>, <<>>)
  <2>1. Story(<<>>) \o TextsOf(<<>>) = TextsOf(SubSeq(found, 1, 0))
    <3>1. SubSeq(found, 1, 0) = <<>>
        BY BeginsEmpty
    <3>2. <<>> \o <<>> = <<>>
        BY TextJoins
    <3> QED  BY <3>1, <3>2, NoStory, NoTexts
  <2>2. PICK none \in Seq(Section) : none = <<>> /\ Len(none) = 0
      BY NoElements
  <2>3. MarksOf(none, OpenList(none, 0)) = <<>>
    <3>1. OpenList(none, 0) = <<>>
        BY Numbered, FilteredNothing DEF OpenList
    <3> QED  BY <3>1 DEF MarksOf
  <2>4. 0 <= Len(found) /\ \A j \in 1 .. Len(none) : Plain(none[j])
      BY <2>2
  <2> QED  BY <2>1, <2>2, <2>3, <2>4 DEF Building
<1>3. SectionShapes'
    BY <1>1 DEF SectionInv, SectionShapes
<1>4. SectionLoops'
    BY <1>1, <1>2 DEF SectionLoops
<1> QED  BY <1>1, <1>3, <1>4 DEF SectionInv

LEMMA SectionsStay ==
    ASSUME SectionInv, UNCHANGED sectionVars PROVE SectionInv'
<1>1. /\ phase' = phase /\ source' = source /\ pending' = pending /\ at' = at
      /\ stack' = stack /\ sections' = sections /\ merged' = merged /\ parents' = parents
    BY DEF sectionVars
<1>2. SectionShapes'
    BY <1>1 DEF SectionInv, SectionShapes
<1>3. SectionLoops'
    BY <1>1 DEF SectionInv, SectionLoops
<1> QED  BY <1>1, <1>2, <1>3 DEF SectionInv

LEMMA SectionsInit == SectionsIdle => SectionInv
<1> SUFFICES ASSUME SectionsIdle PROVE SectionInv
    OBVIOUS
<1>1. /\ phase = "idle" /\ source = <<>> /\ at = 0 /\ pending = <<>> /\ stack = <<>>
      /\ sections = <<>> /\ merged = <<>> /\ parents = <<>>
    BY DEF SectionsIdle
<1>2. IsInjective(TextsOf(<<>>))
    BY NoTexts, NoElements
<1>3. SectionShapes
    BY <1>1, <1>2, EmptySeq DEF SectionShapes
<1>4. SectionLoops
    BY <1>1 DEF SectionLoops
<1>5. PICK none \in Seq(Section) : none = <<>> /\ Len(none) = 0
    BY NoElements
<1>6. Pathed(sections)
    BY <1>1, <1>5 DEF Pathed
<1> QED  BY <1>3, <1>4, <1>6 DEF SectionInv

LEMMA SectionsKept == SectionInv /\ (SectionNext \/ UNCHANGED sectionVars) => SectionInv'
BY HeadingKeeps, BodyKeeps, EndOfBlocksKeeps, MergeKeeps, EndOfMergeKeeps, SplitKeeps,
   EndOfSplitKeeps, SectionsStay DEF SectionNext

\* What the invariant says of the sections.
LEMMA SectionsImply ==
    SectionInv => SectionsKeepTheText /\ PathsFollowTheOutline /\ ParentsAreCapped
<1> SUFFICES ASSUME SectionInv PROVE SectionsKeepTheText /\ PathsFollowTheOutline /\ ParentsAreCapped
    OBVIOUS
<1>1. SectionsKeepTheText
    BY StoredFold DEF SectionInv, SectionLoops, SectionsKeepTheText
<1>2. sections \in Seq(Section) /\ parents \in Seq(Parent)
    BY DEF SectionInv, SectionShapes
<1>3. PathsFollowTheOutline
  <2>1. ASSUME NEW k \in DOMAIN sections, sections[k].level > 0 PROVE sections[k].path = Outline(k)
    <3>1. k \in 1 .. Len(sections)
        BY <1>2
    <3>2. sections[k].path = OutlineOf(sections, k)
        BY <2>1, <3>1 DEF SectionInv, Pathed
    <3> QED  BY <3>2, OutlineIs
  <2> QED  BY <2>1 DEF PathsFollowTheOutline
<1>4. ParentsAreCapped
  <2>1. ASSUME NEW k \in DOMAIN parents PROVE parents[k] \in Parent
      BY <1>2
  <2> QED  BY <2>1 DEF ParentsAreCapped, Parent, Capped
<1> QED  BY <1>1, <1>3, <1>4

-----------------------------------------------------------------------------
(* The inductive invariant of Parsing *)

\* The file is a parameter here, so that the definitions say the same before
\* and after a step.
KeyIn(f, i) == <<f.lines[i].page, f.lines[i].block>>
WordOf(f, i) == <<i, f.lines[i].tokens>>
FencesIn(f, i) == Cardinality({j \in 1 .. i - 1 : f.lines[j].kind = "fence"})
InCodeOf(f, i) == f.format = "md" /\ FencesIn(f, i) % 2 = 1
IsRead(f, i) == f.lines[i].kind \notin {"fence", "blank"}
Keyed(f) == f.format \in {"pdf", "txt"}

\* Line i fits block b, whose first line is the line o.
Suits(f, b, i, o) ==
    /\ IF b.level > 0
       THEN f.lines[i].level = b.level /\ ~InCodeOf(f, i) /\ KeyIn(f, i) = KeyIn(f, o)
       ELSE f.lines[i].level > 0 => InCodeOf(f, i) \/ f.format = "txt"
    /\ Keyed(f) => KeyIn(f, i) = KeyIn(f, o)

Pure(f, b) == \A j \in DOMAIN b.text : Suits(f, b, b.text[j][1], b.text[1][1])

\* The blocks found, each with a text, are made of the first k lines, each once.
Words(f, ls, k) == {WordOf(f, ls[m]) : m \in {m \in 1 .. k : IsRead(f, ls[m])}}
Gathered(f, ls, k, found) ==
    /\ found \in Seq(Block)
    /\ \A j \in 1 .. Len(found) : found[j].text # <<>> /\ Pure(f, found[j])
    /\ IsInjective(TextsOf(found)) /\ ToSet(TextsOf(found)) = Words(f, ls, k)

Rising(s) == \A i, j \in DOMAIN s : i < j => s[i] < s[j]

ParseShapes ==
    /\ outcome \in {"new", "reading", "parsed", "ParseError", "StatisticsError"}
    /\ lines \in Seq(1 .. Len(file.lines)) /\ Rising(lines)
    /\ seen \in 0 .. Len(lines)
    /\ blocks \in Seq(Block) /\ para \in Text /\ paraPage \in Nat

\* What a parser knows in its loop of the line before.
Remembers(f, ls, k, found, page, key, code, open) ==
    /\ Keyed(f) =>
        /\ IF k = 0 THEN key = <<0, 0>> /\ found = <<>> ELSE key = KeyIn(f, ls[k])
        /\ found # <<>> => KeyIn(f, Last(found).text[1][1]) = key
    /\ f.format # "pdf" => ls = Numbers(Len(f.lines))
    /\ f.format = "md" => page = 1 /\ (code <=> FencesIn(f, k + 1) % 2 = 1)
    /\ f.format = "docx" => open = <<>>

ParseInv ==
    /\ file \in Files
    /\ ParseShapes
    /\ Gathered(file, lines, seen, Flushed)
    /\ outcome = "new" => /\ lines = <<>> /\ seen = 0 /\ blocks = <<>> /\ para = <<>>
                          /\ paraPage = 1 /\ lastKey = <<0, 0>> /\ ~inCode
    /\ outcome = "reading" => Remembers(file, lines, seen, Flushed, paraPage, lastKey, inCode, para)
    /\ outcome = "parsed" => seen = Len(lines) /\ para = <<>>

\* A list of numbers that only rises has no repetition, and neither loses that
\* when it is filtered.
LEMMA RisingIsInjective ==
    ASSUME NEW T \in SUBSET Nat, NEW s \in Seq(T), Rising(s) PROVE IsInjective(s)
<1>1. PICK k \in Nat : k = Len(s) /\ DOMAIN s = 1 .. k /\ \A i \in 1 .. k : s[i] \in Nat
    BY Elements
<1>2. ASSUME NEW i \in 1 .. k, NEW j \in 1 .. k, s[i] = s[j] PROVE i = j
  <2>1. ~(i < j) /\ ~(j < i)
      BY <1>1, <1>2 DEF Rising
  <2> QED  BY <1>1, <2>1
<1> QED  BY <1>1, <1>2 DEF IsInjective

LEMMA RisingFiltered ==
    ASSUME NEW T \in SUBSET Nat, NEW S
    PROVE  \A s \in Seq(T) : Rising(s) => Rising(Filtered(s, S))
<1> DEFINE A == {s \in Seq(T) : Rising(s) => Rising(Filtered(s, S))}
<1>1. <<>> \in A
  <2>1. Rising(<<>>)
      BY DEF Rising
  <2> QED  BY <2>1, EmptySeq, FilteredNothing
<1>2. ASSUME NEW s \in Seq(T), NEW x \in T, s \in A PROVE Append(s, x) \in A
  <2>1. PICK w \in Seq(T) : w = Append(s, x)
      BY AppendProperties
  <2>2. PICK k \in Nat : k = Len(s) /\ DOMAIN s = 1 .. k
      BY Elements
  <2>3. DOMAIN w = 1 .. k + 1 /\ w[k + 1] = x /\ \A i \in 1 .. k : w[i] = s[i]
      BY <2>1, <2>2, AppendProperties
  <2>4. SUFFICES ASSUME Rising(w) PROVE Rising(Filtered(w, S))
      BY <2>1
  <2>5. Rising(s) /\ \A i \in 1 .. k : s[i] < x
    <3>1. ASSUME NEW i \in 1 .. k, NEW j \in 1 .. k, i < j PROVE s[i] < s[j]
      <4>1. w[i] < w[j]
          BY <2>3, <2>4, <3>1 DEF Rising
      <4> QED  BY <2>3, <4>1
    <3>2. ASSUME NEW i \in 1 .. k PROVE s[i] < x
      <4>1. i < k + 1 /\ i \in DOMAIN w /\ k + 1 \in DOMAIN w
          BY <2>3
      <4>2. w[i] < w[k + 1]
          BY <2>4, <4>1 DEF Rising
      <4> QED  BY <2>3, <4>2
    <3> QED  BY <2>2, <3>1, <3>2 DEF Rising
  <2>6. PICK f \in Seq(T) : f = Filtered(s, S) /\ ToSet(f) = ToSet(s) \cap S
      BY FilteredIn
  <2>7. Rising(f)
      BY <1>2, <2>5, <2>6
  <2>8. CASE x \in S
    <3>1. PICK v \in Seq(T) : v = Append(f, x) /\ Filtered(w, S) = v
        BY <2>1, <2>6, <2>8, FilteredMore, AppendProperties
    <3>2. PICK m \in Nat : m = Len(f) /\ DOMAIN f = 1 .. m
        BY Elements
    <3>3. DOMAIN v = 1 .. m + 1 /\ v[m + 1] = x /\ \A i \in 1 .. m : v[i] = f[i]
        BY <3>1, <3>2, AppendProperties
    <3>4. \A i \in 1 .. m : f[i] < x
      <4>1. ASSUME NEW i \in 1 .. m PROVE f[i] < x
        <5>1. f[i] \in ToSet(f)
            BY <3>2 DEF ToSet
        <5>2. f[i] \in ToSet(s)
            BY <2>6, <5>1
        <5>3. \E j \in 1 .. k : s[j] = f[i]
            BY <2>2, <5>2 DEF ToSet
        <5> QED  BY <2>5, <5>3
      <4> QED  BY <4>1
    <3>5. ASSUME NEW i \in 1 .. m + 1, NEW j \in 1 .. m + 1, i < j PROVE v[i] < v[j]
      <4>1. i \in 1 .. m
          BY <3>2, <3>5
      <4>2. CASE j = m + 1
          BY <3>3, <3>4, <4>1, <4>2
      <4>3. CASE j \in 1 .. m
        <5>1. f[i] < f[j]
            BY <2>7, <3>2, <3>5, <4>1, <4>3 DEF Rising
        <5> QED  BY <3>3, <4>1, <4>3, <5>1
      <4> QED  BY <3>2, <4>2, <4>3
    <3>6. Rising(v)
        BY <3>3, <3>5 DEF Rising
    <3> QED  BY <3>1, <3>6
  <2>9. CASE x \notin S
    <3>1. Filtered(w, S) = f
        BY <2>1, <2>6, <2>9, FilteredMore
    <3> QED  BY <2>7, <3>1
  <2> QED  BY <2>8, <2>9
<1>3. \A s \in Seq(T) : s \in A
  <2> HIDE DEF A
  <2> QED  BY <1>1, <1>2, Filters!SeqsOfSet
<1> QED  BY <1>3

LEMMA RisingNumbers == ASSUME NEW k \in Nat PROVE Rising(Numbers(k))
BY DEF Rising, Numbers

-----------------------------------------------------------------------------
(* A block that is new, or longer by a line *)

LEMMA PureBegins ==
    ASSUME NEW f, NEW b \in Block, NEW w \in Word, b.text = <<w>>,
           Suits(f, b, w[1], w[1])
    PROVE  Pure(f, b) /\ b.text # <<>>
<1>1. DOMAIN b.text = {1} /\ b.text[1] = w
    OBVIOUS
<1>2. b.text # <<>>
    BY <1>1
<1> QED  BY <1>1, <1>2 DEF Pure

\* Block b with word w at the end.
LongerBy(b, w) == [b EXCEPT !.text = Append(@, w)]

LEMMA PureGoesOn ==
    ASSUME NEW f, NEW b \in Block, b.text # <<>>, NEW w \in Word,
           Pure(f, b), Suits(f, b, w[1], b.text[1][1])
    PROVE  /\ LongerBy(b, w) \in Block /\ LongerBy(b, w).text = Append(b.text, w)
           /\ Pure(f, LongerBy(b, w)) /\ LongerBy(b, w).text # <<>>
<1>1. PICK r : r = LongerBy(b, w)
    OBVIOUS
<1>2. PICK t \in Text : t = b.text /\ t # <<>>
    BY DEF Block
<1>3. PICK u \in Text : u = Append(t, w)
    BY AppendProperties DEF Text
<1>4. r.text = u /\ r.level = b.level /\ r.page = b.page /\ r \in Block
    BY <1>1, <1>2, <1>3 DEF LongerBy, Block
<1>5. PICK k \in Nat : k = Len(t) /\ DOMAIN t = 1 .. k /\ k # 0
    BY <1>2, EmptySeq, Elements DEF Text
<1>6. DOMAIN u = 1 .. k + 1 /\ u[k + 1] = w /\ \A j \in 1 .. k : u[j] = t[j]
    BY <1>2, <1>3, <1>5, AppendProperties DEF Text
<1>7. u[1] = t[1] /\ u # <<>>
  <2>1. 1 \in 1 .. k /\ 1 \in DOMAIN u
      BY <1>5, <1>6
  <2> QED  BY <1>6, <2>1
<1>8. \A i, o : Suits(f, b, i, o) => Suits(f, r, i, o)
    BY <1>4 DEF Suits
<1>9. \A j \in 1 .. k + 1 : Suits(f, r, u[j][1], u[1][1])
  <2>1. \A j \in 1 .. k : Suits(f, b, t[j][1], t[1][1])
      BY <1>2, <1>5 DEF Pure
  <2>2. Suits(f, b, w[1], t[1][1])
      BY <1>2
  <2>3. \A j \in 1 .. k + 1 : j \in 1 .. k \/ j = k + 1
      BY <1>5
  <2> QED  BY <1>6, <1>7, <1>8, <2>1, <2>2, <2>3
<1>10. Pure(f, r)
    BY <1>4, <1>6, <1>9 DEF Pure
<1> QED  BY <1>1, <1>2, <1>3, <1>4, <1>7, <1>10

-----------------------------------------------------------------------------
(* A line more is gathered *)

LEMMA WordsMore ==
    ASSUME NEW f, NEW ls \in Seq(Nat), NEW k \in Nat, k < Len(ls)
    PROVE  /\ IsRead(f, ls[k + 1]) => Words(f, ls, k + 1) = Words(f, ls, k) \cup {WordOf(f, ls[k + 1])}
           /\ ~IsRead(f, ls[k + 1]) => Words(f, ls, k + 1) = Words(f, ls, k)
           /\ Rising(ls) => WordOf(f, ls[k + 1]) \notin Words(f, ls, k)
<1>1. PICK d \in Nat : d = Len(ls) /\ DOMAIN ls = 1 .. d /\ k + 1 \in 1 .. d /\ \A i \in 1 .. d : ls[i] \in Nat
    BY Elements
<1> DEFINE R(j) == {m \in 1 .. j : IsRead(f, ls[m])}
<1>2. /\ IsRead(f, ls[k + 1]) => R(k + 1) = R(k) \cup {k + 1}
      /\ ~IsRead(f, ls[k + 1]) => R(k + 1) = R(k)
    OBVIOUS
<1>3. \A j : Words(f, ls, j) = {WordOf(f, ls[m]) : m \in R(j)}
    BY DEF Words
<1>4. ASSUME Rising(ls) PROVE WordOf(f, ls[k + 1]) \notin Words(f, ls, k)
  <2>1. ASSUME NEW m \in R(k) PROVE WordOf(f, ls[m]) # WordOf(f, ls[k + 1])
    <3>1. m \in 1 .. d /\ m < k + 1
        BY <1>1
    <3>2. ls[m] < ls[k + 1] /\ ls[m] \in Nat /\ ls[k + 1] \in Nat
        BY <1>1, <1>4, <3>1 DEF Rising
    <3>3. ls[m] # ls[k + 1]
        BY <3>2
    <3> QED  BY <3>3 DEF WordOf
  <2> QED  BY <1>3, <2>1
<1>5. IsRead(f, ls[k + 1]) => Words(f, ls, k + 1) = Words(f, ls, k) \cup {WordOf(f, ls[k + 1])}
  <2>1. SUFFICES ASSUME IsRead(f, ls[k + 1]) PROVE Words(f, ls, k + 1) = Words(f, ls, k) \cup {WordOf(f, ls[k + 1])}
      OBVIOUS
  <2>2. Words(f, ls, k + 1) = {WordOf(f, ls[m]) : m \in R(k + 1)} /\ Words(f, ls, k) = {WordOf(f, ls[m]) : m \in R(k)}
      BY DEF Words
  <2>3. R(k + 1) = R(k) \cup {k + 1}
      BY <1>2, <2>1
  <2> HIDE DEF R
  <2>4. {WordOf(f, ls[m]) : m \in R(k) \cup {k + 1}} = {WordOf(f, ls[m]) : m \in R(k)} \cup {WordOf(f, ls[k + 1])}
      OBVIOUS
  <2> QED  BY <2>2, <2>3, <2>4
<1>6. ~IsRead(f, ls[k + 1]) => Words(f, ls, k + 1) = Words(f, ls, k)
  <2>1. SUFFICES ASSUME ~IsRead(f, ls[k + 1]) PROVE Words(f, ls, k + 1) = Words(f, ls, k)
      OBVIOUS
  <2>2. R(k + 1) = R(k)
      BY <1>2, <2>1
  <2> QED  BY <2>2 DEF Words
<1> QED  BY <1>4, <1>5, <1>6

\* The first line of a block.
Opening(b) == b.text[1][1]

LEMMA GatheredMore ==
    ASSUME NEW f, NEW ls \in Seq(Nat), Rising(ls), NEW k \in Nat, k < Len(ls),
           NEW found, Gathered(f, ls, k, found), IsRead(f, ls[k + 1]),
           NEW w \in Word, w = WordOf(f, ls[k + 1]),
           NEW b \in Block, b.text = <<w>>, Suits(f, b, ls[k + 1], ls[k + 1])
    PROVE  Gathered(f, ls, k + 1, Append(found, b))
<1>1. found \in Seq(Block) /\ IsInjective(TextsOf(found)) /\ ToSet(TextsOf(found)) = Words(f, ls, k)
    BY DEF Gathered
<1>2. PICK g \in Seq(Block) : g = Append(found, b)
    BY <1>1, AppendProperties
<1>3. PICK d \in Nat : d = Len(found) /\ Len(g) = d + 1 /\ g[d + 1] = b /\ \A j \in 1 .. d : g[j] = found[j]
    BY <1>1, <1>2, AppendProperties
<1>4. w[1] = ls[k + 1]
    BY DEF WordOf
<1>5. Pure(f, b) /\ b.text # <<>>
    BY <1>4, PureBegins
<1>6. \A j \in 1 .. d + 1 : g[j].text # <<>> /\ Pure(f, g[j])
  <2>1. \A j \in 1 .. d : found[j].text # <<>> /\ Pure(f, found[j])
      BY <1>3 DEF Gathered
  <2>2. \A j \in 1 .. d + 1 : j \in 1 .. d \/ j = d + 1
      OBVIOUS
  <2> QED  BY <1>3, <1>5, <2>1, <2>2
<1>7. PICK t \in Text : t = TextsOf(found)
  <2>1. \A x \in Block : x.text \in Seq(Word)
      BY DEF Block, Text
  <2> QED  BY <1>1, <2>1, TextsIn DEF Text
<1>8. TextsOf(g) = Append(t, w)
  <2>1. TextsOf(g) = t \o <<w>>
      BY <1>1, <1>2, <1>7, TextsMore
  <2>2. t \o <<w>> = Append(t, w)
      BY <1>7, AppendIsConcat DEF Text
  <2> QED  BY <2>1, <2>2
<1>9. w \notin Words(f, ls, k) /\ Words(f, ls, k + 1) = Words(f, ls, k) \cup {w}
    BY WordsMore
<1>10. IsInjective(TextsOf(g)) /\ ToSet(TextsOf(g)) = Words(f, ls, k + 1)
  <2>1. IsInjective(t) /\ w \notin ToSet(t)
      BY <1>1, <1>7, <1>9
  <2>2. IsInjective(Append(t, w)) /\ ToSet(Append(t, w)) = ToSet(t) \cup {w}
      BY <2>1, OneMore DEF Text
  <2> QED  BY <1>1, <1>7, <1>8, <1>9, <2>2
<1> QED  BY <1>2, <1>3, <1>6, <1>10 DEF Gathered

LEMMA GatheredLonger ==
    ASSUME NEW f, NEW ls \in Seq(Nat), Rising(ls), NEW k \in Nat, k < Len(ls),
           NEW found, Gathered(f, ls, k, found), IsRead(f, ls[k + 1]), found # <<>>,
           NEW w \in Word, w = WordOf(f, ls[k + 1]),
           Suits(f, Last(found), ls[k + 1], Opening(Last(found)))
    PROVE  Gathered(f, ls, k + 1, ReplaceAt(found, Len(found), LongerBy(Last(found), w)))
<1>1. found \in Seq(Block) /\ IsInjective(TextsOf(found)) /\ ToSet(TextsOf(found)) = Words(f, ls, k)
    BY DEF Gathered
<1>2. PICK u \in Seq(Block) : Before(found, u, Block)
    BY <1>1, LastReplaced
<1>3. PICK b \in Block : b = Last(found)
    BY <1>2 DEF Before
<1>4. found = Append(u, b)
    BY <1>2, <1>3 DEF Before
<1>5. PICK d \in Nat : d = Len(u) /\ Len(found) = d + 1 /\ found[d + 1] = b /\ \A j \in 1 .. d : found[j] = u[j]
    BY <1>4, AppendProperties
<1>6. w[1] = ls[k + 1]
    BY DEF WordOf
<1>7. b.text # <<>> /\ Pure(f, b)
  <2>1. d + 1 \in 1 .. Len(found)
      BY <1>5
  <2> QED  BY <1>5, <2>1 DEF Gathered
<1>8. PICK r \in Block : /\ r = LongerBy(b, w) /\ r.text = Append(b.text, w)
                         /\ Pure(f, r) /\ r.text # <<>>
    BY <1>3, <1>6, <1>7, PureGoesOn, SMTT(30) DEF Opening
<1>9. PICK g \in Seq(Block) : g = Append(u, r) /\ ReplaceAt(found, Len(found), r) = g
  <2>1. PICK g \in Seq(Block) : g = Append(u, r)
      BY AppendProperties
  <2>2. ReplaceAt(found, Len(found), r) = Append(u, r)
      BY <1>2 DEF Before
  <2> QED  BY <2>1, <2>2
<1>10. Len(g) = d + 1 /\ g[d + 1] = r /\ \A j \in 1 .. d : g[j] = u[j]
    BY <1>5, <1>9, AppendProperties
<1>11. \A j \in 1 .. d + 1 : g[j].text # <<>> /\ Pure(f, g[j])
  <2>1. \A j \in 1 .. d : found[j].text # <<>> /\ Pure(f, found[j])
      BY <1>5 DEF Gathered
  <2>2. \A j \in 1 .. d + 1 : j \in 1 .. d \/ j = d + 1
      OBVIOUS
  <2> QED  BY <1>5, <1>8, <1>10, <2>1, <2>2
<1>12. PICK t \in Text, v \in Text : t = TextsOf(u) /\ v = b.text
  <2>1. \A x \in Block : x.text \in Seq(Word)
      BY DEF Block, Text
  <2>2. TextsOf(u) \in Text /\ b.text \in Text
      BY <2>1, TextsIn DEF Text
  <2> QED  BY <2>2
<1>13. TextsOf(found) = t \o v
    BY <1>4, <1>12, TextsMore
<1>14. TextsOf(g) = Append(t \o v, w)
  <2>1. TextsOf(g) = t \o Append(v, w)
      BY <1>8, <1>9, <1>12, TextsMore
  <2>2. t \o Append(v, w) = Append(t \o v, w)
      BY JoinAppend, SMTT(30) DEF Text
  <2> QED  BY <2>1, <2>2
<1>15. w \notin Words(f, ls, k) /\ Words(f, ls, k + 1) = Words(f, ls, k) \cup {w}
    BY WordsMore
<1>16. IsInjective(TextsOf(g)) /\ ToSet(TextsOf(g)) = Words(f, ls, k + 1)
  <2>1. PICK z \in Text : z = t \o v
      BY TextJoins
  <2>2. IsInjective(z) /\ ToSet(z) = Words(f, ls, k)
      BY <1>1, <1>13, <2>1
  <2>3. IsInjective(Append(z, w)) /\ ToSet(Append(z, w)) = ToSet(z) \cup {w}
      BY <1>15, <2>2, OneMore DEF Text
  <2> QED  BY <1>14, <1>15, <2>1, <2>2, <2>3
<1> QED  BY <1>3, <1>8, <1>9, <1>10, <1>11, <1>16 DEF Gathered

LEMMA GatheredSame ==
    ASSUME NEW f, NEW ls \in Seq(Nat), NEW k \in Nat, k < Len(ls),
           NEW found, Gathered(f, ls, k, found), ~IsRead(f, ls[k + 1])
    PROVE  Gathered(f, ls, k + 1, found)
<1>1. Words(f, ls, k + 1) = Words(f, ls, k)
    BY WordsMore
<1> QED  BY <1>1 DEF Gathered

\* The blocks g are found with line k + 1, which is in the last of them.
GoesOn(f, ls, k, g) ==
    /\ Gathered(f, ls, k + 1, g) /\ g # <<>>
    /\ Keyed(f) => KeyIn(f, Last(g).text[1][1]) = KeyIn(f, ls[k + 1])

LEMMA MoreGoesOn ==
    ASSUME NEW f, NEW ls \in Seq(Nat), Rising(ls), NEW k \in Nat, k < Len(ls),
           NEW found, Gathered(f, ls, k, found), IsRead(f, ls[k + 1]),
           NEW w \in Word, w = WordOf(f, ls[k + 1]),
           NEW b \in Block, b.text = <<w>>, Suits(f, b, ls[k + 1], ls[k + 1])
    PROVE  GoesOn(f, ls, k, Append(found, b))
<1>1. found \in Seq(Block)
    BY DEF Gathered
<1>2. PICK g \in Seq(Block) : g = Append(found, b) /\ Len(g) = Len(found) + 1 /\ g[Len(found) + 1] = b
    BY <1>1, AppendProperties, ZenonT(60)
<1>3. Last(g) = b /\ g # <<>>
    BY <1>1, <1>2, EmptySeq DEF Last
<1>4. Last(g).text[1][1] = ls[k + 1]
    BY <1>3 DEF WordOf
<1>5. Gathered(f, ls, k + 1, g)
    BY <1>2, GatheredMore
<1> QED  BY <1>2, <1>3, <1>4, <1>5 DEF GoesOn

LEMMA LongerGoesOn ==
    ASSUME NEW f, NEW ls \in Seq(Nat), Rising(ls), NEW k \in Nat, k < Len(ls),
           NEW found, Gathered(f, ls, k, found), IsRead(f, ls[k + 1]), found # <<>>,
           NEW w \in Word, w = WordOf(f, ls[k + 1]),
           Suits(f, Last(found), ls[k + 1], Opening(Last(found)))
    PROVE  GoesOn(f, ls, k, ReplaceAt(found, Len(found), LongerBy(Last(found), w)))
<1>1. found \in Seq(Block)
    BY DEF Gathered
<1>2. PICK u \in Seq(Block) : Before(found, u, Block)
    BY <1>1, LastReplaced
<1>3. PICK b \in Block : b = Last(found) /\ found = Append(u, b)
    BY <1>2 DEF Before
<1>4. PICK d \in Nat : d = Len(u) /\ Len(found) = d + 1 /\ found[d + 1] = b
    BY <1>3, AppendProperties
<1>5. b.text # <<>> /\ Pure(f, b)
  <2>1. d + 1 \in 1 .. Len(found)
      BY <1>4
  <2> QED  BY <1>4, <2>1 DEF Gathered
<1>6. PICK r \in Block : r = LongerBy(b, w) /\ r.text = Append(b.text, w)
  <2>1. w[1] = ls[k + 1]
      BY DEF WordOf
  <2> QED  BY <1>3, <1>5, <2>1, PureGoesOn DEF Opening
<1>7. PICK g \in Seq(Block) : g = Append(u, r)
    BY AppendProperties
<1>8. g = ReplaceAt(found, Len(found), LongerBy(Last(found), w))
    BY <1>2, <1>3, <1>6, <1>7 DEF Before
<1>9. Len(g) = d + 1 /\ g[d + 1] = r
    BY <1>4, <1>7, AppendProperties
<1>10. Last(g) = r /\ g # <<>>
    BY <1>9, EmptySeq DEF Last
<1>11. r.text[1] = b.text[1]
  <2>1. PICK t \in Text : t = b.text /\ t # <<>>
      BY <1>5 DEF Block
  <2>2. 1 \in 1 .. Len(t)
      BY <2>1, EmptySeq DEF Text
  <2> QED  BY <1>6, <2>1, <2>2, AppendProperties DEF Text
<1>12. Keyed(f) => KeyIn(f, Last(g).text[1][1]) = KeyIn(f, ls[k + 1])
    BY <1>3, <1>10, <1>11 DEF Suits, Opening
<1>13. Gathered(f, ls, k + 1, g)
    BY <1>8, GatheredLonger
<1> QED  BY <1>8, <1>10, <1>12, <1>13 DEF GoesOn

-----------------------------------------------------------------------------
(* The next line *)

\* Line i of file f, and its word.
Met(f, i, w) ==
    /\ i \in 1 .. Len(f.lines) /\ i \in Nat /\ w \in Word /\ w = WordOf(f, i)
    /\ f.format \in Formats /\ f.lines[i].kind \in Kinds(f.format)
    /\ f.lines[i].level \in Nat /\ f.lines[i].page \in Nat \ {0}
    /\ f.format \in {"md", "docx"} => f.lines[i].page = 1

LEMMA FileLine ==
    ASSUME NEW f \in Files, NEW i \in 1 .. Len(f.lines)
    PROVE  \E w \in Word : Met(f, i, w)
<1>1. f.format \in Formats /\ f.pages \in Nat /\ f.lines \in Seq(LinesOf(f.format, f.pages))
    BY ParsingAssumption
<1>2. f.lines[i] \in LinesOf(f.format, f.pages) /\ i \in Nat
    BY <1>1
<1>3. PICK ps : ps = IF f.format \in {"md", "docx"} THEN {1} ELSE 1 .. f.pages
    OBVIOUS
<1>4. f.lines[i] \in [kind : Kinds(f.format), level : Nat, tokens : Nat, block : Nat, page : ps]
    BY <1>2, <1>3 DEF LinesOf
<1>5. /\ f.lines[i].kind \in Kinds(f.format) /\ f.lines[i].level \in Nat
      /\ f.lines[i].tokens \in Nat /\ f.lines[i].page \in ps
    BY <1>4
<1>6. f.lines[i].page \in Nat \ {0} /\ (f.format \in {"md", "docx"} => f.lines[i].page = 1)
    BY <1>1, <1>3, <1>5
<1>7. WordOf(f, i) \in Word
    BY <1>2, <1>5 DEF WordOf, Word
<1> QED  BY <1>1, <1>2, <1>5, <1>6, <1>7 DEF Met

\* The loop takes one line.
Proceeding ==
    /\ outcome = "reading" /\ outcome' = outcome
    /\ seen < Len(lines) /\ seen' = seen + 1
    /\ file' = file /\ lines' = lines

LEMMA NextLine ==
    ASSUME ParseInv, outcome = "reading", seen < Len(lines)
    PROVE  /\ lines \in Seq(Nat) /\ Rising(lines) /\ seen \in Nat
           /\ \E w \in Word : Met(file, lines[seen + 1], w)
<1>1. file \in Files /\ lines \in Seq(1 .. Len(file.lines)) /\ seen \in 0 .. Len(lines) /\ Rising(lines)
    BY DEF ParseInv, ParseShapes
<1>2. lines \in Seq(Nat)
    BY <1>1, SeqMonotonic
<1>3. lines[seen + 1] \in 1 .. Len(file.lines) /\ seen \in Nat
  <2>1. Len(lines) \in Nat
      BY <1>1
  <2>2. seen + 1 \in 1 .. Len(lines)
      BY <1>1, <2>1
  <2> QED  BY <1>1, <2>2
<1> QED  BY <1>1, <1>2, <1>3, FileLine

\* What is left to show of a step that takes a line.
LEMMA Proceeds ==
    ASSUME ParseInv, Proceeding, Gathered(file, lines, seen + 1, Flushed'),
           blocks' \in Seq(Block), para' \in Text, paraPage' \in Nat,
           Remembers(file, lines, seen + 1, Flushed', paraPage', lastKey', inCode', para')
    PROVE  ParseInv'
<1>1. file \in Files /\ ParseShapes /\ outcome = "reading"
    BY DEF ParseInv, Proceeding
<1>2. seen' \in 0 .. Len(lines)
  <2>1. Len(lines) \in Nat /\ seen \in 0 .. Len(lines)
      BY <1>1 DEF ParseShapes
  <2> QED  BY <2>1 DEF Proceeding
<1>3. ParseShapes'
    BY <1>1, <1>2 DEF ParseShapes, Proceeding
<1>4. Gathered(file', lines', seen', Flushed')
    BY DEF Proceeding
<1>5. Remembers(file', lines', seen', Flushed', paraPage', lastKey', inCode', para')
    BY DEF Proceeding
<1>6. outcome' = "reading" /\ file' \in Files
    BY <1>1 DEF Proceeding
<1> QED  BY <1>3, <1>4, <1>5, <1>6 DEF ParseInv

LEMMA KeyedProceeds ==
    ASSUME ParseInv, Proceeding, Keyed(file), GoesOn(file, lines, seen, Flushed'),
           blocks' \in Seq(Block), para' \in Text, paraPage' \in Nat,
           lastKey' = KeyIn(file, lines[seen + 1]),
           para' = <<>> => file.lines[lines[seen + 1]].level > 0
    PROVE  ParseInv'
<1>1. Remembers(file, lines, seen, Flushed, paraPage, lastKey, inCode, para)
    BY DEF ParseInv, Proceeding
<1>2. seen \in Nat
    BY NextLine DEF Proceeding
<1>3. file.format # "md" /\ file.format # "docx"
    BY DEF Keyed
<1>4. Remembers(file, lines, seen + 1, Flushed', paraPage', lastKey', inCode', para')
    BY <1>1, <1>2, <1>3 DEF Remembers, GoesOn
<1> QED  BY <1>4, Proceeds DEF GoesOn

-----------------------------------------------------------------------------
(* Every step of the parsers keeps the invariant *)

LEMMA ReadingProceeds ==
    ASSUME NEW formats, Reading(formats) PROVE Proceeding /\ file.format \in formats
BY DEF Reading, Proceeding

\* The block of a line by itself.
BlockOf(f, i, w, b) == b \in Block /\ b.text = <<w>> /\ b.level = f.lines[i].level

LEMMA LineBlock ==
    ASSUME NEW i, NEW w \in Word, Met(file, i, w), NEW page \in Nat
    PROVE  BlockOf(file, i, w, HeadingBlock(i, page)) /\ HeadingBlock(i, page).page = page
<1>1. w = Sentence(i) /\ file.lines[i].level \in Nat
    BY DEF Met, Sentence, WordOf, Line
<1>2. <<w>> \in Text
    BY DEF Text
<1> QED  BY <1>1, <1>2 DEF HeadingBlock, BlockOf, Block, Line

LEMMA KeyedIsRead ==
    ASSUME NEW f, NEW i, NEW w, Met(f, i, w), f.format # "md"
    PROVE  IsRead(f, i) /\ ~InCodeOf(f, i)
BY DEF Met, Kinds, IsRead, InCodeOf, Formats

LEMMA HeadingAlone ==
    ASSUME NEW f, NEW i, NEW w, NEW b, BlockOf(f, i, w, b), ~InCodeOf(f, i) PROVE Suits(f, b, i, i)
BY DEF BlockOf, Suits

LEMMA PdfHeadingKeeps ==
    ASSUME ParseInv, PdfHeading PROVE ParseInv'
<1>1. Proceeding /\ file.format = "pdf" /\ Keyed(file)
    BY ReadingProceeds DEF PdfHeading, Keyed
<1>2. /\ outcome = "reading" /\ seen < Len(lines)
      /\ lines \in Seq(Nat) /\ Rising(lines) /\ seen \in Nat
    BY <1>1, NextLine DEF Proceeding
<1>3. PICK i : i = lines[seen + 1]
    OBVIOUS
<1>4. PICK w \in Word : Met(file, i, w)
    BY <1>2, <1>3, NextLine
<1>5. /\ para' = <<>> /\ lastKey' = KeyIn(file, i) /\ paraPage' = paraPage
      /\ file.lines[i].level > 0
      /\ blocks' = IF Wraps(i, Flushed)
                   THEN ReplaceAt(Flushed, Len(Flushed), [Last(Flushed) EXCEPT !.text = Append(@, Sentence(i))])
                   ELSE Append(Flushed, HeadingBlock(i, Line(i).page))
    BY <1>3 DEF PdfHeading, Key, KeyIn, Line
<1>6. Gathered(file, lines, seen, Flushed)
      /\ Remembers(file, lines, seen, Flushed, paraPage, lastKey, inCode, para)
      /\ paraPage \in Nat
    BY <1>2 DEF ParseInv, ParseShapes
<1>7. w = Sentence(i) /\ w = WordOf(file, i)
    BY <1>4 DEF Met, Sentence, WordOf, Line
<1>8. IsRead(file, i) /\ ~InCodeOf(file, i)
    BY <1>1, <1>4, KeyedIsRead
<1>9. GoesOn(file, lines, seen, blocks')
  <2>1. CASE Wraps(i, Flushed)
    <3>1. /\ Flushed # <<>> /\ Last(Flushed).level > 0 /\ lastKey = KeyIn(file, i)
          /\ Last(Flushed).level = file.lines[i].level
        BY <2>1 DEF Wraps, Key, KeyIn, Line
    <3>2. KeyIn(file, i) = KeyIn(file, Opening(Last(Flushed)))
        BY <1>1, <1>6, <3>1 DEF Remembers, Opening
    <3>3. Suits(file, Last(Flushed), i, Opening(Last(Flushed)))
        BY <1>8, <3>1, <3>2 DEF Suits
    <3>4. GoesOn(file, lines, seen, ReplaceAt(Flushed, Len(Flushed), LongerBy(Last(Flushed), w)))
        BY <1>2, <1>3, <1>6, <1>7, <1>8, <3>1, <3>3, LongerGoesOn
    <3> QED  BY <1>5, <1>7, <2>1, <3>4 DEF LongerBy
  <2>2. CASE ~Wraps(i, Flushed)
    <3>1. PICK b : b = HeadingBlock(i, file.lines[i].page)
        OBVIOUS
    <3>2. BlockOf(file, i, w, b) /\ b.page = file.lines[i].page
        BY <1>4, <3>1, LineBlock DEF Met
    <3>3. Suits(file, b, i, i) /\ b \in Block /\ b.text = <<w>>
        BY <1>8, <3>2, HeadingAlone DEF BlockOf
    <3>4. GoesOn(file, lines, seen, Append(Flushed, b))
        BY <1>2, <1>3, <1>6, <1>7, <1>8, <3>3, MoreGoesOn
    <3> QED  BY <1>5, <2>2, <3>1, <3>4 DEF Line
  <2> QED  BY <2>1, <2>2
<1>10. Flushed' = blocks'
    BY <1>5 DEF Flushed
<1>11. blocks' \in Seq(Block)
    BY <1>9 DEF GoesOn, Gathered
<1>12. para' \in Text /\ paraPage' \in Nat
    BY <1>5, <1>6, TextJoins
<1> QED  BY <1>1, <1>3, <1>5, <1>9, <1>10, <1>11, <1>12, KeyedProceeds

LEMMA TextHeadingKeeps ==
    ASSUME ParseInv, TextHeading PROVE ParseInv'
<1>1. Proceeding /\ file.format = "txt" /\ Keyed(file)
    BY ReadingProceeds DEF TextHeading, Keyed
<1>2. /\ outcome = "reading" /\ seen < Len(lines)
      /\ lines \in Seq(Nat) /\ Rising(lines) /\ seen \in Nat
    BY <1>1, NextLine DEF Proceeding
<1>3. PICK i : i = lines[seen + 1]
    OBVIOUS
<1>4. PICK w \in Word : Met(file, i, w)
    BY <1>2, <1>3, NextLine
<1>5. /\ para' = <<>> /\ lastKey' = KeyIn(file, i) /\ paraPage' = file.lines[i].page
      /\ file.lines[i].level > 0
      /\ blocks' = Append(Flushed, HeadingBlock(i, file.lines[i].page))
    BY <1>3 DEF TextHeading, Key, KeyIn, Line
<1>6. Gathered(file, lines, seen, Flushed)
    BY <1>2 DEF ParseInv
<1>7. w = WordOf(file, i)
    BY <1>4 DEF Met
<1>8. IsRead(file, i) /\ ~InCodeOf(file, i)
    BY <1>1, <1>4, KeyedIsRead
<1>9. GoesOn(file, lines, seen, blocks')
  <2>1. PICK b : b = HeadingBlock(i, file.lines[i].page)
      OBVIOUS
  <2>2. BlockOf(file, i, w, b) /\ b.page = file.lines[i].page
      BY <1>4, <2>1, LineBlock DEF Met
  <2>3. Suits(file, b, i, i) /\ b \in Block /\ b.text = <<w>>
      BY <1>8, <2>2, HeadingAlone DEF BlockOf
  <2>4. GoesOn(file, lines, seen, Append(Flushed, b))
      BY <1>2, <1>3, <1>6, <1>7, <1>8, <2>3, MoreGoesOn
  <2> QED  BY <1>5, <2>1, <2>4
<1>10. Flushed' = blocks'
    BY <1>5 DEF Flushed
<1>11. blocks' \in Seq(Block)
    BY <1>9 DEF GoesOn, Gathered
<1>12. para' \in Text /\ paraPage' \in Nat
    BY <1>4, <1>5, TextJoins DEF Met
<1> QED  BY <1>1, <1>3, <1>5, <1>9, <1>10, <1>11, <1>12, KeyedProceeds

-----------------------------------------------------------------------------
(* The paragraph that is open *)

Paragraphed(t, page) == [text |-> t, page |-> page, level |-> 0]

\* A line goes on in the open paragraph, which may be empty so far.
LEMMA ParagraphGoesOn ==
    ASSUME NEW f, NEW ls \in Seq(Nat), Rising(ls), NEW k \in Nat, k < Len(ls),
           NEW bs \in Seq(Block), NEW t \in Text, NEW page \in Nat,
           NEW found, found = (IF t = <<>> THEN bs ELSE Append(bs, Paragraphed(t, page))),
           Gathered(f, ls, k, found), IsRead(f, ls[k + 1]),
           NEW w \in Word, w = WordOf(f, ls[k + 1]),
           f.lines[ls[k + 1]].level > 0 => InCodeOf(f, ls[k + 1]) \/ f.format = "txt",
           t # <<>> /\ Keyed(f) => KeyIn(f, ls[k + 1]) = KeyIn(f, Last(found).text[1][1])
    PROVE  GoesOn(f, ls, k, Append(bs, Paragraphed(Append(t, w), page)))
<1>1. CASE t = <<>>
  <2>1. PICK b : b = Paragraphed(<<w>>, page)
      OBVIOUS
  <2>2. b \in Block /\ b.text = <<w>> /\ b.level = 0
      BY <2>1 DEF Paragraphed, Block, Text
  <2>3. Suits(f, b, ls[k + 1], ls[k + 1])
      BY <1>1, <2>1, <2>2 DEF Suits
  <2>4. GoesOn(f, ls, k, Append(bs, b))
      BY <1>1, <2>2, <2>3, MoreGoesOn
  <2>5. Append(t, w) = <<w>>
      BY <1>1, Single
  <2> QED  BY <2>1, <2>4, <2>5
<1>2. CASE t # <<>>
  <2>1. PICK b \in Block : b = Paragraphed(t, page) /\ b.level = 0
      BY SMTT(30) DEF Paragraphed, Block
  <2>2. found = Append(bs, b)
      BY <1>2, <2>1
  <2>3. PICK d \in Nat : d = Len(bs) /\ Len(found) = d + 1 /\ found[d + 1] = b /\ found \in Seq(Block)
      BY <2>2, AppendProperties
  <2>4. Last(found) = b /\ found # <<>>
      BY <2>3, EmptySeq DEF Last
  <2>5. Suits(f, b, ls[k + 1], Opening(b))
      BY <1>2, <2>1, <2>4 DEF Suits, Opening
  <2>6. GoesOn(f, ls, k, ReplaceAt(found, Len(found), LongerBy(b, w)))
      BY <2>4, <2>5, LongerGoesOn
  <2>7. LongerBy(b, w) = Paragraphed(Append(t, w), page)
    <3>1. PICK v \in Text : v = Append(t, w)
        BY AppendProperties DEF Text
    <3>2. b = [text |-> t, page |-> page, level |-> 0]
        BY <2>1 DEF Paragraphed
    <3>3. LongerBy(b, w) = [b EXCEPT !.text = v]
        BY <3>1, <3>2 DEF LongerBy
    <3>4. [b EXCEPT !.text = v] = [text |-> v, page |-> page, level |-> 0]
        BY <3>2, SMTT(30)
    <3> QED  BY <3>1, <3>3, <3>4 DEF Paragraphed
  <2>8. LongerBy(b, w) \in Block
    <3>1. Append(t, w) \in Text
        BY AppendProperties DEF Text
    <3> QED  BY <2>7, <3>1 DEF Paragraphed, Block
  <2>9. ReplaceAt(found, Len(found), LongerBy(b, w)) = Append(bs, LongerBy(b, w))
    <3>1. PICK u \in Seq(Block) : Before(found, u, Block)
        BY <2>3, <2>4, LastReplaced
    <3>2. found = Append(u, b) /\ Len(u) = d
        BY <2>3, <2>4, <3>1 DEF Before
    <3>3. \A j \in 1 .. d : u[j] = bs[j]
      <4>1. \A j \in 1 .. d : found[j] = bs[j]
          BY <2>2, <2>3, AppendProperties
      <4>2. \A j \in 1 .. d : Append(u, b)[j] = u[j]
          BY <3>2, AppendProperties
      <4> QED  BY <3>2, <4>1, <4>2
    <3>4. u = bs
        BY <2>3, <3>2, <3>3, SeqEqual
    <3> QED  BY <2>8, <3>1, <3>4 DEF Before
  <2> QED  BY <2>6, <2>7, <2>9
<1> QED  BY <1>1, <1>2

LEMMA BodyLineKeeps ==
    ASSUME ParseInv, BodyLine PROVE ParseInv'
<1>1. Proceeding /\ Keyed(file) /\ file.format # "md"
    BY ReadingProceeds DEF BodyLine, Keyed
<1>2. /\ outcome = "reading" /\ seen < Len(lines)
      /\ lines \in Seq(Nat) /\ Rising(lines) /\ seen \in Nat
    BY <1>1, NextLine DEF Proceeding
<1>3. PICK i : i = lines[seen + 1]
    OBVIOUS
<1>4. PICK w \in Word : Met(file, i, w)
    BY <1>2, <1>3, NextLine
<1>5. w = Sentence(i) /\ w = WordOf(file, i)
    BY <1>4 DEF Met, Sentence, WordOf, Line
<1>6. /\ Gathered(file, lines, seen, Flushed)
      /\ Remembers(file, lines, seen, Flushed, paraPage, lastKey, inCode, para)
      /\ blocks \in Seq(Block) /\ para \in Text /\ paraPage \in Nat
    BY <1>2 DEF ParseInv, ParseShapes
<1>7. lastKey' = KeyIn(file, i) /\ (file.lines[i].level > 0 => file.format = "txt" /\ lastKey = KeyIn(file, i))
    BY <1>3, <1>4 DEF BodyLine, Key, KeyIn, Line, Met
<1>8. IsRead(file, i)
    BY <1>1, <1>4, KeyedIsRead
<1>9. CASE KeyIn(file, i) # lastKey
  <2>1. blocks' = Flushed /\ para' = <<w>> /\ paraPage' = file.lines[i].page
      BY <1>3, <1>5, <1>9 DEF BodyLine, Key, KeyIn, Line
  <2>2. PICK b : b = Paragraphed(<<w>>, file.lines[i].page)
      OBVIOUS
  <2>3. para' \in Text /\ para' # <<>> /\ paraPage' \in Nat
      BY <1>4, <2>1 DEF Text, Met
  <2>4. b \in Block /\ b.text = <<w>> /\ b.level = 0 /\ b.page = file.lines[i].page
      BY <2>1, <2>2, <2>3 DEF Paragraphed, Block
  <2>5. Suits(file, b, i, i)
      BY <1>7, <1>9, <2>4 DEF Suits
  <2>6. GoesOn(file, lines, seen, Append(Flushed, b))
      BY <1>2, <1>3, <1>5, <1>6, <1>8, <2>4, <2>5, MoreGoesOn
  <2>7. Flushed' = Append(Flushed, b)
      BY <2>1, <2>2, <2>3 DEF Flushed, Paragraphed
  <2>8. blocks' \in Seq(Block)
      BY <1>6, <2>1 DEF Gathered
  <2> QED  BY <1>1, <1>3, <1>7, <2>3, <2>6, <2>7, <2>8, KeyedProceeds
<1>10. CASE KeyIn(file, i) = lastKey
  <2>1. blocks' = blocks /\ para' = Append(para, w) /\ paraPage' = paraPage
      BY <1>3, <1>5, <1>10 DEF BodyLine, Key, KeyIn, Line
  <2>2. para' \in Text /\ para' # <<>>
    <3>1. Append(para, w) \in Text /\ Len(Append(para, w)) = Len(para) + 1 /\ Len(para) \in Nat
        BY <1>6, AppendProperties DEF Text
    <3> QED  BY <2>1, <3>1, EmptySeq
  <2>3. Flushed = IF para = <<>> THEN blocks ELSE Append(blocks, Paragraphed(para, paraPage))
      BY DEF Flushed, Paragraphed
  <2>4. ASSUME para # <<>> PROVE KeyIn(file, i) = KeyIn(file, Last(Flushed).text[1][1])
    <3>1. Flushed # <<>>
      <4>1. Flushed = Append(blocks, Paragraphed(para, paraPage))
          BY <2>3, <2>4
      <4>2. Paragraphed(para, paraPage) \in Block
          BY <1>6 DEF Paragraphed, Block
      <4>3. Len(Flushed) = Len(blocks) + 1 /\ Len(blocks) \in Nat
          BY <1>6, <4>1, <4>2, AppendProperties
      <4> QED  BY <4>3, EmptySeq
    <3> QED  BY <1>1, <1>6, <1>10, <3>1 DEF Remembers
  <2>5. GoesOn(file, lines, seen, Append(blocks, Paragraphed(Append(para, w), paraPage)))
      BY <1>2, <1>3, <1>5, <1>6, <1>7, <1>8, <2>3, <2>4, ParagraphGoesOn
  <2>6. Flushed' = Append(blocks, Paragraphed(Append(para, w), paraPage))
      BY <2>1, <2>2 DEF Flushed, Paragraphed
  <2> QED  BY <1>1, <1>3, <1>6, <1>7, <2>1, <2>2, <2>5, <2>6, KeyedProceeds
<1> QED  BY <1>9, <1>10

LEMMA DocxKeeps ==
    ASSUME ParseInv, DocxParagraph PROVE ParseInv'
<1>1. Proceeding /\ file.format = "docx"
    BY ReadingProceeds DEF DocxParagraph
<1>2. /\ outcome = "reading" /\ seen < Len(lines)
      /\ lines \in Seq(Nat) /\ Rising(lines) /\ seen \in Nat
    BY <1>1, NextLine DEF Proceeding
<1>3. PICK i : i = lines[seen + 1]
    OBVIOUS
<1>4. PICK w \in Word : Met(file, i, w)
    BY <1>2, <1>3, NextLine
<1>5. /\ Gathered(file, lines, seen, Flushed) /\ blocks \in Seq(Block)
      /\ Remembers(file, lines, seen, Flushed, paraPage, lastKey, inCode, para) /\ paraPage \in Nat
    BY <1>2 DEF ParseInv, ParseShapes
<1>6. para = <<>> /\ Flushed = blocks
    BY <1>1, <1>5 DEF Remembers, Flushed
<1>7. /\ para' = para /\ paraPage' = paraPage /\ lastKey' = lastKey /\ inCode' = inCode
      /\ blocks' = Append(blocks, HeadingBlock(i, 1))
    BY <1>3 DEF DocxParagraph
<1>8. IsRead(file, i) /\ ~InCodeOf(file, i)
    BY <1>1, <1>4, KeyedIsRead
<1>9. GoesOn(file, lines, seen, blocks')
  <2>1. PICK b : b = HeadingBlock(i, 1)
      OBVIOUS
  <2>2. BlockOf(file, i, w, b) /\ b.page = file.lines[i].page
      BY <1>1, <1>4, <2>1, LineBlock DEF Met
  <2>3. Suits(file, b, i, i) /\ b \in Block /\ b.text = <<w>>
      BY <1>8, <2>2, HeadingAlone DEF BlockOf
  <2>4. w = WordOf(file, i)
      BY <1>4 DEF Met
  <2>5. GoesOn(file, lines, seen, Append(Flushed, b))
      BY <1>2, <1>3, <1>5, <1>8, <2>3, <2>4, MoreGoesOn
  <2> QED  BY <1>6, <1>7, <2>1, <2>5
<1>10. Flushed' = blocks'
    BY <1>6, <1>7 DEF Flushed
<1>11. blocks' \in Seq(Block) /\ para' \in Text
    BY <1>6, <1>7, <1>9, TextJoins DEF GoesOn, Gathered
<1>12. Remembers(file, lines, seen + 1, Flushed', paraPage', lastKey', inCode', para')
    BY <1>1, <1>5, <1>6, <1>7 DEF Remembers, Keyed
<1> QED  BY <1>1, <1>5, <1>7, <1>9, <1>10, <1>11, <1>12, Proceeds DEF GoesOn

-----------------------------------------------------------------------------
(* Markdown *)

\* A line more: a fence, or none.
LEMMA FencesMore ==
    ASSUME NEW f, NEW k \in Nat
    PROVE  /\ FencesIn(f, k + 1) \in Nat
           /\ f.lines[k + 1].kind = "fence" => FencesIn(f, k + 2) = FencesIn(f, k + 1) + 1
           /\ f.lines[k + 1].kind # "fence" => FencesIn(f, k + 2) = FencesIn(f, k + 1)
<1> DEFINE F(j) == {m \in 1 .. j : f.lines[m].kind = "fence"}
<1>1. IsFiniteSet(1 .. k) /\ F(k) \subseteq 1 .. k
    BY FS_Interval
<1>2. IsFiniteSet(F(k)) /\ k + 1 \notin F(k)
    BY <1>1, FS_Subset
<1>3. (k + 1) - 1 = k /\ (k + 2) - 1 = k + 1
    OBVIOUS
<1>4. FencesIn(f, k + 1) = Cardinality(F(k)) /\ FencesIn(f, k + 2) = Cardinality(F(k + 1))
    BY <1>3 DEF FencesIn
<1>5. /\ f.lines[k + 1].kind = "fence" => F(k + 1) = F(k) \cup {k + 1}
      /\ f.lines[k + 1].kind # "fence" => F(k + 1) = F(k)
    OBVIOUS
<1> HIDE DEF F
<1>6. Cardinality(F(k)) \in Nat
    BY <1>2, FS_CardinalityType
<1>7. Cardinality(F(k) \cup {k + 1}) = Cardinality(F(k)) + 1
    BY <1>2, FS_AddElement
<1> QED  BY <1>4, <1>5, <1>6, <1>7

\* What the Markdown parser knows of line seen + 1.
LEMMA MarkdownNext ==
    ASSUME ParseInv, Proceeding, file.format = "md"
    PROVE  /\ lines = Numbers(Len(file.lines)) /\ lines[seen + 1] = seen + 1
           /\ paraPage = 1 /\ (inCode <=> InCodeOf(file, seen + 1))
           /\ ~Keyed(file) /\ seen \in Nat
<1>1. Remembers(file, lines, seen, Flushed, paraPage, lastKey, inCode, para)
    BY DEF ParseInv, Proceeding
<1>2. lines = Numbers(Len(file.lines)) /\ paraPage = 1 /\ (inCode <=> FencesIn(file, seen + 1) % 2 = 1)
    BY <1>1 DEF Remembers
<1>3. seen \in Nat /\ lines \in Seq(Nat) /\ seen < Len(lines)
    BY NextLine DEF Proceeding
<1>4. seen + 1 \in DOMAIN lines
    BY <1>3
<1>5. lines[seen + 1] = seen + 1
    BY <1>2, <1>4 DEF Numbers
<1> QED  BY <1>2, <1>3, <1>5 DEF InCodeOf, Keyed

LEMMA MarkdownProceeds ==
    ASSUME ParseInv, Proceeding, file.format = "md", Gathered(file, lines, seen + 1, Flushed'),
           blocks' \in Seq(Block), para' \in Text, paraPage' = paraPage,
           inCode' <=> FencesIn(file, seen + 2) % 2 = 1
    PROVE  ParseInv'
<1>1. /\ lines = Numbers(Len(file.lines)) /\ paraPage = 1 /\ ~Keyed(file) /\ seen \in Nat
    BY MarkdownNext
<1>2. (seen + 1) + 1 = seen + 2 /\ paraPage' \in Nat
    BY <1>1
<1>3. Remembers(file, lines, seen + 1, Flushed', paraPage', lastKey', inCode', para')
    BY <1>1, <1>2 DEF Remembers
<1> QED  BY <1>2, <1>3, Proceeds

LEMMA FenceKeeps ==
    ASSUME ParseInv, Fence PROVE ParseInv'
<1>1. Proceeding /\ file.format = "md"
    BY ReadingProceeds DEF Fence
<1>2. /\ outcome = "reading" /\ seen < Len(lines) /\ lines \in Seq(Nat) /\ seen \in Nat
    BY <1>1, NextLine DEF Proceeding
<1>3. lines[seen + 1] = seen + 1 /\ (inCode <=> FencesIn(file, seen + 1) % 2 = 1)
    BY <1>1, MarkdownNext DEF InCodeOf
<1>4. /\ blocks' = blocks /\ para' = para /\ paraPage' = paraPage /\ inCode' = ~inCode
      /\ file.lines[seen + 1].kind = "fence"
    BY <1>3 DEF Fence, Line
<1>5. Gathered(file, lines, seen, Flushed) /\ blocks \in Seq(Block) /\ para \in Text
    BY <1>2 DEF ParseInv, ParseShapes
<1>6. Flushed' = Flushed
    BY <1>4 DEF Flushed
<1>7. Gathered(file, lines, seen + 1, Flushed')
  <2>1. ~IsRead(file, lines[seen + 1])
      BY <1>3, <1>4 DEF IsRead
  <2> QED  BY <1>2, <1>5, <1>6, <2>1, GatheredSame
<1>8. inCode' <=> FencesIn(file, seen + 2) % 2 = 1
  <2>1. PICK c \in Nat : c = FencesIn(file, seen + 1) /\ FencesIn(file, seen + 2) = c + 1
      BY <1>2, <1>4, FencesMore
  <2>2. (c + 1) % 2 = 1 <=> ~(c % 2 = 1)
      OBVIOUS
  <2>3. inCode' <=> ~inCode
      BY <1>4
  <2> QED  BY <1>3, <2>1, <2>2, <2>3
<1> QED  BY <1>1, <1>4, <1>5, <1>7, <1>8, MarkdownProceeds

LEMMA MarkdownHeadingKeeps ==
    ASSUME ParseInv, MarkdownHeading PROVE ParseInv'
<1>1. Proceeding /\ file.format = "md"
    BY ReadingProceeds DEF MarkdownHeading
<1>2. /\ outcome = "reading" /\ seen < Len(lines)
      /\ lines \in Seq(Nat) /\ Rising(lines) /\ seen \in Nat
    BY <1>1, NextLine DEF Proceeding
<1>3. PICK i : i = seen + 1
    OBVIOUS
<1>4. lines[seen + 1] = i /\ (inCode <=> InCodeOf(file, i))
    BY <1>1, <1>3, MarkdownNext
<1>5. PICK w \in Word : Met(file, i, w)
    BY <1>2, <1>4, NextLine
<1>6. Gathered(file, lines, seen, Flushed)
    BY <1>2 DEF ParseInv
<1>7. /\ para' = <<>> /\ paraPage' = paraPage /\ inCode' = inCode
      /\ blocks' = Append(Flushed, HeadingBlock(i, 1))
      /\ file.lines[i].kind = "text" /\ ~inCode
    BY <1>4 DEF MarkdownHeading, IsMarkdownHeading, Line
<1>8. IsRead(file, i) /\ ~InCodeOf(file, i)
    BY <1>4, <1>7 DEF IsRead
<1>9. GoesOn(file, lines, seen, blocks')
  <2>1. PICK b : b = HeadingBlock(i, 1)
      OBVIOUS
  <2>2. BlockOf(file, i, w, b) /\ b.page = file.lines[i].page
      BY <1>1, <1>5, <2>1, LineBlock DEF Met
  <2>3. Suits(file, b, i, i) /\ b \in Block /\ b.text = <<w>>
      BY <1>8, <2>2, HeadingAlone DEF BlockOf
  <2>4. w = WordOf(file, i)
      BY <1>5 DEF Met
  <2>5. GoesOn(file, lines, seen, Append(Flushed, b))
      BY <1>2, <1>4, <1>6, <1>8, <2>3, <2>4, MoreGoesOn
  <2> QED  BY <1>7, <2>1, <2>5
<1>10. Flushed' = blocks'
    BY <1>7 DEF Flushed
<1>11. blocks' \in Seq(Block) /\ para' \in Text
    BY <1>7, <1>9, TextJoins DEF GoesOn, Gathered
<1>12. inCode' <=> FencesIn(file, seen + 2) % 2 = 1
  <2>1. FencesIn(file, seen + 2) = FencesIn(file, seen + 1)
      BY <1>2, <1>3, <1>7, FencesMore
  <2> QED  BY <1>1, <1>3, <1>4, <1>7, <2>1 DEF InCodeOf
<1> QED  BY <1>1, <1>7, <1>9, <1>10, <1>11, <1>12, MarkdownProceeds DEF GoesOn

LEMMA MarkdownLineKeeps ==
    ASSUME ParseInv, MarkdownLine PROVE ParseInv'
<1>1. Proceeding /\ file.format = "md"
    BY ReadingProceeds DEF MarkdownLine
<1>2. /\ outcome = "reading" /\ seen < Len(lines)
      /\ lines \in Seq(Nat) /\ Rising(lines) /\ seen \in Nat
    BY <1>1, NextLine DEF Proceeding
<1>3. PICK i : i = seen + 1
    OBVIOUS
<1>4. lines[seen + 1] = i /\ (inCode <=> InCodeOf(file, i)) /\ paraPage = 1 /\ ~Keyed(file)
    BY <1>1, <1>3, MarkdownNext
<1>5. PICK w \in Word : Met(file, i, w)
    BY <1>2, <1>4, NextLine
<1>6. Gathered(file, lines, seen, Flushed) /\ blocks \in Seq(Block) /\ para \in Text
    BY <1>2 DEF ParseInv, ParseShapes
<1>7. /\ paraPage' = paraPage /\ inCode' = inCode /\ file.lines[i].kind \in {"text", "blank"}
      /\ ~(file.lines[i].kind = "text" /\ file.lines[i].level > 0 /\ ~inCode)
    BY <1>4 DEF MarkdownLine, IsMarkdownHeading, Line
<1>8. inCode' <=> FencesIn(file, seen + 2) % 2 = 1
  <2>1. FencesIn(file, seen + 2) = FencesIn(file, seen + 1)
      BY <1>2, <1>3, <1>7, FencesMore
  <2> QED  BY <1>1, <1>3, <1>4, <1>7, <2>1 DEF InCodeOf
<1>9. CASE file.lines[i].kind = "blank"
  <2>1. blocks' = Flushed /\ para' = <<>>
      BY <1>4, <1>9 DEF MarkdownLine, Line
  <2>2. Flushed' = Flushed
      BY <2>1 DEF Flushed
  <2>3. ~IsRead(file, lines[seen + 1])
      BY <1>4, <1>9 DEF IsRead
  <2>4. Gathered(file, lines, seen + 1, Flushed')
      BY <1>2, <1>6, <2>2, <2>3, GatheredSame
  <2>5. blocks' \in Seq(Block) /\ para' \in Text
      BY <1>6, <2>1, TextJoins DEF Gathered
  <2> QED  BY <1>1, <1>7, <1>8, <2>4, <2>5, MarkdownProceeds
<1>10. CASE file.lines[i].kind = "text"
  <2>1. w = Sentence(i) /\ w = WordOf(file, i)
      BY <1>5 DEF Met, Sentence, WordOf, Line
  <2>2. blocks' = blocks /\ para' = Append(para, w)
      BY <1>4, <1>10, <2>1 DEF MarkdownLine, Line
  <2>3. para' \in Text /\ para' # <<>>
    <3>1. Append(para, w) \in Text /\ Len(Append(para, w)) = Len(para) + 1 /\ Len(para) \in Nat
        BY <1>6, AppendProperties DEF Text
    <3> QED  BY <2>2, <3>1, EmptySeq
  <2>4. Flushed = IF para = <<>> THEN blocks ELSE Append(blocks, Paragraphed(para, paraPage))
      BY DEF Flushed, Paragraphed
  <2>5. IsRead(file, i) /\ (file.lines[i].level > 0 => InCodeOf(file, i)) /\ paraPage \in Nat
      BY <1>4, <1>7, <1>10 DEF IsRead
  <2>6. GoesOn(file, lines, seen, Append(blocks, Paragraphed(Append(para, w), paraPage)))
      BY <1>2, <1>4, <1>6, <2>1, <2>4, <2>5, ParagraphGoesOn
  <2>7. Flushed' = Append(blocks, Paragraphed(Append(para, w), paraPage))
      BY <1>7, <2>2, <2>3 DEF Flushed, Paragraphed
  <2> QED  BY <1>1, <1>6, <1>7, <1>8, <2>2, <2>3, <2>6, <2>7, MarkdownProceeds DEF GoesOn
<1> QED  BY <1>7, <1>9, <1>10

LEMMA EndOfFileKeeps ==
    ASSUME ParseInv, EndOfFile PROVE ParseInv'
<1>1. /\ outcome = "reading" /\ seen = Len(lines) /\ blocks' = Flushed /\ para' = <<>>
      /\ outcome' \in {"ParseError", "parsed"}
      /\ file' = file /\ lines' = lines /\ seen' = seen /\ paraPage' = paraPage
    BY DEF EndOfFile
<1>2. file \in Files /\ ParseShapes /\ Gathered(file, lines, seen, Flushed)
    BY DEF ParseInv
<1>3. Flushed' = Flushed
    BY <1>1 DEF Flushed
<1>4. Gathered(file', lines', seen', Flushed')
    BY <1>1, <1>2, <1>3
<1>5. ParseShapes'
  <2>1. Flushed \in Seq(Block) /\ <<>> \in Text
      BY <1>2, TextJoins DEF Gathered
  <2> QED  BY <1>1, <1>2, <2>1 DEF ParseShapes
<1>6. outcome' # "new" /\ outcome' # "reading"
    BY <1>1
<1>7. seen' = Len(lines') /\ para' = <<>> /\ file' \in Files
    BY <1>1, <1>2
<1> QED  BY <1>4, <1>5, <1>6, <1>7 DEF ParseInv

\* Before the first line nothing is found.
LEMMA NothingGathered == ASSUME NEW f, NEW ls PROVE Gathered(f, ls, 0, <<>>)
<1>1. PICK none \in Seq(Block) : none = <<>> /\ Len(none) = 0
    BY NoElements
<1>2. Words(f, ls, 0) = {}
    BY DEF Words
<1>3. IsInjective(TextsOf(none)) /\ ToSet(TextsOf(none)) = {}
    BY <1>1, NoTexts, NoElements
<1>4. \A j \in 1 .. Len(none) : none[j].text # <<>> /\ Pure(f, none[j])
    BY <1>1
<1>5. Gathered(f, ls, 0, none)
    BY <1>2, <1>3, <1>4 DEF Gathered
<1> QED  BY <1>1, <1>5

LEMMA OpenKeeps ==
    ASSUME ParseInv, Open PROVE ParseInv'
<1>1. /\ outcome = "new" /\ file' = file /\ seen' = seen /\ blocks' = blocks /\ para' = para
      /\ paraPage' = paraPage /\ lastKey' = lastKey /\ inCode' = inCode
      /\ lines' = Filtered([i \in DOMAIN file.lines |-> i], {i \in DOMAIN file.lines : Kept(i)})
      /\ outcome' \in {"StatisticsError", "reading"}
    BY DEF Open
<1>2. /\ seen = 0 /\ blocks = <<>> /\ para = <<>> /\ paraPage = 1 /\ lastKey = <<0, 0>> /\ ~inCode
      /\ file \in Files /\ ParseShapes
    BY <1>1 DEF ParseInv
<1>3. PICK m \in Nat : m = Len(file.lines) /\ DOMAIN file.lines = 1 .. m /\ file.format \in Formats
  <2>1. file.format \in Formats /\ file.lines \in Seq(LinesOf(file.format, file.pages))
      BY <1>2, ParsingAssumption
  <2> QED  BY <2>1
<1>4. PICK S : S = {i \in 1 .. m : Kept(i)}
    OBVIOUS
<1>5. lines' = Filtered(Numbers(m), S)
    BY <1>1, <1>3, <1>4 DEF Numbers
<1>6. Numbers(m) \in Seq(1 .. m) /\ ToSet(Numbers(m)) = 1 .. m /\ Rising(Numbers(m))
    BY Numbered, RisingNumbers
<1>7. lines' \in Seq(1 .. m)
    BY <1>5, <1>6, FilteredIn
<1>8. Rising(lines')
  <2>1. 1 .. m \in SUBSET Nat
      OBVIOUS
  <2> QED  BY <1>5, <1>6, <2>1, RisingFiltered
<1>9. file.format # "pdf" => lines' = Numbers(m)
  <2>1. SUFFICES ASSUME file.format # "pdf" PROVE lines' = Numbers(m)
      OBVIOUS
  <2>2. ToSet(Numbers(m)) \subseteq S
      BY <1>4, <1>6, <2>1 DEF Kept
  <2> QED  BY <1>5, <1>6, <2>2, FilteredAll
<1>10. Flushed' = <<>>
    BY <1>1, <1>2 DEF Flushed
<1>11. Gathered(file', lines', seen', Flushed')
    BY <1>1, <1>2, <1>10, NothingGathered
<1>12. ParseShapes'
  <2>1. seen' \in 0 .. Len(lines')
      BY <1>1, <1>2, <1>7
  <2> QED  BY <1>1, <1>2, <1>3, <1>7, <1>8, <2>1 DEF ParseShapes
<1>13. Remembers(file', lines', seen', Flushed', paraPage', lastKey', inCode', para')
  <2>1. FencesIn(file, 0 + 1) = 0
    <3>1. {j \in 1 .. (0 + 1) - 1 : file.lines[j].kind = "fence"} = {}
        OBVIOUS
    <3> QED  BY <3>1, FS_EmptySet DEF FencesIn
  <2> QED  BY <1>1, <1>2, <1>3, <1>9, <1>10, <2>1 DEF Remembers
<1>14. outcome' # "new" /\ outcome' # "parsed" /\ file' \in Files
    BY <1>1, <1>2
<1> QED  BY <1>11, <1>12, <1>13, <1>14 DEF ParseInv

LEMMA UnreadableKeeps ==
    ASSUME ParseInv, Unreadable PROVE ParseInv'
<1>1. /\ outcome = "new" /\ file' = file /\ seen' = seen /\ blocks' = blocks /\ para' = para
      /\ paraPage' = paraPage /\ lines' = lines /\ outcome' = "ParseError"
    BY DEF Unreadable
<1>2. Flushed' = Flushed
    BY <1>1 DEF Flushed
<1>3. ParseShapes'
    BY <1>1 DEF ParseInv, ParseShapes
<1> QED  BY <1>1, <1>2, <1>3 DEF ParseInv

LEMMA ParsingStays ==
    ASSUME ParseInv, UNCHANGED parseVars PROVE ParseInv'
<1>1. /\ file' = file /\ outcome' = outcome /\ seen' = seen /\ blocks' = blocks /\ para' = para
      /\ paraPage' = paraPage /\ lines' = lines /\ lastKey' = lastKey /\ inCode' = inCode
    BY DEF parseVars
<1>2. Flushed' = Flushed
    BY <1>1 DEF Flushed
<1>3. ParseShapes'
    BY <1>1 DEF ParseInv, ParseShapes
<1> QED  BY <1>1, <1>2, <1>3 DEF ParseInv

LEMMA ParsingInit == ParseInit => ParseInv
<1> SUFFICES ASSUME ParseInit PROVE ParseInv
    OBVIOUS
<1>1. /\ file \in Files /\ outcome = "new" /\ lines = <<>> /\ seen = 0 /\ blocks = <<>>
      /\ para = <<>> /\ paraPage = 1 /\ lastKey = <<0, 0>> /\ inCode = FALSE
    BY DEF ParseInit
<1>2. Flushed = <<>>
    BY <1>1 DEF Flushed
<1>3. ParseShapes
  <2>1. Rising(<<>>)
      BY DEF Rising
  <2> QED  BY <1>1, <2>1, EmptySeq, TextJoins DEF ParseShapes
<1> QED  BY <1>1, <1>2, <1>3, NothingGathered DEF ParseInv

LEMMA ParsingKept == ParseInv /\ (ParseNext \/ UNCHANGED parseVars) => ParseInv'
BY PdfHeadingKeeps, TextHeadingKeeps, BodyLineKeeps, DocxKeeps, FenceKeeps, MarkdownHeadingKeeps,
   MarkdownLineKeeps, EndOfFileKeeps, OpenKeeps, UnreadableKeeps, ParsingStays DEF ParseNext

\* What the invariant says of the blocks.
LEMMA ParsingImplies == ParseInv => BlocksArePure
<1> SUFFICES ASSUME ParseInv, NEW k \in DOMAIN blocks
             PROVE  LET b == blocks[k]  opening == b.text[1][1] IN
        /\ \A j \in DOMAIN b.text : LET i == b.text[j][1] IN
              IF b.level > 0
              THEN Line(i).level = b.level /\ ~InCode(i) /\ Key(i) = Key(opening)
              ELSE Line(i).level > 0 => InCode(i) \/ file.format = "txt"
        /\ file.format \in {"pdf", "txt"} => \A j \in DOMAIN b.text : Key(b.text[j][1]) = Key(opening)
    BY DEF BlocksArePure
<1>1. blocks \in Seq(Block) /\ Gathered(file, lines, seen, Flushed)
    BY DEF ParseInv, ParseShapes
<1>2. PICK b : b = blocks[k] /\ Pure(file, b)
  <2>1. CASE para = <<>>
    <3>1. Flushed = blocks /\ k \in 1 .. Len(blocks)
        BY <1>1, <2>1 DEF Flushed
    <3> QED  BY <1>1, <3>1 DEF Gathered
  <2>2. CASE para # <<>>
    <3>1. PICK p : p = [text |-> para, page |-> paraPage, level |-> 0]
        OBVIOUS
    <3>2. p \in Block
        BY <3>1 DEF ParseInv, ParseShapes, Block
    <3>3. Flushed = Append(blocks, p)
        BY <2>2, <3>1 DEF Flushed
    <3>4. k \in 1 .. Len(Flushed) /\ Flushed[k] = blocks[k]
        BY <1>1, <3>2, <3>3, AppendProperties
    <3> QED  BY <1>1, <3>4 DEF Gathered
  <2> QED  BY <2>1, <2>2
<1>3. /\ \A i : Line(i) = file.lines[i] /\ Key(i) = KeyIn(file, i) /\ (InCode(i) <=> InCodeOf(file, i))
    BY DEF Line, Key, KeyIn, InCode, InCodeOf, FencesBefore, FencesIn
<1>4. \A j \in DOMAIN b.text : Suits(file, b, b.text[j][1], b.text[1][1])
    BY <1>2 DEF Pure
<1> QED  BY <1>2, <1>3, <1>4 DEF Suits, Keyed

-----------------------------------------------------------------------------
(* The inductive invariant of Passages: where the passage every loop works  *)
(* on lies relative to the one before it, and that the last passage of      *)
(* several has ChildMin tokens, since what is too short for one is given to *)
(* the passage before it already where that is cut.                         *)

Draft == [from : Nat, to : Nat, tokens : Nat]
Passage == [first : Nat, last : Nat, tokens : Nat]

Shapes ==
    /\ IsText(text)
    /\ pc \in {"filling", "overlapping", "gluing", "done"}
    /\ start \in 0 .. n /\ end \in 0 .. n /\ next \in 0 .. n
    /\ drafts \in Seq(Draft) /\ out \in Seq(Passage)
    /\ glued \in 0 .. Len(drafts)
    /\ carry \in [first : Nat \ {0}, tokens : Nat]

\* A draft is a range of units that is not empty.
DraftsAreRanges ==
    \A k \in 1 .. Len(drafts) :
        /\ drafts[k].from < drafts[k].to /\ drafts[k].to <= n
        /\ drafts[k].tokens = Tokens(drafts[k].from, drafts[k].to)

\* The drafts cover the text up to the end of the last of them.
DraftsLeaveNoGap ==
    drafts # <<>> => \A u \in 0 .. drafts[Len(drafts)].to - 1 :
        \E k \in 1 .. Len(drafts) : drafts[k].from <= u /\ u < drafts[k].to

Filling ==
    /\ start < n /\ start <= end
    /\ drafts = <<>> => start = 0
    /\ drafts # <<>> =>
         LET last == drafts[Len(drafts)] IN
         /\ last.from < start /\ start <= last.to
         /\ Tokens(start, last.to) <= ChildOverlap
         /\ Tokens(start, n) >= ChildMin

Overlapping ==
    /\ drafts # <<>>
    /\ drafts[Len(drafts)].from = start /\ drafts[Len(drafts)].to = end
    /\ end < n /\ start < next /\ next <= end
    /\ Tokens(next, end) <= ChildOverlap
    /\ Tokens(end, n) >= ChildMin

WholeTextCut ==
    /\ n > 0 => drafts # <<>> /\ drafts[Len(drafts)].to = n
    /\ Len(drafts) > 1 => drafts[Len(drafts)].tokens >= ChildMin

LoopInv ==
    /\ pc = "filling" => Filling
    /\ pc = "overlapping" => Overlapping
    /\ pc \in {"gluing", "done"} => WholeTextCut

\* No unit is longer than a passage should be.
UnitsFit == \A i \in 1 .. n : Tokens(i - 1, i) <= ChildTarget

DraftSizes ==
    UnitsFit =>
        /\ pc = "filling" => Tokens(start, end) <= ChildTarget
        /\ \A k \in 1 .. Len(drafts) : drafts[k].tokens <= ChildTarget + ChildMin

\* What is held back is too short, and never left over.
CarryInv ==
    /\ carry.first <= glued + 1
    /\ carry.tokens <= ChildMin
    /\ carry.first <= glued => glued < Len(drafts)
    /\ pc \in {"filling", "overlapping"} => glued = 0 /\ out = <<>>
    /\ pc = "done" => glued = Len(drafts)

OutInv ==
    /\ Len(out) <= glued
    /\ \A k \in 1 .. Len(out) : out[k].first > 0 /\ out[k].last <= glued
    /\ \A i \in 1 .. carry.first - 1 :
         \E k \in 1 .. Len(out) : out[k].first <= i /\ i <= out[k].last
    /\ Len(drafts) > 1 => \A k \in 1 .. Len(out) : out[k].tokens >= ChildMin
    /\ UnitsFit => \A k \in 1 .. Len(out) : out[k].tokens <= ChildTarget + 2 * ChildMin

PassageInv ==
    /\ Shapes
    /\ DraftsAreRanges /\ DraftsLeaveNoGap /\ OverlapIsBounded
    /\ LoopInv /\ DraftSizes
    /\ CarryInv /\ OutInv

-----------------------------------------------------------------------------
(* Tokens *)

LEMMA TextFacts ==
    ASSUME IsText(text)
    PROVE  /\ n \in Nat
           /\ \A i \in 0 .. n : text.upto[i] \in Nat
           /\ \A i, j \in 0 .. n : i <= j => text.upto[i] <= text.upto[j]
BY DEF n, IsText

LEMMA TokensFacts ==
    ASSUME IsText(text)
    PROVE  /\ \A i, j \in 0 .. n : i <= j => Tokens(i, j) \in Nat
           /\ \A i \in 0 .. n : Tokens(i, i) = 0
           /\ \A i, j, k \in 0 .. n :
                i <= j /\ j <= k => Tokens(i, k) = Tokens(i, j) + Tokens(j, k)
BY TextFacts DEF Tokens

\* The text does not change while its passages are cut.
LEMMA SameText ==
    ASSUME text' = text
    PROVE  /\ n' = n /\ UnitsFit' = UnitsFit
           /\ \A i, j : (text'.upto[j] - text'.upto[i]) = Tokens(i, j)
BY DEF n, UnitsFit, Tokens

-----------------------------------------------------------------------------
LEMMA PassageInvInit == PassageInit => PassageInv
<1> SUFFICES ASSUME PassageInit PROVE PassageInv
    OBVIOUS
<1>1. /\ IsText(text) /\ n \in Nat
      /\ start = 0 /\ end = 0 /\ next = 0 /\ glued = 0 /\ drafts = <<>> /\ out = <<>>
      /\ carry = [first |-> 1, tokens |-> 0]
      /\ pc = IF n = 0 THEN "gluing" ELSE "filling"
    BY TextFacts, PassageAssumption DEF PassageInit, FirstLoop, n
<1>2. Shapes
    BY <1>1 DEF Shapes
<1>3. DraftsAreRanges /\ DraftsLeaveNoGap /\ OverlapIsBounded
    BY <1>1 DEF DraftsAreRanges, DraftsLeaveNoGap, OverlapIsBounded
<1>4. LoopInv
    BY <1>1 DEF LoopInv, Filling, WholeTextCut
<1>5. DraftSizes
  <2>1. Tokens(start, end) = 0
      BY <1>1, TokensFacts
  <2> QED  BY <1>1, <2>1, PassageAssumption DEF DraftSizes
<1>6. CarryInv /\ OutInv
    BY <1>1, PassageAssumption DEF CarryInv, OutInv
<1> QED  BY <1>2, <1>3, <1>4, <1>5, <1>6 DEF PassageInv

-----------------------------------------------------------------------------
(* Cutting *)

\* Steps that cut nothing leave what is known of the drafts alone.
LEMMA DraftsKept ==
    ASSUME DraftsAreRanges, DraftsLeaveNoGap, OverlapIsBounded,
           UNCHANGED <<text, drafts>>
    PROVE  DraftsAreRanges' /\ DraftsLeaveNoGap' /\ OverlapIsBounded'
BY DEF DraftsAreRanges, DraftsLeaveNoGap, OverlapIsBounded, Tokens, n

LEMMA OutKept ==
    ASSUME OutInv, UNCHANGED <<text, drafts, glued, carry, out>>
    PROVE  OutInv'
BY DEF OutInv, UnitsFit, Tokens, n

LEMMA FillKeeps == PassageInv /\ Fill => PassageInv'
<1> SUFFICES ASSUME PassageInv, Fill PROVE PassageInv'
    OBVIOUS
<1>1. /\ IsText(text) /\ n \in Nat /\ start \in 0 .. n /\ end \in 0 .. n
      /\ pc = "filling" /\ pc' = pc /\ end < n /\ end' = end + 1
      /\ UNCHANGED <<text, start, next, drafts, glued, carry, out>>
      /\ start <= end
    BY TextFacts DEF PassageInv, Shapes, Fill, Fits, LoopInv, Filling
<1>2. Shapes'
    BY <1>1 DEF PassageInv, Shapes, n
<1>3. LoopInv'
    BY <1>1 DEF PassageInv, LoopInv, Filling, Tokens, n
<1>4. DraftSizes'
  <2> SUFFICES ASSUME UnitsFit PROVE Tokens(start, end + 1) <= ChildTarget
      BY <1>1 DEF PassageInv, DraftSizes, UnitsFit, Tokens, n
  <2>1. CASE end = start
      BY <1>1, <2>1 DEF UnitsFit
  <2> QED  BY <2>1 DEF Fill, Fits
<1>5. CarryInv'
    BY <1>1 DEF PassageInv, CarryInv
<1> QED  BY <1>1, <1>2, <1>3, <1>4, <1>5, DraftsKept, OutKept DEF PassageInv

LEMMA CutKeeps == PassageInv /\ Cut => PassageInv'
<1> SUFFICES ASSUME PassageInv, Cut PROVE PassageInv'
    OBVIOUS
<1> DEFINE d == [from |-> start, to |-> Stop, tokens |-> Tokens(start, Stop)]
           len == Len(drafts)
<1>1. /\ IsText(text) /\ n \in Nat /\ start \in 0 .. n /\ end \in 0 .. n
      /\ drafts \in Seq(Draft) /\ len \in Nat
      /\ pc = "filling" /\ Filling /\ ~Fits
    BY TextFacts DEF PassageInv, Shapes, LoopInv, Cut
<1>2. /\ drafts' = Append(drafts, d) /\ end' = Stop /\ next' = Stop
      /\ pc' = IF Stop = n THEN "gluing" ELSE "overlapping"
      /\ UNCHANGED <<text, start, glued, carry, out>>
    BY DEF Cut
<1>3. /\ Stop \in 0 .. n /\ end <= Stop /\ start < Stop
      /\ Stop < n => Stop = end /\ Tokens(end, n) >= ChildMin
      /\ Stop # end => Stop = n /\ Tokens(end, n) < ChildMin
  <2>1. start < end
      BY <1>1 DEF Fits, Filling
  <2>2. n \in 0 .. n /\ end <= n
      BY <1>1
  <2>3. Tokens(end, n) \in Nat /\ ChildMin \in Nat
      BY <1>1, <2>2, TokensFacts, PassageAssumption
  <2> QED  BY <1>1, <2>1, <2>3 DEF Stop
<1>4. Tokens(start, Stop) \in Nat /\ d \in Draft
  <2>1. start \in Nat /\ Stop \in Nat /\ start <= Stop
      BY <1>1, <1>3
  <2>2. Tokens(start, Stop) \in Nat
      BY <1>1, <1>3, <2>1, TokensFacts
  <2> QED  BY <2>1, <2>2 DEF Draft
<1> HIDE DEF d, len
<1>5. /\ d.from = start /\ d.to = Stop /\ d.tokens = Tokens(start, Stop)
    BY DEF d
<1>6. /\ Len(drafts') = len + 1 /\ drafts' \in Seq(Draft) /\ drafts' # <<>>
      /\ \A k \in 1 .. len : drafts'[k] = drafts[k]
      /\ drafts'[len + 1] = d
      /\ drafts # <<>> => len \in 1 .. len
      /\ drafts = <<>> => len = 0
    BY <1>1, <1>2, <1>4 DEF len
<1>7. Shapes'
    BY <1>1, <1>2, <1>3, <1>6 DEF PassageInv, Shapes, n, len
<1>8. DraftsAreRanges'
  <2> SUFFICES ASSUME NEW k \in 1 .. len + 1
               PROVE  /\ drafts'[k].from < drafts'[k].to /\ drafts'[k].to <= n
                      /\ drafts'[k].tokens = Tokens(drafts'[k].from, drafts'[k].to)
      BY <1>2, <1>6 DEF DraftsAreRanges, Tokens, n
  <2>1. CASE k \in 1 .. len
      BY <1>6, <2>1 DEF PassageInv, DraftsAreRanges, len
  <2>2. CASE k = len + 1
      BY <1>3, <1>5, <1>6, <2>2
  <2> QED  BY <1>1, <2>1, <2>2
<1>9. DraftsLeaveNoGap'
  <2> SUFFICES ASSUME NEW u \in 0 .. Stop - 1
               PROVE  \E k \in 1 .. len + 1 : drafts'[k].from <= u /\ u < drafts'[k].to
      BY <1>5, <1>6 DEF DraftsLeaveNoGap
  <2>1. CASE start <= u
      BY <1>1, <1>3, <1>5, <1>6, <2>1
  <2>2. CASE u < start
    <3>1. drafts # <<>> /\ start <= drafts[len].to /\ len \in 1 .. len /\ drafts[len] \in Draft
        BY <1>1, <1>6, <2>2 DEF Filling, len
    <3>2. u \in 0 .. drafts[len].to - 1
        BY <1>1, <2>2, <3>1, SMTT(30) DEF Draft
    <3>3. PICK k \in 1 .. len : drafts[k].from <= u /\ u < drafts[k].to
        BY <3>1, <3>2 DEF PassageInv, DraftsLeaveNoGap, len
    <3> QED  BY <1>1, <1>6, <3>3
  <2> QED  BY <1>1, <2>1, <2>2
<1>10. OverlapIsBounded'
  <2> SUFFICES ASSUME NEW k \in 1 .. len
               PROVE  /\ drafts'[k].from < drafts'[k + 1].from
                      /\ drafts'[k + 1].from <= drafts'[k].to
                      /\ Tokens(drafts'[k + 1].from, drafts'[k].to) <= ChildOverlap
      BY <1>1, <1>2, <1>6 DEF OverlapIsBounded, Tokens
  <2>1. CASE k < len
    <3>1. k \in 1 .. len - 1 /\ k + 1 \in 1 .. len
        BY <1>1, <2>1
    <3> QED  BY <1>6, <3>1 DEF PassageInv, OverlapIsBounded, len
  <2>2. CASE k = len
    <3>1. drafts # <<>>
        BY <1>6, <2>2
    <3> QED  BY <1>1, <1>5, <1>6, <2>2, <3>1 DEF Filling, len
  <2> QED  BY <1>1, <2>1, <2>2
<1>11. LoopInv'
  <2>1. CASE Stop = n
    <3>1. len > 0 => d.tokens >= ChildMin
        BY <1>1, <1>5, <1>6, <2>1 DEF Filling
    <3>2. pc' = "gluing" /\ n' = n
        BY <1>2, <2>1 DEF n
    <3> QED  BY <1>1, <1>5, <1>6, <2>1, <3>1, <3>2 DEF LoopInv, WholeTextCut
  <2>2. CASE Stop # n
    <3>1. pc' = "overlapping" /\ Stop = end /\ end < n /\ Tokens(end, n) >= ChildMin
        BY <1>1, <1>2, <1>3, <2>2
    <3>2. Tokens(Stop, Stop) = 0 /\ ChildOverlap \in Nat
        BY <1>1, <1>3, TokensFacts, PassageAssumption
    <3>3. Overlapping'
        BY <1>1, <1>2, <1>3, <1>5, <1>6, <3>1, <3>2 DEF Overlapping, Tokens, n
    <3> QED  BY <3>1, <3>3 DEF LoopInv
  <2> QED  BY <2>1, <2>2
<1>12. DraftSizes'
  <2> SUFFICES ASSUME UnitsFit, NEW k \in 1 .. len + 1
               PROVE  drafts'[k].tokens <= ChildTarget + ChildMin
      BY <1>2, <1>6 DEF DraftSizes, UnitsFit, Tokens, n
  <2>1. CASE k \in 1 .. len
      BY <1>6, <2>1 DEF PassageInv, DraftSizes, len
  <2>2. CASE k = len + 1
    <3>1. Tokens(start, end) <= ChildTarget
        BY <1>1 DEF PassageInv, DraftSizes
    <3>2. /\ Tokens(start, Stop) = Tokens(start, end) + Tokens(end, Stop)
          /\ Tokens(end, Stop) \in Nat /\ Tokens(start, end) \in Nat
          /\ Tokens(end, end) = 0
        BY <1>1, <1>3, TokensFacts DEF Filling
    <3>3. Tokens(end, Stop) <= ChildMin
        BY <1>3, <3>2, PassageAssumption
    <3> QED  BY <1>5, <1>6, <2>2, <3>1, <3>2, <3>3, PassageAssumption
  <2> QED  BY <1>1, <2>1, <2>2
<1>13. CarryInv' /\ OutInv'
  <2>1. glued = 0 /\ out = <<>> /\ carry.first <= 1 /\ carry.tokens <= ChildMin
        /\ carry.first \in Nat \ {0}
      BY <1>1 DEF PassageInv, CarryInv, Shapes
  <2> QED  BY <1>1, <1>2, <1>3, <1>6, <2>1 DEF CarryInv, OutInv
<1> QED
    BY <1>7, <1>8, <1>9, <1>10, <1>11, <1>12, <1>13 DEF PassageInv

LEMMA StepBackKeeps == PassageInv /\ StepBack => PassageInv'
<1> SUFFICES ASSUME PassageInv, StepBack PROVE PassageInv'
    OBVIOUS
<1>1. /\ IsText(text) /\ n \in Nat /\ start \in 0 .. n /\ next \in 0 .. n
      /\ pc = "overlapping" /\ Overlapping /\ next' = next - 1
      /\ UNCHANGED <<text, pc, start, end, drafts, glued, carry, out>>
      /\ next > start + 1 /\ Tokens(next - 1, end) <= ChildOverlap
    BY TextFacts DEF PassageInv, Shapes, StepBack, MayStepBack, LoopInv
<1>2. Shapes'
    BY <1>1 DEF PassageInv, Shapes, n
<1>3. LoopInv'
    BY <1>1 DEF LoopInv, Overlapping, Tokens, n, PassageInv, Shapes
<1>4. DraftSizes'
    BY <1>1 DEF PassageInv, DraftSizes, UnitsFit, Tokens, n
<1>5. CarryInv'
    BY <1>1 DEF PassageInv, CarryInv
<1> QED  BY <1>1, <1>2, <1>3, <1>4, <1>5, DraftsKept, OutKept DEF PassageInv

LEMMA RestartKeeps == PassageInv /\ Restart => PassageInv'
<1> SUFFICES ASSUME PassageInv, Restart PROVE PassageInv'
    OBVIOUS
<1>1. /\ IsText(text) /\ n \in Nat /\ next \in 0 .. n /\ end \in 0 .. n
      /\ pc = "overlapping" /\ Overlapping
      /\ start' = next /\ end' = next /\ pc' = "filling"
      /\ UNCHANGED <<text, next, drafts, glued, carry, out>>
    BY TextFacts DEF PassageInv, Shapes, Restart, LoopInv
<1>2. Shapes'
    BY <1>1 DEF PassageInv, Shapes, n
<1>3. LoopInv'
  <2>1. next <= end /\ end < n
      BY <1>1 DEF Overlapping
  <2>2. /\ Tokens(next, n) = Tokens(next, end) + Tokens(end, n)
        /\ Tokens(next, end) \in Nat /\ Tokens(end, n) \in Nat /\ Tokens(end, n) >= ChildMin
      BY <1>1, <2>1, TokensFacts DEF Overlapping
  <2>3. Tokens(next, n) >= ChildMin
      BY <2>2, PassageAssumption
  <2> QED  BY <1>1, <2>1, <2>3 DEF LoopInv, Filling, Overlapping, Tokens, n
<1>4. DraftSizes'
  <2>1. Tokens(next, next) = 0 /\ ChildTarget \in Nat
      BY <1>1, TokensFacts, PassageAssumption
  <2> QED  BY <1>1, <2>1 DEF PassageInv, DraftSizes, UnitsFit, Tokens, n
<1>5. CarryInv'
    BY <1>1 DEF PassageInv, CarryInv
<1> QED  BY <1>1, <1>2, <1>3, <1>4, <1>5, DraftsKept, OutKept DEF PassageInv

-----------------------------------------------------------------------------
(* Gluing *)

\* Gluing leaves the cuts alone.
LEMMA CutsKept ==
    ASSUME PassageInv, pc = "gluing", pc' \in {"gluing", "done"},
           UNCHANGED <<text, start, end, next, drafts>>
    PROVE  /\ DraftsAreRanges' /\ DraftsLeaveNoGap' /\ OverlapIsBounded'
           /\ LoopInv' /\ DraftSizes'
<1>1. LoopInv'
    BY DEF PassageInv, LoopInv, WholeTextCut, n
<1>2. DraftSizes'
    BY DEF PassageInv, DraftSizes, UnitsFit, Tokens, n
<1> QED  BY <1>1, <1>2, DraftsKept DEF PassageInv

LEMMA GlueKeeps == PassageInv /\ Glue => PassageInv'
<1> SUFFICES ASSUME PassageInv, Glue PROVE PassageInv'
    OBVIOUS
<1> DEFINE g == glued + 1
           p == [first |-> carry.first, last |-> g, tokens |-> Held]
<1>1. /\ IsText(text) /\ drafts \in Seq(Draft) /\ out \in Seq(Passage)
      /\ Len(drafts) \in Nat /\ glued \in 0 .. Len(drafts) /\ glued < Len(drafts)
      /\ carry.first \in Nat \ {0} /\ carry.tokens \in Nat
      /\ carry \in [first : Nat \ {0}, tokens : Nat]
      /\ pc = "gluing" /\ pc' = pc /\ glued' = g
      /\ UNCHANGED <<text, start, end, next, drafts>>
    BY DEF PassageInv, Shapes, Glue
<1>2. /\ g \in 1 .. Len(drafts) /\ drafts[g].tokens \in Nat
      /\ Held = carry.tokens + drafts[g].tokens /\ Held \in Nat
      /\ ChildMin \in Nat /\ ChildTarget \in Nat
  <2>1. g \in 1 .. Len(drafts)
      BY <1>1
  <2>2. drafts[g] \in Draft
      BY <1>1, <2>1
  <2>3. drafts[g].tokens \in Nat
      BY <2>2 DEF Draft
  <2> QED  BY <1>1, <2>1, <2>3, PassageAssumption DEF Held
<1>3. /\ carry.first <= glued + 1 /\ carry.tokens <= ChildMin
      /\ Len(out) <= glued /\ Len(out) \in Nat
      /\ \A k \in 1 .. Len(out) : out[k].first > 0 /\ out[k].last <= glued
      /\ \A i \in 1 .. carry.first - 1 :
           \E k \in 1 .. Len(out) : out[k].first <= i /\ i <= out[k].last
      /\ Len(drafts) > 1 => \A k \in 1 .. Len(out) : out[k].tokens >= ChildMin
      /\ UnitsFit => \A k \in 1 .. Len(out) : out[k].tokens <= ChildTarget + 2 * ChildMin
    BY <1>1 DEF PassageInv, CarryInv, OutInv
<1>a. \A k \in 1 .. Len(out) : out[k].last \in Nat
  <2>1. \A k \in 1 .. Len(out) : out[k] \in Passage
      BY <1>1
  <2> QED  BY <2>1 DEF Passage
<1> HIDE DEF g, p
<1>4. CASE TooShort
  <2>1. /\ carry' = [carry EXCEPT !.tokens = Held] /\ out' = out
        /\ Held < ChildMin /\ Len(drafts) > 1
      BY <1>4 DEF Glue, TooShort
  <2>2. carry'.first = carry.first /\ carry'.tokens = Held
        /\ carry' \in [first : Nat \ {0}, tokens : Nat]
      BY <1>1, <1>2, <2>1
  <2>3. g < Len(drafts)
    <3> SUFFICES ASSUME g = Len(drafts) PROVE FALSE
        BY <1>1, <1>2
    <3>1. drafts[g].tokens >= ChildMin
        BY <1>1, <2>1 DEF PassageInv, LoopInv, WholeTextCut
    <3> QED  BY <1>1, <1>2, <2>1, <3>1
  <2>4. Shapes'
      BY <1>1, <1>2, <2>1, <2>2, SMTT(30) DEF PassageInv, Shapes, n
  <2>5. CarryInv'
      BY <1>1, <1>2, <1>3, <2>1, <2>2, <2>3, SMTT(30) DEF CarryInv, g
  <2>6. OutInv'
    <3>1. UnitsFit' = UnitsFit
        BY <1>1, SameText
    <3>2. \A k \in 1 .. Len(out) : out[k].last <= g
        BY <1>1, <1>3, <1>a DEF g
    <3> QED  BY <1>1, <1>2, <1>3, <2>1, <2>2, <3>1, <3>2 DEF OutInv, g
  <2> QED  BY <1>1, <2>4, <2>5, <2>6, CutsKept DEF PassageInv
<1>5. CASE ~TooShort
  <2>1. out' = Append(out, p) /\ carry' = [first |-> g + 1, tokens |-> 0]
      BY <1>1, <1>5 DEF Glue, p, g
  <2>2. p \in Passage /\ p.first = carry.first /\ p.last = g /\ p.tokens = Held
      BY <1>1, <1>2 DEF p, Passage
  <2>3. /\ Len(out') = Len(out) + 1 /\ out' \in Seq(Passage)
        /\ \A k \in 1 .. Len(out) : out'[k] = out[k]
        /\ out'[Len(out) + 1] = p
      BY <1>1, <2>1, <2>2
  <2>4. /\ Len(drafts) > 1 => Held >= ChildMin
        /\ UnitsFit => Held <= ChildTarget + 2 * ChildMin
    <3>1. Len(drafts) > 1 => Held >= ChildMin
        BY <1>2, <1>5 DEF TooShort
    <3>2. UnitsFit => drafts[g].tokens <= ChildTarget + ChildMin
        BY <1>2 DEF PassageInv, DraftSizes
    <3> QED  BY <1>1, <1>2, <1>3, <3>1, <3>2
  <2>5. carry'.first = g + 1 /\ carry'.tokens = 0
        /\ carry' \in [first : Nat \ {0}, tokens : Nat]
      BY <1>1, <1>2, <2>1
  <2>6. Shapes'
      BY <1>1, <1>2, <2>3, <2>5 DEF PassageInv, Shapes, n
  <2>7. CarryInv'
      BY <1>1, <1>2, <2>5 DEF CarryInv
  <2>8. OutInv'
    <3>1. Len(out') <= g
        BY <1>1, <1>3, <2>3 DEF g
    <3>2. ASSUME NEW i \in 1 .. g
          PROVE  \E k \in 1 .. Len(out') : out'[k].first <= i /\ i <= out'[k].last
      <4>1. CASE i < carry.first
        <5>1. i \in 1 .. carry.first - 1
            BY <1>1, <1>2, <4>1
        <5>2. PICK k \in 1 .. Len(out) : out[k].first <= i /\ i <= out[k].last
            BY <1>3, <5>1
        <5> QED  BY <1>3, <2>3, <5>2
      <4>2. CASE i >= carry.first
          BY <1>1, <1>2, <1>3, <2>2, <2>3, <4>2
      <4> QED  BY <1>1, <1>2, <4>1, <4>2
    <3>3. \A k \in 1 .. Len(out') : k \in 1 .. Len(out) \/ k = Len(out) + 1
        BY <1>3, <2>3
    <3>4. Len(drafts) > 1 => \A k \in 1 .. Len(out') : out'[k].tokens >= ChildMin
        BY <1>3, <2>2, <2>3, <2>4, <3>3
    <3>5. UnitsFit =>
            \A k \in 1 .. Len(out') : out'[k].tokens <= ChildTarget + 2 * ChildMin
        BY <1>3, <2>2, <2>3, <2>4, <3>3
    <3>6. UnitsFit' = UnitsFit
        BY <1>1, SameText
    <3>8. \A k \in 1 .. Len(out') : out'[k].first > 0 /\ out'[k].last <= g
      <4>1. \A k \in 1 .. Len(out) : out[k].last <= g
          BY <1>1, <1>3, <1>a DEF g
      <4>2. p.first > 0 /\ p.last <= g
          BY <1>1, <1>2, <2>2
      <4> QED  BY <1>3, <2>3, <3>3, <4>1, <4>2
    <3>7. carry'.first - 1 = g /\ glued' = g /\ drafts' = drafts
        BY <1>1, <1>2, <2>5
    <3> QED  BY <3>1, <3>2, <3>4, <3>5, <3>6, <3>7, <3>8 DEF OutInv
  <2> QED  BY <1>1, <2>6, <2>7, <2>8, CutsKept DEF PassageInv
<1> QED  BY <1>4, <1>5

LEMMA FinishKeeps == PassageInv /\ Finish => PassageInv'
<1> SUFFICES ASSUME PassageInv, Finish PROVE PassageInv'
    OBVIOUS
<1>1. /\ Len(drafts) \in Nat /\ glued = Len(drafts) /\ glued' = glued
      /\ carry.first \in Nat \ {0} /\ carry.first <= glued + 1
      /\ carry.first <= glued => glued < Len(drafts)
      /\ pc = "gluing" /\ pc' = "done"
      /\ carry' = [first |-> glued + 1, tokens |-> 0]
      /\ UNCHANGED <<text, start, end, next, drafts>>
    BY DEF PassageInv, Shapes, CarryInv, Finish
<1>2. carry.first = glued + 1 /\ out' = out
    BY <1>1 DEF Finish, LastGlued
<1>3. carry'.first = carry.first /\ carry'.tokens = 0
      /\ carry' \in [first : Nat \ {0}, tokens : Nat]
    BY <1>1, <1>2
<1>4. Shapes'
    BY <1>1, <1>2, <1>3 DEF PassageInv, Shapes, n
<1>5. CarryInv'
    BY <1>1, <1>2, <1>3, PassageAssumption DEF CarryInv
<1>6. OutInv'
  <2>1. UnitsFit' = UnitsFit
      BY <1>1, SameText
  <2> QED  BY <1>1, <1>2, <1>3, <2>1 DEF PassageInv, OutInv
<1> QED  BY <1>1, <1>4, <1>5, <1>6, CutsKept DEF PassageInv

-----------------------------------------------------------------------------
(* Theorems *)

LEMMA PassageInvStep == PassageInv /\ [PassageNext]_passageVars => PassageInv'
<1>1. PassageInv /\ UNCHANGED passageVars => PassageInv'
    BY DEF passageVars, PassageInv, Shapes, DraftsAreRanges, DraftsLeaveNoGap,
           OverlapIsBounded, LoopInv, Filling, Overlapping, WholeTextCut, DraftSizes,
           CarryInv, OutInv, UnitsFit, Tokens, n
<1> QED
    BY <1>1, FillKeeps, CutKeeps, StepBackKeeps, RestartKeeps, GlueKeeps, FinishKeeps
    DEF PassageNext

\* A section that is loaded.
LEMMA LoadKeeps == ASSUME NEW t, IsText(t), Load(t) PROVE PassageInv'
<1>1. /\ IsText(text') /\ n' \in Nat /\ n' = t.n /\ text' = t
      /\ start' = 0 /\ end' = 0 /\ next' = 0 /\ glued' = 0 /\ drafts' = <<>> /\ out' = <<>>
      /\ carry' = [first |-> 1, tokens |-> 0]
      /\ pc' = IF n' = 0 THEN "gluing" ELSE "filling"
    BY DEF Load, FirstLoop, n, IsText
<1>2. Shapes'
    BY <1>1 DEF Shapes
<1>3. DraftsAreRanges' /\ DraftsLeaveNoGap' /\ OverlapIsBounded'
    BY <1>1 DEF DraftsAreRanges, DraftsLeaveNoGap, OverlapIsBounded
<1>4. LoopInv'
    BY <1>1 DEF LoopInv, Filling, WholeTextCut
<1>5. DraftSizes'
  <2>1. t.upto[0] - t.upto[0] = 0
      BY <1>1 DEF IsText
  <2> QED  BY <1>1, <2>1, PassageAssumption DEF DraftSizes, Tokens
<1>6. CarryInv' /\ OutInv'
    BY <1>1, PassageAssumption DEF CarryInv, OutInv
<1> QED  BY <1>2, <1>3, <1>4, <1>5, <1>6 DEF PassageInv

LEMMA PassageInvariant == PassageSpec => []PassageInv
BY PassageInvInit, PassageInvStep, PTL DEF PassageSpec

\* Whatever the overlap is set to, every passage starts behind the one before it,
\* leaves no gap to it and shares no more with it than the overlap.
THEOREM OverlapBounded == PassageSpec => []OverlapIsBounded
<1>1. PassageInv => OverlapIsBounded
    BY DEF PassageInv
<1> QED  BY <1>1, PassageInvariant, PTL

\* Of several passages none is a fragment, and gluing makes none too large.
THEOREM SizesBounded == PassageSpec => []PassageSizesAreBounded
<1>1. PassageInv => PassageSizesAreBounded
  <2> SUFFICES ASSUME PassageInv PROVE PassageSizesAreBounded
      OBVIOUS
  <2>1. /\ out \in Seq(Passage) /\ drafts \in Seq(Draft) /\ glued \in 0 .. Len(drafts)
        /\ DOMAIN out = 1 .. Len(out) /\ Len(out) \in Nat /\ Len(drafts) \in Nat
      BY DEF PassageInv, Shapes
  <2>2. pc = "done" /\ Len(out) > 1 => \A k \in DOMAIN out : out[k].tokens >= ChildMin
      BY <2>1 DEF PassageInv, OutInv
  <2>3. UnitsFit => \A k \in DOMAIN out : out[k].tokens <= ChildTarget + 2 * ChildMin
      BY <2>1 DEF PassageInv, OutInv
  <2> QED  BY <2>2, <2>3 DEF PassageSizesAreBounded, UnitsFit
<1> QED  BY <1>1, PassageInvariant, PTL

LEMMA SentencesCovered == PassageInv => EverySentenceIsInAPassage
<1> SUFFICES ASSUME PassageInv, pc = "done", NEW u \in 0 .. n - 1
             PROVE  \E k \in DOMAIN out : u \in UnitsOf(k)
    BY DEF EverySentenceIsInAPassage
<1>1. /\ n \in Nat /\ DOMAIN out = 1 .. Len(out)
      /\ drafts \in Seq(Draft) /\ Len(drafts) \in Nat /\ out \in Seq(Passage)
    BY TextFacts DEF PassageInv, Shapes
<1>2. drafts # <<>> /\ drafts[Len(drafts)].to = n
    BY <1>1 DEF PassageInv, LoopInv, WholeTextCut
<1>3. PICK i \in 1 .. Len(drafts) : drafts[i].from <= u /\ u < drafts[i].to
    BY <1>2 DEF PassageInv, DraftsLeaveNoGap
<1>4. carry.first = Len(drafts) + 1
    BY <1>1 DEF PassageInv, CarryInv, Shapes
<1>5. PICK k \in 1 .. Len(out) : out[k].first <= i /\ i <= out[k].last
    BY <1>1, <1>4 DEF PassageInv, OutInv
<1>6. i \in out[k].first .. out[k].last
    BY <1>1, <1>5 DEF Passage
<1>7. u \in drafts[i].from .. drafts[i].to - 1
  <2>1. drafts[i] \in Draft /\ u \in Nat
      BY <1>1
  <2> QED  BY <1>3, <2>1 DEF Draft
<1> QED  BY <1>1, <1>6, <1>7 DEF UnitsOf

\* No sentence of any section is lost between the cuts and the gluing.
THEOREM NoSentenceLost == PassageSpec => []EverySentenceIsInAPassage
BY SentencesCovered, PassageInvariant, PTL

-----------------------------------------------------------------------------
(* The units of a section *)

Unit == Nat \X Nat \X Nat

LEMMA PieceSizesIn == \A t \in Nat : PieceSizes(t) \in Seq(Nat)
<1> SUFFICES ASSUME NEW t \in Nat PROVE PieceSizes(t) \in Seq(Nat)
    OBVIOUS
<1>1. PICK step \in Nat \ {0} : step = Larger(ChildTarget, 1)
    BY PassageAssumption DEF Larger
<1>2. CASE t <= ChildTarget
    BY <1>2 DEF PieceSizes
<1>3. CASE ~(t <= ChildTarget)
  <2>1. PICK k : k = (t + step - 1) \div step
      OBVIOUS
  <2>2. k \in Nat
      BY <1>1, <2>1
  <2>3. PICK q : q = [i \in 1 .. k |-> IF i * step <= t THEN step ELSE t % step]
      OBVIOUS
  <2>4. q \in [1 .. k -> Nat]
    <3>1. t % step \in Nat /\ step \in Nat
        BY <1>1
    <3> QED  BY <2>3, <3>1
  <2>5. q \in UNION {[1 .. m -> Nat] : m \in Nat}
      BY <2>2, <2>4
  <2>6. q \in Seq(Nat)
      BY <2>5, SeqDef, Zenon
  <2>7. PieceSizes(t) = q
      BY <1>1, <1>3, <2>1, <2>3, Zenon DEF PieceSizes
  <2> QED  BY <2>6, <2>7
<1> QED  BY <1>2, <1>3

\* Every piece of a sentence is a unit.
LEMMA UnitsOfWord ==
    ASSUME NEW x \in Word
    PROVE  /\ UnitsIn(x) \in Seq(Unit)
           /\ \A p \in DOMAIN PieceSizes(x[2]) : \E u \in ToSet(UnitsIn(x)) : u[1] = x[1] /\ u[2] = p
<1>1. x[1] \in Nat /\ x[2] \in Nat
    BY DEF Word
<1>2. PICK ps \in Seq(Nat) : ps = PieceSizes(x[2])
    BY <1>1, PieceSizesIn
<1>3. PICK k \in Nat : k = Len(ps) /\ DOMAIN ps = 1 .. k /\ \A i \in 1 .. k : ps[i] \in Nat
    BY Elements
<1>4. PICK q : q = [i \in 1 .. k |-> <<x[1], i, ps[i]>>]
    OBVIOUS
<1>5. UnitsIn(x) = q
    BY <1>2, <1>3, <1>4 DEF UnitsIn
<1>6. q \in [1 .. k -> Unit]
    BY <1>1, <1>3, <1>4 DEF Unit
<1>7. q \in UNION {[1 .. m -> Unit] : m \in Nat}
    BY <1>6
<1>8. q \in Seq(Unit)
    BY <1>7, SeqDef, Zenon
<1>9. ASSUME NEW p \in 1 .. k PROVE \E u \in ToSet(q) : u[1] = x[1] /\ u[2] = p
  <2>1. q[p] \in ToSet(q) /\ q[p] = <<x[1], p, ps[p]>>
      BY <1>4 DEF ToSet
  <2> QED  BY <2>1
<1> QED  BY <1>2, <1>3, <1>5, <1>8, <1>9

UnitsMore(none, all, x) == all \o UnitsIn(x)
UnitFolds == INSTANCE FoldLaws WITH Op <- UnitsMore
UnitList(t) == UnitFolds!Fold({}, <<>>, t)

LEMMA UnitsFold == ASSUME NEW s PROVE Units(s) = UnitList(TextsOf(s.paragraphs))
BY Zenon DEF Units, UnitList, UnitFolds!Fold, UnitsMore, FoldLeft, MapThenFoldSet, Max, UnitFolds!Greatest

LEMMA UnitsIncluded ==
    \A t \in Text : /\ UnitList(t) \in Seq(Unit)
                    /\ \A x \in ToSet(t) : ToSet(UnitsIn(x)) \subseteq ToSet(UnitList(t))
<1> DEFINE A == {t \in Text : /\ UnitList(t) \in Seq(Unit)
                              /\ \A x \in ToSet(t) : ToSet(UnitsIn(x)) \subseteq ToSet(UnitList(t))}
<1>1. <<>> \in A
  <2>1. UnitList(<<>>) = <<>>
      BY UnitFolds!FoldOfNothing DEF UnitList
  <2>2. <<>> \in Text /\ <<>> \in Seq(Unit) /\ ToSet(<<>>) = {}
      BY TextJoins, EmptySeq
  <2>3. \A x \in ToSet(<<>>) : ToSet(UnitsIn(x)) \subseteq ToSet(UnitList(<<>>))
      BY <2>2
  <2> QED  BY <2>1, <2>2, <2>3
<1>2. ASSUME NEW t \in Seq(Word), NEW x \in Word, t \in A PROVE Append(t, x) \in A
  <2>1. PICK us \in Seq(Unit) : us = UnitList(t) /\ \A y \in ToSet(t) : ToSet(UnitsIn(y)) \subseteq ToSet(us)
      BY <1>2
  <2>2. PICK xs \in Seq(Unit) : xs = UnitsIn(x)
      BY UnitsOfWord
  <2>3. UnitList(Append(t, x)) = us \o xs
    <3>1. UnitFolds!Fold({}, <<>>, Append(t, x)) = UnitsMore({}, UnitFolds!Fold({}, <<>>, t), x)
        BY UnitFolds!FoldOfAppend
    <3> QED  BY <2>1, <2>2, <3>1 DEF UnitList, UnitsMore
  <2>4. us \o xs \in Seq(Unit) /\ ToSet(us \o xs) = ToSet(us) \cup ToSet(xs)
      BY JoinedSets
  <2>5. Append(t, x) \in Text /\ ToSet(Append(t, x)) = ToSet(t) \cup {x}
      BY OneMore DEF Text
  <2>6. ASSUME NEW y \in ToSet(Append(t, x)) PROVE ToSet(UnitsIn(y)) \subseteq ToSet(us \o xs)
      BY <2>1, <2>2, <2>4, <2>5
  <2> QED  BY <2>3, <2>4, <2>5, <2>6
<1>3. \A t \in Seq(Word) : t \in A
  <2> HIDE DEF A
  <2> QED  BY <1>1, <1>2, UnitFolds!SeqsOfSet
<1> QED  BY <1>3 DEF Text

-----------------------------------------------------------------------------
(* As a text of Passages *)

Counting(none, sum, u) == sum + u[3]
Counts == INSTANCE FoldLaws WITH Op <- Counting

LEMMA SizeFolds == ASSUME NEW units PROVE SizeOf(units) = Counts!Fold({}, 0, units)
BY Zenon DEF SizeOf, Counts!Fold, Counting, FoldLeft, MapThenFoldSet, Max, Counts!Greatest

LEMMA SizeMore ==
    ASSUME NEW units \in Seq(Unit), NEW u \in Unit
    PROVE  SizeOf(Append(units, u)) = SizeOf(units) + u[3]
<1>1. Counts!Fold({}, 0, Append(units, u)) = Counting({}, Counts!Fold({}, 0, units), u)
    BY Counts!FoldOfAppend
<1> QED  BY <1>1, SizeFolds DEF Counting

LEMMA SizeIn == SizeOf(<<>>) = 0 /\ \A units \in Seq(Unit) : SizeOf(units) \in Nat
<1> DEFINE A == {units \in Seq(Unit) : SizeOf(units) \in Nat}
<1>0. SizeOf(<<>>) = 0
    BY SizeFolds, Counts!FoldOfNothing
<1>1. <<>> \in A
    BY <1>0, EmptySeq
<1>2. ASSUME NEW s \in Seq(Unit), NEW x \in Unit, s \in A PROVE Append(s, x) \in A
  <2>1. x[3] \in Nat
      BY DEF Unit
  <2>2. PICK k \in Nat : k = SizeOf(s)
      BY <1>2
  <2> QED  BY <2>1, <2>2, SizeMore, AppendProperties
<1>3. \A s \in Seq(Unit) : s \in A
  <2> HIDE DEF A
  <2> QED  BY <1>1, <1>2, Counts!SeqsOfSet
<1> QED  BY <1>0, <1>3

\* The beginnings of a list of units have sizes that do not fall.
Climbs(s) == \A i, j \in 0 .. Len(s) : i <= j => SizeOf(SubSeq(s, 1, i)) <= SizeOf(SubSeq(s, 1, j))

LEMMA SizesClimb == \A s \in Seq(Unit) : Climbs(s)
<1> DEFINE A == {s \in Seq(Unit) : Climbs(s)}
<1>1. <<>> \in A
  <2>1. PICK none \in Seq(Unit) : none = <<>> /\ Len(none) = 0
      BY NoElements
  <2>2. SubSeq(none, 1, 0) = <<>>
      BY BeginsEmpty
  <2>3. \A i, j \in 0 .. 0 : i = 0 /\ j = 0
      OBVIOUS
  <2>4. Climbs(none)
      BY <2>1, <2>2, <2>3, SizeIn DEF Climbs
  <2> QED  BY <2>1, <2>4
<1>2. ASSUME NEW s \in Seq(Unit), NEW x \in Unit, s \in A PROVE Append(s, x) \in A
  <2>1. PICK w \in Seq(Unit) : w = Append(s, x)
      BY AppendProperties
  <2>2. PICK k \in Nat : k = Len(s) /\ Len(w) = k + 1
      BY <2>1, AppendProperties
  <2>3. \A i \in 0 .. k : SubSeq(w, 1, i) = SubSeq(s, 1, i)
      BY <2>1, <2>2, BeginningOfAppend
  <2>4. SubSeq(w, 1, k + 1) = w /\ SubSeq(s, 1, k) = s
      BY <2>2, SubSeqFull
  <2>5. SizeOf(s) \in Nat /\ SizeOf(s) <= SizeOf(w)
    <3>1. x[3] \in Nat
        BY DEF Unit
    <3>2. PICK c \in Nat : c = SizeOf(s)
        BY SizeIn
    <3>3. SizeOf(w) = c + x[3]
        BY <2>1, <3>2, SizeMore
    <3> QED  BY <3>1, <3>2, <3>3
  <2>6. \A i \in 0 .. k : SizeOf(SubSeq(s, 1, i)) \in Nat
    <3>1. \A i \in 0 .. k : SubSeq(s, 1, i) \in Seq(Unit)
        BY <2>2, Beginning
    <3> QED  BY <3>1, SizeIn
  <2>7. ASSUME NEW i \in 0 .. k + 1, NEW j \in 0 .. k + 1, i <= j
        PROVE  SizeOf(SubSeq(w, 1, i)) <= SizeOf(SubSeq(w, 1, j))
    <3>1. \A a, b \in 0 .. k : a <= b => SizeOf(SubSeq(s, 1, a)) <= SizeOf(SubSeq(s, 1, b))
        BY <1>2, <2>2 DEF Climbs
    <3>2. SizeOf(w) \in Nat
        BY SizeIn
    <3>3. CASE j \in 0 .. k
      <4>1. i \in 0 .. k
          BY <2>7, <3>3
      <4> QED  BY <2>3, <2>7, <3>1, <3>3, <4>1
    <3>4. CASE j = k + 1 /\ i \in 0 .. k
      <4>1. SizeOf(SubSeq(s, 1, i)) <= SizeOf(s)
        <5>1. k \in 0 .. k /\ i <= k
            BY <3>4
        <5>2. SizeOf(SubSeq(s, 1, i)) <= SizeOf(SubSeq(s, 1, k))
            BY <3>1, <3>4, <5>1
        <5> QED  BY <2>4, <5>2
      <4>2. SizeOf(SubSeq(s, 1, i)) <= SizeOf(w)
          BY <2>5, <2>6, <3>2, <3>4, <4>1
      <4> QED  BY <2>3, <2>4, <3>4, <4>2
    <3>5. CASE j = k + 1 /\ i = k + 1
      <4>1. SizeOf(w) <= SizeOf(w)
          BY <3>2
      <4>2. SubSeq(w, 1, i) = w /\ SubSeq(w, 1, j) = w
          BY <2>4, <3>5
      <4> QED  BY <4>1, <4>2
    <3> QED  BY <2>7, <3>3, <3>4, <3>5
  <2>8. Climbs(w)
      BY <2>2, <2>7 DEF Climbs
  <2> QED  BY <2>1, <2>8
<1>3. \A s \in Seq(Unit) : s \in A
  <2> HIDE DEF A
  <2> QED  BY <1>1, <1>2, Counts!SeqsOfSet
<1> QED  BY <1>3

\* The units of a section are a text whose passages can be cut.
LEMMA UnitsAsText == ASSUME NEW units \in Seq(Unit) PROVE IsText(AsText(units)) /\ AsText(units).n = Len(units)
<1>1. PICK k \in Nat : k = Len(units)
    OBVIOUS
<1>2. \A i \in 0 .. k : SizeOf(SubSeq(units, 1, i)) \in Nat
  <2>1. \A i \in 0 .. k : SubSeq(units, 1, i) \in Seq(Unit)
      BY <1>1, Beginning
  <2> QED  BY <2>1, SizeIn
<1>3. PICK up : up = [i \in 0 .. k |-> SizeOf(SubSeq(units, 1, i))]
    OBVIOUS
<1>4. AsText(units).n = k /\ AsText(units).upto = up
    BY <1>1, <1>3 DEF AsText
<1>5. up \in [0 .. k -> Nat]
    BY <1>2, <1>3
<1>6. \A i, j \in 0 .. k : i <= j => up[i] <= up[j]
    BY <1>1, <1>3, SizesClimb DEF Climbs
<1> QED  BY <1>1, <1>4, <1>5, <1>6 DEF IsText

-----------------------------------------------------------------------------
(* What the passages of a section say *)

Saying == Nat \X Nat

LEMMA SaysIsSaying == ASSUME NEW u \in Unit PROVE Says(u) \in Saying
<1>1. u[1] \in Nat /\ u[2] \in Nat
    BY DEF Unit
<1>2. (IF Line(u[1]).kind = "running" THEN 0 ELSE u[1]) \in Nat
    BY <1>1
<1> QED  BY <1>1, <1>2, Zenon DEF Says, Saying

\* All that these units say.
SayingsOf(units) == {Says(u) : u \in ToSet(units)}

\* A draft of these units.
DraftOf(units) == {d \in Draft : d.from < d.to /\ d.to <= Len(units)}

LEMMA SaidByDraft ==
    ASSUME NEW units \in Seq(Unit), NEW d \in DraftOf(units)
    PROVE  /\ Said(units, d) \in Seq(Saying)
           /\ \A u \in Nat : d.from <= u /\ u < d.to => Says(units[u + 1]) \in ToSet(Said(units, d))
           /\ ToSet(Said(units, d)) \subseteq SayingsOf(units)
<1>1. PICK a \in Nat, k \in Nat : a = d.from /\ k = d.to - d.from /\ d.to = a + k /\ a + k <= Len(units)
  <2>1. d.from \in Nat /\ d.to \in Nat /\ d.from < d.to /\ d.to <= Len(units)
      BY DEF DraftOf, Draft
  <2>2. d.to - d.from \in Nat /\ d.to = d.from + (d.to - d.from)
      BY <2>1
  <2> QED  BY <2>1, <2>2
<1>2. PICK q : q = [i \in 1 .. k |-> Says(units[a + i])]
    OBVIOUS
<1>3. Said(units, d) = q
    BY <1>1, <1>2 DEF Said
<1>4. \A i \in 1 .. k : units[a + i] \in Unit /\ units[a + i] \in ToSet(units)
  <2>1. \A i \in 1 .. k : a + i \in 1 .. Len(units)
      BY <1>1
  <2>2. ToSet(units) = {units[j] : j \in 1 .. Len(units)}
      BY Elements
  <2> QED  BY <2>1, <2>2
<1>5. q \in [1 .. k -> Saying]
    BY <1>2, <1>4, SaysIsSaying
<1>6. q \in UNION {[1 .. m -> Saying] : m \in Nat}
    BY <1>5
<1>7. q \in Seq(Saying)
    BY <1>6, SeqDef, Zenon
<1>8. ASSUME NEW u \in Nat, a <= u, u < a + k PROVE Says(units[u + 1]) \in ToSet(q)
  <2>1. PICK i \in 1 .. k : a + i = u + 1
    <3>1. (u + 1) - a \in 1 .. k /\ a + ((u + 1) - a) = u + 1
        BY <1>8
    <3> QED  BY <3>1
  <2>2. q[i] \in ToSet(q) /\ q[i] = Says(units[a + i])
      BY <1>2 DEF ToSet
  <2> QED  BY <2>1, <2>2
<1>9. ToSet(q) \subseteq SayingsOf(units)
  <2>1. \A i \in 1 .. k : q[i] \in SayingsOf(units)
      BY <1>2, <1>4 DEF SayingsOf
  <2>2. DOMAIN q = 1 .. k
      BY <1>2
  <2> QED  BY <2>1, <2>2 DEF ToSet
<1> QED  BY <1>1, <1>3, <1>7, <1>8, <1>9

DraftFolds == INSTANCE FoldLaws WITH Op <- WithDraft
SaidBy(units, ds) == DraftFolds!Fold(units, <<>>, ds)

LEMMA SaidFold ==
    ASSUME NEW k
    PROVE  TextOfPassage(k) = SaidBy(Units(parents[section]), SubSeq(drafts, out[k].first, out[k].last))
BY Zenon DEF TextOfPassage, SaidBy, DraftFolds!Fold, FoldLeft, MapThenFoldSet, Max, DraftFolds!Greatest

LEMMA SaidIncluded ==
    ASSUME NEW units \in Seq(Unit)
    PROVE  \A ds \in Seq(DraftOf(units)) :
              /\ SaidBy(units, ds) \in Seq(Saying)
              /\ \A d \in ToSet(ds) : ToSet(Said(units, d)) \subseteq ToSet(SaidBy(units, ds))
              /\ ToSet(SaidBy(units, ds)) \subseteq SayingsOf(units)
<1> DEFINE A == {ds \in Seq(DraftOf(units)) :
                   /\ SaidBy(units, ds) \in Seq(Saying)
                   /\ \A d \in ToSet(ds) : ToSet(Said(units, d)) \subseteq ToSet(SaidBy(units, ds))
                   /\ ToSet(SaidBy(units, ds)) \subseteq SayingsOf(units)}
<1>1. <<>> \in A
  <2>1. SaidBy(units, <<>>) = <<>>
      BY DraftFolds!FoldOfNothing DEF SaidBy
  <2>2. ToSet(<<>>) = {} /\ <<>> \in Seq(Saying) /\ <<>> \in Seq(DraftOf(units))
      BY NoElements
  <2>3. \A d \in ToSet(<<>>) : ToSet(Said(units, d)) \subseteq ToSet(SaidBy(units, <<>>))
      BY <2>2
  <2> QED  BY <2>1, <2>2, <2>3
<1>2. ASSUME NEW ds \in Seq(DraftOf(units)), NEW x \in DraftOf(units), ds \in A
      PROVE  Append(ds, x) \in A
  <2>1. PICK us \in Seq(Saying) : /\ us = SaidBy(units, ds)
                                  /\ \A d \in ToSet(ds) : ToSet(Said(units, d)) \subseteq ToSet(us)
                                  /\ ToSet(us) \subseteq SayingsOf(units)
      BY <1>2
  <2>2. PICK xs \in Seq(Saying) : xs = Said(units, x) /\ ToSet(xs) \subseteq SayingsOf(units)
      BY SaidByDraft
  <2>3. SaidBy(units, Append(ds, x)) = us \o xs
    <3>1. DraftFolds!Fold(units, <<>>, Append(ds, x)) = WithDraft(units, DraftFolds!Fold(units, <<>>, ds), x)
        BY DraftFolds!FoldOfAppend
    <3> QED  BY <2>1, <2>2, <3>1 DEF SaidBy, WithDraft
  <2>4. us \o xs \in Seq(Saying) /\ ToSet(us \o xs) = ToSet(us) \cup ToSet(xs)
      BY JoinedSets
  <2>5. Append(ds, x) \in Seq(DraftOf(units)) /\ ToSet(Append(ds, x)) = ToSet(ds) \cup {x}
      BY OneMore
  <2>6. ASSUME NEW d \in ToSet(Append(ds, x)) PROVE ToSet(Said(units, d)) \subseteq ToSet(us \o xs)
      BY <2>1, <2>2, <2>4, <2>5
  <2>7. ToSet(us \o xs) \subseteq SayingsOf(units)
      BY <2>1, <2>2, <2>4
  <2> QED  BY <2>3, <2>4, <2>5, <2>6, <2>7
<1>3. \A ds \in Seq(DraftOf(units)) : ds \in A
  <2> HIDE DEF A
  <2> QED  BY <1>1, <1>2, DraftFolds!SeqsOfSet
<1> QED  BY <1>3

-----------------------------------------------------------------------------
(* What is stored of them *)

Chunk == [section : Nat, says : Seq(Saying)]

\* The passages of a section that say these.
PassagesWith(parent, texts) == {[section |-> parent, says |-> t] : t \in texts}

\* A stored passage says this.
Holds(stored, says) == \E i \in DOMAIN stored : stored[i].says = says

ChunkFolds == INSTANCE FoldLaws WITH Op <- WithPassage
StoredBy(parent, stored, texts) == ChunkFolds!Fold(parent, stored, texts)

LEMMA PassageStored ==
    ASSUME NEW parent \in Nat, NEW stored \in Seq(Chunk), NEW says \in Seq(Saying)
    PROVE  /\ WithPassage(parent, stored, says) \in Seq(Chunk)
           /\ Holds(WithPassage(parent, stored, says), says)
           /\ \A t : Holds(stored, t) => Holds(WithPassage(parent, stored, says), t)
           /\ ToSet(WithPassage(parent, stored, says)) \subseteq ToSet(stored) \cup PassagesWith(parent, {says})
<1>1. CASE Holds(stored, says)
    BY <1>1 DEF WithPassage, Holds
<1>2. CASE ~Holds(stored, says)
  <2>1. PICK c : c = [section |-> parent, says |-> says]
      OBVIOUS
  <2>2. c \in Chunk /\ c.says = says
      BY <2>1 DEF Chunk
  <2>3. PICK w \in Seq(Chunk) : w = Append(stored, c)
      BY <2>2, AppendProperties
  <2>4. WithPassage(parent, stored, says) = w
      BY <1>2, <2>1, <2>3 DEF WithPassage, Holds
  <2>5. PICK k \in Nat : k = Len(stored) /\ DOMAIN stored = 1 .. k
      BY Elements
  <2>6. DOMAIN w = 1 .. k + 1 /\ w[k + 1] = c /\ \A i \in 1 .. k : w[i] = stored[i]
      BY <2>2, <2>3, <2>5, AppendProperties
  <2>7. Holds(w, says)
    <3>1. k + 1 \in DOMAIN w /\ w[k + 1].says = says
        BY <2>2, <2>5, <2>6
    <3> QED  BY <3>1 DEF Holds
  <2>8. ASSUME NEW t, Holds(stored, t) PROVE Holds(w, t)
    <3>1. PICK i \in 1 .. k : stored[i].says = t
        BY <2>5, <2>8 DEF Holds
    <3>2. i \in DOMAIN w /\ w[i].says = t
        BY <2>6, <3>1
    <3> QED  BY <3>2 DEF Holds
  <2>9. ToSet(w) \subseteq ToSet(stored) \cup PassagesWith(parent, {says})
    <3>1. ToSet(w) = ToSet(stored) \cup {c}
        BY <2>2, <2>3, OneMore
    <3> QED  BY <2>1, <3>1 DEF PassagesWith
  <2> QED  BY <2>4, <2>7, <2>8, <2>9
<1> QED  BY <1>1, <1>2

LEMMA PassagesStored ==
    ASSUME NEW parent \in Nat, NEW stored \in Seq(Chunk)
    PROVE  \A texts \in Seq(Seq(Saying)) :
              /\ StoredBy(parent, stored, texts) \in Seq(Chunk)
              /\ \A t \in ToSet(texts) : Holds(StoredBy(parent, stored, texts), t)
              /\ \A t : Holds(stored, t) => Holds(StoredBy(parent, stored, texts), t)
              /\ ToSet(StoredBy(parent, stored, texts)) \subseteq ToSet(stored) \cup PassagesWith(parent, ToSet(texts))
<1> DEFINE A == {texts \in Seq(Seq(Saying)) :
                   /\ StoredBy(parent, stored, texts) \in Seq(Chunk)
                   /\ \A t \in ToSet(texts) : Holds(StoredBy(parent, stored, texts), t)
                   /\ \A t : Holds(stored, t) => Holds(StoredBy(parent, stored, texts), t)
                   /\ ToSet(StoredBy(parent, stored, texts)) \subseteq
                        ToSet(stored) \cup PassagesWith(parent, ToSet(texts))}
<1>1. <<>> \in A
  <2>1. StoredBy(parent, stored, <<>>) = stored
      BY ChunkFolds!FoldOfNothing DEF StoredBy
  <2>2. ToSet(<<>>) = {} /\ <<>> \in Seq(Seq(Saying))
      BY NoElements
  <2>3. \A t \in ToSet(<<>>) : Holds(StoredBy(parent, stored, <<>>), t)
      BY <2>2
  <2> QED  BY <2>1, <2>2, <2>3
<1>2. ASSUME NEW ts \in Seq(Seq(Saying)), NEW x \in Seq(Saying), ts \in A PROVE Append(ts, x) \in A
  <2>1. PICK so \in Seq(Chunk) : /\ so = StoredBy(parent, stored, ts)
                                 /\ \A t \in ToSet(ts) : Holds(so, t)
                                 /\ \A t : Holds(stored, t) => Holds(so, t)
                                 /\ ToSet(so) \subseteq ToSet(stored) \cup PassagesWith(parent, ToSet(ts))
      BY <1>2
  <2>a. /\ WithPassage(parent, so, x) \in Seq(Chunk)
        /\ Holds(WithPassage(parent, so, x), x)
        /\ \A t : Holds(so, t) => Holds(WithPassage(parent, so, x), t)
        /\ ToSet(WithPassage(parent, so, x)) \subseteq ToSet(so) \cup PassagesWith(parent, {x})
      BY PassageStored
  <2>2. PICK r \in Seq(Chunk) : /\ r = WithPassage(parent, so, x) /\ Holds(r, x)
                                /\ \A t : Holds(so, t) => Holds(r, t)
                                /\ ToSet(r) \subseteq ToSet(so) \cup PassagesWith(parent, {x})
      BY <2>a
  <2>3. StoredBy(parent, stored, Append(ts, x)) = r
    <3>1. ChunkFolds!Fold(parent, stored, Append(ts, x)) = WithPassage(parent, ChunkFolds!Fold(parent, stored, ts), x)
        BY ChunkFolds!FoldOfAppend
    <3> QED  BY <2>1, <2>2, <3>1 DEF StoredBy
  <2>4. Append(ts, x) \in Seq(Seq(Saying)) /\ ToSet(Append(ts, x)) = ToSet(ts) \cup {x}
      BY OneMore
  <2>5. \A t \in ToSet(Append(ts, x)) : Holds(r, t)
      BY <2>1, <2>2, <2>4
  <2>6. \A t : Holds(stored, t) => Holds(r, t)
      BY <2>1, <2>2
  <2>7. ToSet(r) \subseteq ToSet(stored) \cup PassagesWith(parent, ToSet(Append(ts, x)))
    <3>1. PassagesWith(parent, ToSet(Append(ts, x))) = PassagesWith(parent, ToSet(ts)) \cup PassagesWith(parent, {x})
        BY <2>4 DEF PassagesWith
    <3> QED  BY <2>1, <2>2, <3>1
  <2> QED  BY <2>3, <2>4, <2>5, <2>6, <2>7
<1>3. \A ts \in Seq(Seq(Saying)) : ts \in A
  <2> HIDE DEF A
  <2> QED  BY <1>1, <1>2, ChunkFolds!SeqsOfSet
<1> QED  BY <1>3

-----------------------------------------------------------------------------
(* The inductive invariant of IngestionContent *)

\* A stored passage has s in what it says.
SaysSome(stored, s) == \E i \in DOMAIN stored : s \in ToSet(stored[i].says)

\* The passages of the first k sections can be found.
AllSaid(k) == \A j \in 1 .. k : \A u \in ToSet(Units(parents[j])) : SaysSome(chunks, Says(u))

\* A stored passage is one of a section that has been cut, and says what that says.
Stems(c) == c.section \in 1 .. section /\ ToSet(c.says) \subseteq SaidIn(c.section)
PassagesStem == \A c \in ToSet(chunks) : Stems(c)

ContentLoops ==
    /\ phase # "idle" => outcome = "parsed" /\ source = blocks
    /\ section \in 0 .. Len(parents) /\ (section > 0 => phase = "built")
    /\ chunks \in Seq(Chunk) /\ PassagesStem
    /\ section > 0 /\ pc = "stored" => AllSaid(section)
    /\ section > 0 /\ pc # "stored" =>
         AllSaid(section - 1) /\ PassageInv /\ text = AsText(Units(parents[section]))

ContentInv == ParseInv /\ SectionInv /\ ContentLoops

-----------------------------------------------------------------------------
(* A section's passages are stored *)

LEMMA DraftsOfUnits ==
    ASSUME PassageInv, NEW units \in Seq(Unit), text = AsText(units)
    PROVE  drafts \in Seq(DraftOf(units)) /\ n = Len(units)
<1>1. n = Len(units)
    BY UnitsAsText DEF n
<1>2. PICK k \in Nat : k = Len(drafts) /\ DOMAIN drafts = 1 .. k /\ \A i \in 1 .. k : drafts[i] \in Draft
  <2>1. drafts \in Seq(Draft)
      BY DEF PassageInv, Shapes
  <2> QED  BY <2>1, Elements
<1>3. \A i \in 1 .. k : drafts[i] \in DraftOf(units)
    BY <1>1, <1>2 DEF PassageInv, DraftsAreRanges, DraftOf
<1>4. drafts \in [1 .. k -> DraftOf(units)]
  <2>1. drafts \in [1 .. k -> Draft]
    <3>1. drafts \in Seq(Draft)
        BY DEF PassageInv, Shapes
    <3> QED  BY <1>2, <3>1
  <2> QED  BY <1>3, <2>1
<1>5. drafts \in UNION {[1 .. m -> DraftOf(units)] : m \in Nat}
    BY <1>4
<1>6. drafts \in Seq(DraftOf(units))
    BY <1>5, SeqDef, Zenon
<1> QED  BY <1>1, <1>6

\* A passage that is let through is a list of drafts.
LEMMA PassageDrafts ==
    ASSUME PassageInv, NEW units \in Seq(Unit), text = AsText(units), NEW k \in DOMAIN out
    PROVE  \E ds \in Seq(DraftOf(units)) :
              /\ ds = SubSeq(drafts, out[k].first, out[k].last)
              /\ \A i \in out[k].first .. out[k].last : drafts[i] \in ToSet(ds)
<1>1. drafts \in Seq(DraftOf(units))
    BY DraftsOfUnits
<1>2. PICK a \in Nat, b \in Nat : a = out[k].first /\ b = out[k].last /\ a > 0 /\ b <= Len(drafts)
  <2>1. out \in Seq(Passage) /\ glued \in 0 .. Len(drafts) /\ Len(drafts) \in Nat
      BY DEF PassageInv, Shapes
  <2>2. out[k] \in Passage /\ k \in 1 .. Len(out)
      BY <2>1
  <2>3. out[k].first > 0 /\ out[k].last <= glued
      BY <2>2 DEF PassageInv, OutInv
  <2>4. out[k].first \in Nat /\ out[k].last \in Nat
      BY <2>2 DEF Passage
  <2> QED  BY <2>1, <2>3, <2>4
<1>3. \A i \in a .. b : i \in 1 .. Len(drafts) /\ drafts[i] \in DraftOf(units)
  <2>1. \A i \in a .. b : i \in 1 .. Len(drafts)
      BY <1>2
  <2> QED  BY <1>1, <2>1
<1>4. PICK ds \in Seq(DraftOf(units)) :
          /\ ds = SubSeq(drafts, a, b)
          /\ Len(ds) = IF a <= b THEN b - a + 1 ELSE 0
          /\ \A i \in 1 .. Len(ds) : ds[i] = drafts[a + i - 1]
  <2>1. a \in Int /\ b \in Int
      BY <1>2
  <2>2. /\ SubSeq(drafts, a, b) \in Seq(DraftOf(units))
        /\ Len(SubSeq(drafts, a, b)) = IF a <= b THEN b - a + 1 ELSE 0
        /\ \A i \in 1 .. b - a + 1 : SubSeq(drafts, a, b)[i] = drafts[a + i - 1]
      BY <1>3, <2>1, SubSeqProperties
  <2>3. PICK r \in Seq(DraftOf(units)) : r = SubSeq(drafts, a, b)
      BY <2>2
  <2>4. \A i \in 1 .. Len(r) : i \in 1 .. b - a + 1
      BY <2>1, <2>2, <2>3
  <2> QED  BY <2>2, <2>3, <2>4
<1>5. ASSUME NEW i \in a .. b PROVE drafts[i] \in ToSet(ds)
  <2>1. (i - a) + 1 \in 1 .. Len(ds) /\ a + ((i - a) + 1) - 1 = i
      BY <1>2, <1>4, <1>5, SMTT(30)
  <2>2. ds[(i - a) + 1] = drafts[i]
      BY <1>4, <2>1
  <2>3. ToSet(ds) = {ds[j] : j \in 1 .. Len(ds)}
      BY Elements
  <2> QED  BY <2>1, <2>2, <2>3
<1> QED  BY <1>2, <1>4, <1>5

\* The passages of a section say what its units say.
LEMMA PassagesSay ==
    ASSUME PassageInv, NEW units \in Seq(Unit), text = AsText(units), pc = "done",
           units = Units(parents[section])
    PROVE  \E texts \in Seq(Seq(Saying)) :
              /\ texts = [k \in DOMAIN out |-> TextOfPassage(k)]
              /\ \A u \in ToSet(units) : \E t \in ToSet(texts) : Says(u) \in ToSet(t)
              /\ \A t \in ToSet(texts) : ToSet(t) \subseteq SayingsOf(units)
<1>1. PICK m \in Nat : m = Len(out) /\ DOMAIN out = 1 .. m
  <2>1. out \in Seq(Passage)
      BY DEF PassageInv, Shapes
  <2> QED  BY <2>1, Elements
<1>2. ASSUME NEW k \in 1 .. m
      PROVE  \E t \in Seq(Saying) :
                /\ t = TextOfPassage(k)
                /\ \A i \in out[k].first .. out[k].last : ToSet(Said(units, drafts[i])) \subseteq ToSet(t)
                /\ ToSet(t) \subseteq SayingsOf(units)
  <2>1. PICK ds \in Seq(DraftOf(units)) :
              /\ ds = SubSeq(drafts, out[k].first, out[k].last)
              /\ \A i \in out[k].first .. out[k].last : drafts[i] \in ToSet(ds)
      BY <1>1, <1>2, PassageDrafts
  <2>2. TextOfPassage(k) = SaidBy(units, ds)
      BY <2>1, SaidFold
  <2>3. /\ SaidBy(units, ds) \in Seq(Saying)
        /\ \A d \in ToSet(ds) : ToSet(Said(units, d)) \subseteq ToSet(SaidBy(units, ds))
        /\ ToSet(SaidBy(units, ds)) \subseteq SayingsOf(units)
      BY SaidIncluded
  <2>4. PICK t \in Seq(Saying) : /\ t = SaidBy(units, ds)
                                 /\ \A d \in ToSet(ds) : ToSet(Said(units, d)) \subseteq ToSet(t)
                                 /\ ToSet(t) \subseteq SayingsOf(units)
      BY <2>3
  <2>5. \A i \in out[k].first .. out[k].last : ToSet(Said(units, drafts[i])) \subseteq ToSet(t)
      BY <2>1, <2>4
  <2> QED  BY <2>2, <2>4, <2>5
<1>3. PICK q : q = [k \in DOMAIN out |-> TextOfPassage(k)]
    OBVIOUS
<1>4. q \in Seq(Seq(Saying))
  <2>1. \A k \in 1 .. m : TextOfPassage(k) \in Seq(Saying)
      BY <1>2
  <2>2. q \in [1 .. m -> Seq(Saying)]
      BY <1>1, <1>3, <2>1
  <2>3. q \in UNION {[1 .. j -> Seq(Saying)] : j \in Nat}
      BY <2>2
  <2> QED  BY <2>3, SeqDef, Zenon
<1>5. ASSUME NEW u \in ToSet(units) PROVE \E t \in ToSet(q) : Says(u) \in ToSet(t)
  <2>1. PICK v \in 0 .. Len(units) - 1 : u = units[v + 1]
    <3>1. PICK j \in 1 .. Len(units) : u = units[j]
        BY <1>5, Elements
    <3>2. j - 1 \in 0 .. Len(units) - 1 /\ (j - 1) + 1 = j
        BY <3>1
    <3> QED  BY <3>1, <3>2
  <2>2. PICK k \in DOMAIN out : v \in UnitsOf(k)
    <3>1. v \in 0 .. n - 1
        BY <2>1, DraftsOfUnits
    <3> QED  BY <3>1, SentencesCovered DEF EverySentenceIsInAPassage
  <2>3. PICK i \in out[k].first .. out[k].last : v \in drafts[i].from .. drafts[i].to - 1
      BY <2>2 DEF UnitsOf
  <2>4. PICK t \in Seq(Saying) :
              /\ t = TextOfPassage(k)
              /\ \A j \in out[k].first .. out[k].last : ToSet(Said(units, drafts[j])) \subseteq ToSet(t)
      BY <1>1, <1>2, <2>2
  <2>5. PICK d \in DraftOf(units) : d = drafts[i] /\ d.from <= v /\ v < d.to
    <3>1. PICK ds \in Seq(DraftOf(units)) : drafts[i] \in ToSet(ds)
        BY <2>2, <2>3, PassageDrafts
    <3>2. drafts[i] \in DraftOf(units)
        BY <3>1, Elements
    <3>3. drafts[i].from \in Nat /\ drafts[i].to \in Nat
        BY <3>2 DEF DraftOf, Draft
    <3> QED  BY <2>1, <2>3, <3>2, <3>3
  <2>6. Says(u) \in ToSet(Said(units, d))
    <3>1. v \in Nat
        BY <2>1
    <3> QED  BY <2>1, <2>5, <3>1, SaidByDraft
  <2>7. q[k] = t /\ q[k] \in ToSet(q)
      BY <1>3, <2>2, <2>4 DEF ToSet
  <2> QED  BY <2>3, <2>4, <2>5, <2>6, <2>7
<1>6. ASSUME NEW t \in ToSet(q) PROVE ToSet(t) \subseteq SayingsOf(units)
  <2>1. PICK k \in 1 .. m : t = q[k]
    <3>1. DOMAIN q = 1 .. m
        BY <1>1, <1>3
    <3> QED  BY <3>1 DEF ToSet
  <2>2. t = TextOfPassage(k)
      BY <1>1, <1>3, <2>1
  <2> QED  BY <1>2, <2>2
<1> QED  BY <1>3, <1>4, <1>5, <1>6

\* A section can be found if its units are said, and stays so.
LEMMA SaidStays ==
    ASSUME NEW before, NEW after, \A t : Holds(before, t) => Holds(after, t)
    PROVE  \A s : SaysSome(before, s) => SaysSome(after, s)
<1> SUFFICES ASSUME NEW s, SaysSome(before, s) PROVE SaysSome(after, s)
    OBVIOUS
<1>1. PICK i \in DOMAIN before : s \in ToSet(before[i].says)
    BY DEF SaysSome
<1>2. Holds(before, before[i].says)
    BY DEF Holds
<1>3. PICK j \in DOMAIN after : after[j].says = before[i].says
    BY <1>2 DEF Holds
<1> QED  BY <1>1, <1>3 DEF SaysSome

LEMMA SectionUnits ==
    ASSUME NEW s \in Section PROVE Units(s) \in Seq(Unit)
BY ToldIn, UnitsFold, UnitsIncluded

LEMMA StemsStay ==
    ASSUME UNCHANGED <<file, parents>>, section \in Nat, section' \in Nat,
           section <= section', NEW c, Stems(c)
    PROVE  Stems(c)'
<1>1. \A u : Says(u)' = Says(u)
    BY DEF Says, Line
<1>2. \A j : SaidIn(j)' = SaidIn(j)
    BY <1>1 DEF SaidIn
<1>3. c.section \in 1 .. section'
    BY DEF Stems
<1> QED  BY <1>2, <1>3 DEF Stems

LEMMA PassagesStemStay ==
    ASSUME UNCHANGED <<file, parents, chunks>>, section \in Nat, section' \in Nat,
           section <= section', PassagesStem
    PROVE  PassagesStem'
BY StemsStay DEF PassagesStem

\* Before the first section nothing is stored.
LEMMA NothingStems ==
    ASSUME section = 0, chunks' = chunks, PassagesStem PROVE PassagesStem'
<1>1. ToSet(chunks) = {}
    BY DEF PassagesStem, Stems
<1> QED  BY <1>1 DEF PassagesStem

LEMMA StoreIs ==
    ASSUME Store PROVE chunks' = StoredBy(section, chunks, [k \in DOMAIN out |-> TextOfPassage(k)])
BY Zenon DEF Store, StoredBy, ChunkFolds!Fold, FoldLeft, MapThenFoldSet, Max, ChunkFolds!Greatest

LEMMA StoreKeeps ==
    ASSUME ContentInv, Store PROVE ContentInv'
<1>1. /\ section > 0 /\ pc = "done" /\ pc' = "stored" /\ section' = section
      /\ UNCHANGED parseVars /\ UNCHANGED sectionVars
    BY DEF Store
<1>2. ParseInv' /\ SectionInv'
    BY <1>1, ParsingKept, SectionsKept DEF ContentInv
<1>3. /\ phase # "idle" => outcome = "parsed" /\ source = blocks
      /\ section \in 0 .. Len(parents) /\ phase = "built"
      /\ chunks \in Seq(Chunk) /\ PassagesStem /\ AllSaid(section - 1) /\ PassageInv
      /\ text = AsText(Units(parents[section]))
    BY <1>1 DEF ContentInv, ContentLoops
<1>4. phase' = phase /\ source' = source /\ parents' = parents /\ outcome' = outcome /\ blocks' = blocks
    BY <1>1 DEF parseVars, sectionVars
<1>5. section \in 1 .. Len(parents) /\ section \in Nat /\ Len(parents) \in Nat
  <2>1. parents \in Seq(Parent)
      BY DEF ContentInv, SectionInv, SectionShapes
  <2> QED  BY <1>1, <1>3, <2>1
<1>6. parents[section] \in Section
  <2>1. parents \in Seq(Parent)
      BY DEF ContentInv, SectionInv, SectionShapes
  <2>2. parents[section] \in Parent
      BY <1>5, <2>1
  <2> QED  BY <2>2 DEF Parent
<1>7. PICK units \in Seq(Unit) : units = Units(parents[section])
    BY <1>6, SectionUnits
<1>8. PICK texts \in Seq(Seq(Saying)) :
          /\ texts = [k \in DOMAIN out |-> TextOfPassage(k)]
          /\ \A u \in ToSet(units) : \E t \in ToSet(texts) : Says(u) \in ToSet(t)
          /\ \A t \in ToSet(texts) : ToSet(t) \subseteq SayingsOf(units)
    BY <1>1, <1>3, <1>7, PassagesSay
<1>9. /\ chunks' \in Seq(Chunk)
      /\ \A t \in ToSet(texts) : Holds(chunks', t)
      /\ \A t : Holds(chunks, t) => Holds(chunks', t)
      /\ ToSet(chunks') \subseteq ToSet(chunks) \cup PassagesWith(section, ToSet(texts))
  <2>1. chunks' = StoredBy(section, chunks, texts)
      BY <1>8, StoreIs
  <2>2. /\ StoredBy(section, chunks, texts) \in Seq(Chunk)
        /\ \A t \in ToSet(texts) : Holds(StoredBy(section, chunks, texts), t)
        /\ \A t : Holds(chunks, t) => Holds(StoredBy(section, chunks, texts), t)
        /\ ToSet(StoredBy(section, chunks, texts)) \subseteq ToSet(chunks) \cup PassagesWith(section, ToSet(texts))
      BY <1>3, <1>5, PassagesStored
  <2> QED  BY <2>1, <2>2
<1>10. \A u \in ToSet(units) : SaysSome(chunks', Says(u))
  <2> SUFFICES ASSUME NEW u \in ToSet(units) PROVE SaysSome(chunks', Says(u))
      OBVIOUS
  <2>1. PICK t \in ToSet(texts) : Says(u) \in ToSet(t)
      BY <1>8
  <2>2. PICK i \in DOMAIN chunks' : chunks'[i].says = t
      BY <1>9, <2>1 DEF Holds
  <2> QED  BY <2>1, <2>2 DEF SaysSome
<1>11. \A s : SaysSome(chunks, s) => SaysSome(chunks', s)
    BY <1>9, SaidStays
<1>12. \A j \in 1 .. section : \A u \in ToSet(Units(parents[j])) : SaysSome(chunks', Says(u))
  <2> SUFFICES ASSUME NEW j \in 1 .. section, NEW u \in ToSet(Units(parents[j]))
               PROVE  SaysSome(chunks', Says(u))
      OBVIOUS
  <2>1. CASE j = section
      BY <1>7, <1>10, <2>1
  <2>2. CASE j \in 1 .. section - 1
      BY <1>3, <1>11, <2>2 DEF AllSaid
  <2> QED  BY <1>5, <2>1, <2>2
<1>13. AllSaid(section)'
  <2>1. \A u : Says(u)' = Says(u)
      BY <1>1 DEF Says, Line, parseVars
  <2>2. \A j : Units(parents[j])' = Units(parents[j])
      BY <1>4
  <2> QED  BY <1>1, <1>4, <1>12, <2>1, <2>2 DEF AllSaid
<1>14. PassagesStem'
  <2>1. ASSUME NEW c \in ToSet(chunks') PROVE Stems(c)
    <3>1. CASE c \in ToSet(chunks)
        BY <1>3, <3>1 DEF PassagesStem
    <3>2. CASE c \in PassagesWith(section, ToSet(texts))
      <4>1. PICK t \in ToSet(texts) : c.section = section /\ c.says = t
          BY <3>2 DEF PassagesWith
      <4>2. ToSet(t) \subseteq SaidIn(section)
          BY <1>7, <1>8 DEF SaidIn, SayingsOf
      <4> QED  BY <1>5, <4>1, <4>2 DEF Stems
    <3> QED  BY <1>9, <2>1, <3>1, <3>2
  <2>2. UNCHANGED <<file, parents>> /\ section \in Nat /\ section' \in Nat /\ section <= section'
      BY <1>1, <1>4, <1>5 DEF parseVars
  <2>3. ASSUME NEW c \in ToSet(chunks') PROVE Stems(c)'
      BY <2>1, <2>2, StemsStay
  <2> QED  BY <2>3 DEF PassagesStem
<1>15. ContentLoops'
    BY <1>1, <1>3, <1>4, <1>9, <1>13, <1>14 DEF ContentLoops
<1> QED  BY <1>2, <1>15 DEF ContentInv

-----------------------------------------------------------------------------
(* The other steps *)

LEMMA ParentsAreSections ==
    ASSUME SectionInv
    PROVE  parents \in Seq(Section) /\ Len(parents) \in Nat /\ DOMAIN parents = 1 .. Len(parents)
<1>1. parents \in Seq(Parent)
    BY DEF SectionInv, SectionShapes
<1>2. Parent \subseteq Section
    BY DEF Parent
<1>3. parents \in Seq(Section)
    BY <1>1, <1>2, SeqMonotonic
<1> QED  BY <1>3, Elements

\* What can be found stays so while the file, the sections and the passages
\* stored are left alone.
LEMMA AllSaidStays ==
    ASSUME NEW k, UNCHANGED <<file, parents, chunks>>
    PROVE  AllSaid(k)' <=> AllSaid(k)
<1>1. \A u : Says(u)' = Says(u)
    BY DEF Says, Line
<1>2. \A j : Units(parents[j])' = Units(parents[j])
    OBVIOUS
<1> QED  BY <1>1, <1>2 DEF AllSaid

LEMMA ContentStarts == ContentInit => ContentInv
<1> SUFFICES ASSUME ContentInit PROVE ContentInv
    OBVIOUS
<1>1. ParseInv /\ SectionInv
    BY ParsingInit, SectionsInit DEF ContentInit
<1>2. phase = "idle" /\ section = 0 /\ chunks = <<>>
    BY DEF ContentInit, SectionsIdle
<1>3. chunks \in Seq(Chunk)
    BY <1>2, EmptySeq
<1>4. PassagesStem
  <2>1. ToSet(chunks) = {}
      BY <1>2, NoElements
  <2> QED  BY <2>1 DEF PassagesStem
<1>5. ContentLoops
    BY <1>1, <1>2, <1>3, <1>4, ParentsAreSections DEF ContentLoops
<1> QED  BY <1>1, <1>5 DEF ContentInv

LEMMA ParseKeeps ==
    ASSUME ContentInv, Parse PROVE ContentInv'
<1>1. ParseNext /\ UNCHANGED sectionVars /\ section' = section /\ chunks' = chunks
    BY DEF Parse
<1>2. ParseInv' /\ SectionInv'
    BY <1>1, ParsingKept, SectionsKept DEF ContentInv
<1>3. outcome \in {"new", "reading"}
    BY <1>1 DEF ParseNext, Unreadable, Open, EndOfFile, PdfHeading, TextHeading, BodyLine,
                DocxParagraph, Fence, MarkdownHeading, MarkdownLine, Reading
<1>4. phase = "idle" /\ section = 0 /\ chunks \in Seq(Chunk) /\ PassagesStem
  <2>1. phase = "idle"
      BY <1>3 DEF ContentInv, ContentLoops
  <2> QED  BY <2>1 DEF ContentInv, ContentLoops
<1>5. phase' = "idle"
    BY <1>1, <1>4 DEF sectionVars
<1>6. ContentLoops'
    BY <1>1, <1>2, <1>4, <1>5, ParentsAreSections, NothingStems DEF ContentLoops
<1> QED  BY <1>2, <1>6 DEF ContentInv

LEMMA StartChunkingKeeps ==
    ASSUME ContentInv, StartChunking PROVE ContentInv'
<1>1. /\ outcome = "parsed" /\ Begin(blocks) /\ UNCHANGED parseVars
      /\ section' = section /\ chunks' = chunks
    BY DEF StartChunking
<1>2. ParseInv /\ ParseInv'
    BY <1>1, ParsingKept DEF ContentInv
<1>3. blocks \in Seq(Block) /\ IsInjective(TextsOf(blocks))
  <2>1. Flushed = blocks
      BY <1>1, <1>2 DEF ParseInv, Flushed
  <2> QED  BY <1>2, <2>1 DEF ParseInv, Gathered
<1>4. SectionInv'
  <2>1. PICK found : found = blocks
      OBVIOUS
  <2> QED  BY <1>1, <1>3, <2>1, BeginKeeps DEF ContentInv
<1>5. phase = "idle" /\ phase' = "building" /\ source' = blocks /\ parents' = parents
    BY <1>1 DEF Begin
<1>6. section = 0 /\ chunks \in Seq(Chunk) /\ PassagesStem
    BY <1>5 DEF ContentInv, ContentLoops
<1>7. outcome' = outcome /\ blocks' = blocks
    BY <1>1 DEF parseVars
<1>8. ContentLoops'
    BY <1>1, <1>4, <1>5, <1>6, <1>7, ParentsAreSections, NothingStems DEF ContentLoops
<1> QED  BY <1>2, <1>4, <1>8 DEF ContentInv

LEMMA BuildSectionsKeeps ==
    ASSUME ContentInv, BuildSections PROVE ContentInv'
<1>1. /\ SectionNext /\ UNCHANGED parseVars
      /\ section' = section /\ chunks' = chunks
    BY DEF BuildSections
<1>2. ParseInv' /\ SectionInv'
    BY <1>1, ParsingKept, SectionsKept DEF ContentInv
<1>3. phase \notin {"idle", "built"} /\ phase' # "idle" /\ source' = source
    BY <1>1 DEF SectionNext, Heading, Body, EndOfBlocks, Merge, EndOfMerge, Split, EndOfSplit
<1>4. section = 0 /\ chunks \in Seq(Chunk) /\ PassagesStem /\ outcome = "parsed" /\ source = blocks
    BY <1>3 DEF ContentInv, ContentLoops
<1>5. outcome' = outcome /\ blocks' = blocks
    BY <1>1 DEF parseVars
<1>6. ContentLoops'
    BY <1>1, <1>2, <1>3, <1>4, <1>5, ParentsAreSections, NothingStems DEF ContentLoops
<1> QED  BY <1>2, <1>6 DEF ContentInv

LEMMA StartSectionKeeps ==
    ASSUME ContentInv, StartSection PROVE ContentInv'
<1>1. /\ phase = "built" /\ section < Len(parents) /\ (section = 0 \/ pc = "stored")
      /\ section' = section + 1 /\ UNCHANGED parseVars /\ UNCHANGED sectionVars /\ chunks' = chunks
      /\ Load(AsText(Units(parents[section'])))
    BY DEF StartSection
<1>2. ParseInv' /\ SectionInv'
    BY <1>1, ParsingKept, SectionsKept DEF ContentInv
<1>3. /\ outcome = "parsed" /\ source = blocks /\ section \in 0 .. Len(parents)
      /\ chunks \in Seq(Chunk) /\ PassagesStem /\ (section > 0 => AllSaid(section))
    BY <1>1 DEF ContentInv, ContentLoops
<1>4. parents \in Seq(Section) /\ Len(parents) \in Nat
    BY ParentsAreSections DEF ContentInv
<1>5. section \in Nat /\ section + 1 \in 1 .. Len(parents)
    BY <1>1, <1>3, <1>4
<1>6. /\ phase' = phase /\ source' = source /\ parents' = parents /\ outcome' = outcome
      /\ blocks' = blocks /\ file' = file
    BY <1>1 DEF parseVars, sectionVars
<1>7. PICK units \in Seq(Unit) : units = Units(parents[section + 1])
    BY <1>4, <1>5, SectionUnits
<1>8. PICK t : t = AsText(units) /\ IsText(t)
    BY UnitsAsText
<1>9. Load(t)
    BY <1>1, <1>7, <1>8
<1>10. PassageInv'
    BY <1>8, <1>9, LoadKeeps
<1>11. text' = AsText(Units(parents'[section'])) /\ pc' # "stored"
    BY <1>1, <1>6, <1>7, <1>8, <1>9 DEF Load, FirstLoop
<1>12. AllSaid(section - 1)'
  <2>1. section' - 1 = section
      BY <1>1, <1>5
  <2>2. PICK k : k = section
      OBVIOUS
  <2>3. AllSaid(k)
    <3>1. CASE section = 0
        BY <2>2, <3>1 DEF AllSaid
    <3> QED  BY <1>3, <1>5, <2>2, <3>1
  <2>4. AllSaid(k)'
      BY <1>1, <1>6, <2>3, AllSaidStays
  <2> QED  BY <2>1, <2>2, <2>4 DEF AllSaid
<1>13. ContentLoops'
  <2>1. section' \in 0 .. Len(parents') /\ section' > 0
      BY <1>1, <1>4, <1>5, <1>6
  <2>2. PassagesStem'
    <3>1. section' \in Nat /\ section <= section'
        BY <1>1, <1>5
    <3> QED  BY <1>1, <1>3, <1>5, <1>6, <3>1, PassagesStemStay
  <2> QED  BY <1>1, <1>3, <1>6, <1>10, <1>11, <1>12, <2>1, <2>2 DEF ContentLoops
<1> QED  BY <1>2, <1>13 DEF ContentInv

LEMMA CutPassagesKeeps ==
    ASSUME ContentInv, CutPassages PROVE ContentInv'
<1>1. /\ section > 0 /\ PassageNext /\ UNCHANGED parseVars /\ UNCHANGED sectionVars
      /\ section' = section /\ chunks' = chunks
    BY DEF CutPassages
<1>2. ParseInv' /\ SectionInv'
    BY <1>1, ParsingKept, SectionsKept DEF ContentInv
<1>3. pc # "stored" /\ pc' # "stored" /\ text' = text
    BY <1>1 DEF PassageNext, Fill, Cut, StepBack, Restart, Glue, Finish
<1>4. /\ phase = "built" /\ outcome = "parsed" /\ source = blocks /\ section \in 0 .. Len(parents)
      /\ chunks \in Seq(Chunk) /\ PassagesStem /\ AllSaid(section - 1) /\ PassageInv
      /\ text = AsText(Units(parents[section]))
    BY <1>1, <1>3 DEF ContentInv, ContentLoops
<1>5. PassageInv'
    BY <1>1, <1>4, PassageInvStep
<1>6. /\ phase' = phase /\ source' = source /\ parents' = parents /\ outcome' = outcome
      /\ blocks' = blocks /\ file' = file
    BY <1>1 DEF parseVars, sectionVars
<1>7. AllSaid(section - 1)'
  <2>1. PICK k : k = section - 1
      OBVIOUS
  <2>2. AllSaid(k)'
      BY <1>1, <1>4, <1>6, <2>1, AllSaidStays
  <2> QED  BY <1>1, <2>1, <2>2 DEF AllSaid
<1>8. PassagesStem'
  <2>1. section \in Nat
      BY <1>4, ParentsAreSections DEF ContentInv
  <2> QED  BY <1>1, <1>4, <1>6, <2>1, PassagesStemStay
<1>9. ContentLoops'
    BY <1>1, <1>3, <1>4, <1>5, <1>6, <1>7, <1>8 DEF ContentLoops
<1> QED  BY <1>2, <1>9 DEF ContentInv

LEMMA ContentStays ==
    ASSUME ContentInv, UNCHANGED contentVars PROVE ContentInv'
<1>1. UNCHANGED parseVars /\ UNCHANGED sectionVars /\ UNCHANGED passageVars
      /\ section' = section /\ chunks' = chunks
    BY DEF contentVars
<1>2. ParseInv' /\ SectionInv'
    BY <1>1, ParsingKept, SectionsKept DEF ContentInv
<1>3. /\ phase' = phase /\ source' = source /\ parents' = parents /\ outcome' = outcome
      /\ blocks' = blocks /\ file' = file /\ text' = text /\ pc' = pc
    BY <1>1 DEF parseVars, sectionVars, passageVars
<1>4. ASSUME section > 0, pc # "stored" PROVE PassageInv'
  <2>1. PassageInv
      BY <1>4 DEF ContentInv, ContentLoops
  <2> QED  BY <1>1, <2>1, PassageInvStep
<1>5. \A k : AllSaid(k)' <=> AllSaid(k)
    BY <1>1, <1>3, AllSaidStays
<1>6. section > 0 /\ pc = "stored" => AllSaid(section)'
  <2>1. PICK k : k = section
      OBVIOUS
  <2>2. section > 0 /\ pc = "stored" => AllSaid(k)
      BY <2>1 DEF ContentInv, ContentLoops
  <2>3. section > 0 /\ pc = "stored" => AllSaid(k)'
      BY <1>5, <2>2
  <2> QED  BY <1>1, <2>1, <2>3 DEF AllSaid
<1>7. section > 0 /\ pc # "stored" => AllSaid(section - 1)'
  <2>1. PICK k : k = section - 1
      OBVIOUS
  <2>2. section > 0 /\ pc # "stored" => AllSaid(k)
      BY <2>1 DEF ContentInv, ContentLoops
  <2>3. section > 0 /\ pc # "stored" => AllSaid(k)'
      BY <1>5, <2>2
  <2> QED  BY <1>1, <2>1, <2>3 DEF AllSaid
<1>8. PassagesStem'
  <2>1. section \in Nat /\ PassagesStem
      BY ParentsAreSections DEF ContentInv, ContentLoops
  <2> QED  BY <1>1, <1>3, <2>1, PassagesStemStay
<1>9. ContentLoops'
    BY <1>1, <1>3, <1>4, <1>6, <1>7, <1>8 DEF ContentInv, ContentLoops
<1> QED  BY <1>2, <1>9 DEF ContentInv

LEMMA ContentInvariant == ContentSpec => []ContentInv
<1>1. ContentInv /\ [ContentNext]_contentVars => ContentInv'
    BY ParseKeeps, StartChunkingKeeps, BuildSectionsKeeps, StartSectionKeeps, CutPassagesKeeps,
       StoreKeeps, ContentStays DEF ContentNext
<1> QED  BY <1>1, ContentStarts, PTL DEF ContentSpec

-----------------------------------------------------------------------------
(* From a line of the file to a stored passage *)

\* All that is stored of the sections is in one of them.
LEMMA WithParentIn ==
    ASSUME NEW all \in Text, NEW s \in Section
    PROVE  /\ WithParent(all, s) \in Text
           /\ ToSet(WithParent(all, s)) \subseteq (ToSet(all) \cup ToSet(s.heading)) \cup ToSet(TextsOf(s.paragraphs))
<1>1. PICK h \in Text, t \in Text, w \in Text :
          h = s.heading /\ t = TextsOf(s.paragraphs) /\ w = Without(t, ToSet(h)) /\ ToSet(w) \subseteq ToSet(t)
  <2>1. s.heading \in Text /\ TextsOf(s.paragraphs) \in Text
      BY ToldIn
  <2>2. PICK h \in Text, t \in Text : h = s.heading /\ t = TextsOf(s.paragraphs)
      BY <2>1
  <2>3. Without(t, ToSet(h)) \in Text /\ ToSet(Without(t, ToSet(h))) \subseteq ToSet(t)
      BY TextWithout
  <2> QED  BY <2>2, <2>3
<1>2. WithParent(all, s) = (all \o h) \o w \/ WithParent(all, s) = all \o w
  <2>1. WithParent(all, s) = (IF \E i \in DOMAIN h : h[i] \in ToSet(all) THEN all ELSE all \o h) \o w
      BY <1>1, Zenon DEF WithParent
  <2> QED  BY <2>1
<1>3. /\ all \o w \in Text /\ ToSet(all \o w) = ToSet(all) \cup ToSet(w)
      /\ all \o h \in Text /\ ToSet(all \o h) = ToSet(all) \cup ToSet(h)
    BY TextJoins
<1>4. /\ (all \o h) \o w \in Text /\ ToSet((all \o h) \o w) = (ToSet(all) \cup ToSet(h)) \cup ToSet(w)
    BY <1>3, TextJoins
<1> QED  BY <1>1, <1>2, <1>3, <1>4

LEMMA StoredFrom ==
    \A ps \in Seq(Section) : \A w \in ToSet(StoredOf(ps)) :
        \E s \in ToSet(ps) : w \in ToSet(s.heading) \cup ToSet(TextsOf(s.paragraphs))
<1> DEFINE A == {ps \in Seq(Section) : \A w \in ToSet(StoredOf(ps)) :
                    \E s \in ToSet(ps) : w \in ToSet(s.heading) \cup ToSet(TextsOf(s.paragraphs))}
<1>1. <<>> \in A
  <2>1. ToSet(StoredOf(<<>>)) = {}
      BY NothingStored, TextJoins
  <2>2. <<>> \in Seq(Section)
      BY EmptySeq
  <2> QED  BY <2>1, <2>2
<1>2. ASSUME NEW ps \in Seq(Section), NEW x \in Section, ps \in A PROVE Append(ps, x) \in A
  <2>1. PICK all \in Text : all = StoredOf(ps)
      BY StoredIn
  <2>2. StoredOf(Append(ps, x)) = WithParent(all, x)
      BY <2>1, StoredOfMore
  <2>3. Append(ps, x) \in Seq(Section) /\ ToSet(Append(ps, x)) = ToSet(ps) \cup {x}
      BY OneMore
  <2>4. ToSet(WithParent(all, x)) \subseteq (ToSet(all) \cup ToSet(x.heading)) \cup ToSet(TextsOf(x.paragraphs))
      BY WithParentIn
  <2>5. ASSUME NEW w \in ToSet(StoredOf(Append(ps, x)))
        PROVE  \E s \in ToSet(Append(ps, x)) : w \in ToSet(s.heading) \cup ToSet(TextsOf(s.paragraphs))
    <3>1. CASE w \in ToSet(all)
        BY <1>2, <2>1, <2>3, <3>1
    <3>2. CASE w \in ToSet(x.heading) \cup ToSet(TextsOf(x.paragraphs))
        BY <2>3, <3>2
    <3> QED  BY <2>2, <2>4, <2>5, <3>1, <3>2
  <2> QED  BY <2>3, <2>5
<1>3. \A ps \in Seq(Section) : ps \in A
  <2> HIDE DEF A
  <2> QED  BY <1>1, <1>2, Stores!SeqsOfSet
<1> QED  BY <1>3

\* Every line that is read is stored in a section.
LEMMA LinesAreStored ==
    ASSUME ContentInv, phase = "built", NEW i \in ToSet(Readable)
    PROVE  /\ Sentence(i) \in Word
           /\ \E k \in 1 .. Len(parents) :
                Sentence(i) \in ToSet(parents[k].heading) \cup ToSet(TextsOf(parents[k].paragraphs))
<1>1. /\ ParseInv /\ SectionInv /\ outcome = "parsed" /\ source = blocks
      /\ StoredOf(parents) = TextsOf(source)
    BY DEF ContentInv, ContentLoops, SectionInv, SectionLoops
<1>2. /\ para = <<>> /\ Flushed = blocks /\ seen = Len(lines)
      /\ lines \in Seq(1 .. Len(file.lines))
    BY <1>1 DEF ParseInv, ParseShapes, Flushed
<1>3. blocks \in Seq(Block) /\ ToSet(TextsOf(blocks)) = Words(file, lines, Len(lines))
    BY <1>1, <1>2 DEF ParseInv, Gathered
<1>4. i \in ToSet(lines) /\ IsRead(file, i)
  <2>1. ToSet(Readable) = ToSet(lines) \cap {j \in ToSet(lines) : Line(j).kind \notin {"fence", "blank"}}
      BY <1>2, FilteredIn DEF Readable
  <2> QED  BY <2>1 DEF IsRead, Line
<1>5. PICK m \in 1 .. Len(lines) : i = lines[m]
    BY <1>2, <1>4, Elements
<1>6. Sentence(i) \in Words(file, lines, Len(lines))
    BY <1>4, <1>5 DEF Words, Sentence, WordOf, Line
<1>7. Sentence(i) \in ToSet(StoredOf(parents))
    BY <1>1, <1>3, <1>6
<1>8. parents \in Seq(Section) /\ Len(parents) \in Nat
    BY <1>1, ParentsAreSections
<1>9. PICK s \in ToSet(parents) : Sentence(i) \in ToSet(s.heading) \cup ToSet(TextsOf(s.paragraphs))
    BY <1>7, <1>8, StoredFrom
<1>10. PICK k \in 1 .. Len(parents) : s = parents[k]
    BY <1>8, Elements
<1>11. Sentence(i) \in Word
  <2>1. StoredOf(parents) \in Text
      BY <1>8, StoredIn
  <2> QED  BY <1>7, <2>1, Elements DEF Text
<1> QED  BY <1>9, <1>10, <1>11

LEMMA SaysSame ==
    ASSUME NEW u \in Unit, NEW i, NEW piece, u[1] = i, u[2] = piece
    PROVE  Says(<<i, piece>>) = Says(u)
BY DEF Says, Line

LEMMA PiecesAreStored ==
    ASSUME ContentInv, Complete, NEW k \in 1 .. Len(parents), NEW x \in Word,
           x \in ToSet(TextsOf(parents[k].paragraphs)), NEW p \in DOMAIN PieceSizes(x[2])
    PROVE  SaysSome(chunks, Says(<<x[1], p>>))
<1>1. parents \in Seq(Section) /\ Len(parents) \in Nat
    BY ParentsAreSections DEF ContentInv
<1>2. AllSaid(Len(parents))
  <2>1. section = Len(parents) /\ section > 0 /\ pc = "stored"
      BY <1>1 DEF Complete
  <2> QED  BY <2>1 DEF ContentInv, ContentLoops
<1>3. parents[k] \in Section
    BY <1>1
<1>4. PICK t \in Text : t = TextsOf(parents[k].paragraphs)
    BY <1>3, ToldIn
<1>5. Units(parents[k]) = UnitList(t) /\ UnitList(t) \in Seq(Unit)
    BY <1>4, UnitsFold, UnitsIncluded
<1>6. PICK u \in ToSet(UnitsIn(x)) : u[1] = x[1] /\ u[2] = p
    BY UnitsOfWord
<1>7. u \in ToSet(Units(parents[k])) /\ u \in Unit
  <2>1. ToSet(UnitsIn(x)) \subseteq ToSet(UnitList(t))
      BY <1>4, UnitsIncluded
  <2>2. ToSet(UnitList(t)) \subseteq Unit
      BY <1>5, Elements
  <2> QED  BY <1>5, <1>6, <2>1, <2>2
<1>8. SaysSome(chunks, Says(u))
    BY <1>2, <1>7 DEF AllSaid
<1> QED  BY <1>6, <1>7, <1>8, SaysSame

\* A stored passage that says what only section k says is one of section k.
LEMMA OnlyThere ==
    ASSUME ContentInv, Complete, NEW k \in DOMAIN parents, ~OnlyRepeats(k)
    PROVE  \E c \in DOMAIN chunks : chunks[c].section = k
<1>1. parents \in Seq(Section) /\ Len(parents) \in Nat /\ DOMAIN parents = 1 .. Len(parents)
    BY ParentsAreSections DEF ContentInv
<1>2. section = Len(parents) /\ AllSaid(Len(parents)) /\ PassagesStem
  <2>1. section = Len(parents) /\ section > 0 /\ pc = "stored"
      BY <1>1 DEF Complete
  <2> QED  BY <2>1 DEF ContentInv, ContentLoops
<1>3. PICK u \in ToSet(Units(parents[k])) : \A j \in DOMAIN parents \ {k} : Says(u) \notin SaidIn(j)
    BY DEF OnlyRepeats, SaidIn
<1>4. PICK c \in DOMAIN chunks : Says(u) \in ToSet(chunks[c].says)
    BY <1>1, <1>2, <1>3 DEF AllSaid, SaysSome
<1>5. Stems(chunks[c])
    BY <1>2 DEF PassagesStem, ToSet
<1>6. chunks[c].section \in DOMAIN parents /\ Says(u) \in SaidIn(chunks[c].section)
    BY <1>1, <1>2, <1>4, <1>5 DEF Stems
<1> QED  BY <1>3, <1>6

LEMMA EverythingIsStored == ContentInv => TextIsSearchable
<1> SUFFICES ASSUME ContentInv, Complete, NEW i \in ToSet(Readable),
                    NEW piece \in DOMAIN PieceSizes(Line(i).tokens)
             PROVE  \/ \E c \in DOMAIN chunks : \/ Says(<<i, piece>>) \in ToSet(chunks[c].says)
                                                \/ Sentence(i) \in ToSet(parents[chunks[c].section].heading)
                    \/ \E k \in DOMAIN parents : Sentence(i) \in ToSet(parents[k].heading) /\ OnlyRepeats(k)
    BY DEF TextIsSearchable
<1>1. phase = "built"
    BY DEF Complete
<1>2. PICK x \in Word : x = Sentence(i) /\ x[1] = i /\ x[2] = Line(i).tokens
    BY <1>1, LinesAreStored DEF Sentence
<1>3. PICK k \in 1 .. Len(parents) :
          x \in ToSet(parents[k].heading) \cup ToSet(TextsOf(parents[k].paragraphs))
    BY <1>1, <1>2, LinesAreStored
<1>4. CASE x \in ToSet(parents[k].heading)
  <2>1. k \in DOMAIN parents
      BY <1>3, ParentsAreSections DEF ContentInv
  <2>2. CASE OnlyRepeats(k)
      BY <1>2, <1>4, <2>1, <2>2
  <2>3. CASE ~OnlyRepeats(k)
    <3>1. PICK c \in DOMAIN chunks : chunks[c].section = k
        BY <2>1, <2>3, OnlyThere
    <3> QED  BY <1>2, <1>4, <3>1
  <2> QED  BY <2>2, <2>3
<1>5. CASE x \in ToSet(TextsOf(parents[k].paragraphs))
  <2>1. SaysSome(chunks, Says(<<x[1], piece>>))
      BY <1>2, <1>5, PiecesAreStored
  <2> QED  BY <1>2, <2>1 DEF SaysSome
<1> QED  BY <1>3, <1>4, <1>5

-----------------------------------------------------------------------------
(* Theorems *)

\* A heading block is made of lines of one level, one PDF block and outside code,
\* and no heading gets into a paragraph, however the parsers of PDF, DOCX,
\* Markdown and plain text wrap, fence and flush (parsers.py).
THEOREM BlocksStayPure == ContentSpec => []BlocksArePure
<1>1. ContentInv => BlocksArePure
    BY ParsingImplies DEF ContentInv
<1> QED  BY <1>1, ContentInvariant, PTL

\* Building, folding and splitting sections loses no sentence and no heading of
\* the document, repeats none and keeps their order (chunking.py).
THEOREM TextIsKept == ContentSpec => []SectionsKeepTheText
<1>1. ContentInv => SectionsKeepTheText
    BY SectionsImply DEF ContentInv
<1> QED  BY <1>1, ContentInvariant, PTL

\* path_for, which pops a stack, gives every section the outline of the document
\* at its place, for any sequence of levels.
THEOREM OutlineIsFollowed == ContentSpec => []PathsFollowTheOutline
<1>1. ContentInv => PathsFollowTheOutline
    BY SectionsImply DEF ContentInv
<1> QED  BY <1>1, ContentInvariant, PTL

\* A parent that _split_large leaves above its limit is a single sentence.
THEOREM ParentsFit == ContentSpec => []ParentsAreCapped
<1>1. ContentInv => ParentsAreCapped
    BY SectionsImply DEF ContentInv
<1> QED  BY <1>1, ContentInvariant, PTL

\* Every piece of every line that is read is in a passage that ingest_document
\* stores, or the line is in the heading a stored passage is searched under, or in
\* that of a section that says nothing of its own: across parsing, sections, passages
\* and the removal of passages that say the same.
THEOREM EverythingSearchable == ContentSpec => []TextIsSearchable
BY EverythingIsStored, ContentInvariant, PTL
=============================================================================
