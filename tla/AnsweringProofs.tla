---------------------------- MODULE AnsweringProofs ----------------------------
(***************************************************************************)
(* Proofs about one question and its answer, for every corpus, every scope *)
(* and every size of the rankings: the answer stays in the documents that  *)
(* were asked about (AnswersStayInScope), a citation shows a text of the   *)
(* block it numbers (SnippetsAreInTheirBlocks), the context fits its       *)
(* budget (ContextsFit), the fused ranking honours what both rankings      *)
(* agree on (FusionIsFair), a comparison lets every document speak in turn *)
(* (DocumentsAreHeard), and an overview takes its sections from all of a   *)
(* text (OverviewsAreSpread).                                              *)
(*                                                                         *)
(* The loops of retrieval/ are folds; FoldLaws gives the run of each, and  *)
(* an invariant of the run what the loop returns. AnsweringInv is the      *)
(* inductive invariant: the chunks of every list of the turn are chunks    *)
(* there may be in the documents of its scope, of any version, since a     *)
(* document may be ingested again or deleted between two steps.            *)
(***************************************************************************)
EXTENDS Answering, SequenceTheorems, FiniteSetTheorems, TLAPS

-----------------------------------------------------------------------------
(* Sequences: one element more, and the elements in a set *)

\* Append adds one element, and keeps apart what was apart.
LEMMA OneMore ==
    ASSUME NEW T, NEW s \in Seq(T), NEW x \in T, NEW w, w = Append(s, x)
    PROVE  /\ w \in Seq(T) /\ ToSet(w) = ToSet(s) \cup {x}
           /\ IsInjective(s) /\ x \notin ToSet(s) => IsInjective(w)
<1>1. PICK n \in Nat : n = Len(s)
    OBVIOUS
<1>2. w \in Seq(T) /\ Len(w) = n + 1 /\ w[n + 1] = x /\ \A i \in 1 .. n : w[i] = s[i]
    BY <1>1, AppendProperties
<1>3. DOMAIN s = 1 .. n /\ DOMAIN w = 1 .. n + 1
    BY <1>1, <1>2
<1>4. \A i : i \in 1 .. n + 1 <=> i \in 1 .. n \/ i = n + 1
    OBVIOUS
<1>5. ToSet(w) = ToSet(s) \cup {x}
  <2>1. ToSet(w) = {w[i] : i \in 1 .. n + 1} /\ ToSet(s) = {s[i] : i \in 1 .. n}
      BY <1>3 DEF ToSet
  <2> QED  BY <1>2, <1>4, <2>1
<1>6. ASSUME IsInjective(s), x \notin ToSet(s) PROVE IsInjective(w)
  <2>1. \A i \in 1 .. n : s[i] # x
      BY <1>3, <1>6 DEF ToSet
  <2>2. \A i, j \in 1 .. n : s[i] = s[j] => i = j
      BY <1>3, <1>6 DEF IsInjective
  <2>3. \A i, j \in 1 .. n + 1 : w[i] = w[j] => i = j
      BY <1>2, <1>4, <2>1, <2>2
  <2> QED  BY <1>3, <2>3 DEF IsInjective
<1> QED  BY <1>1, <1>2, <1>5, <1>6

\* The empty sequence has no elements.
LEMMA NoElements ==
    ASSUME NEW T PROVE <<>> \in Seq(T) /\ ToSet(<<>>) = {} /\ IsInjective(<<>>) /\ Len(<<>>) = 0
<1>1. DOMAIN <<>> = {}
    OBVIOUS
<1> QED  BY <1>1 DEF ToSet, IsInjective

\* A sequence and the set of its elements; Contains is membership in that set.
LEMMA Elements ==
    ASSUME NEW T, NEW s \in Seq(T)
    PROVE  /\ DOMAIN s = 1 .. Len(s) /\ Len(s) \in Nat /\ \A i \in 1 .. Len(s) : s[i] \in T
           /\ ToSet(s) = {s[i] : i \in 1 .. Len(s)} /\ ToSet(s) \subseteq T
           /\ \A x : Contains(s, x) <=> x \in ToSet(s)
BY DEF ToSet, Contains

Filters == INSTANCE FoldLaws WITH Op <- KeepIn

\* Filtered is a fold, so FoldLaws gives its run.
LEMMA FilteredFolds ==
    ASSUME NEW s, NEW S PROVE Filtered(s, S) = Filters!Fold(S, <<>>, s)
BY Zenon DEF Filtered, Filters!Fold, FoldLeft, MapThenFoldSet, Max, Filters!Greatest

\* Filtered keeps the elements that are in S, and each of them once if s had it once.
LEMMA FilteredIn ==
    ASSUME NEW T, NEW s \in Seq(T), NEW S
    PROVE  /\ Filtered(s, S) \in Seq(T)
           /\ ToSet(Filtered(s, S)) = ToSet(s) \cap S
           /\ IsInjective(s) => IsInjective(Filtered(s, S))
<1>0. \A q \in Seq(T), x \in T :
          /\ Append(q, x) \in Seq(T) /\ ToSet(Append(q, x)) = ToSet(q) \cup {x}
          /\ IsInjective(q) /\ x \notin ToSet(q) => IsInjective(Append(q, x))
    BY OneMore
<1>1. PICK n \in Nat : n = Len(s)
    OBVIOUS
<1>2. DOMAIN s = 1 .. n /\ ToSet(s) = {s[i] : i \in 1 .. n} /\ \A i \in 1 .. n : s[i] \in T
    BY <1>1, Elements
<1>3. PICK r : Filters!IsRun(S, <<>>, s, n, r) /\ Filters!Fold(S, <<>>, s) = r[n]
    BY <1>2, Filters!FoldRuns
<1>4. r[0] = <<>> /\ \A k \in 1 .. n : r[k] = KeepIn(S, r[k - 1], s[k])
    BY <1>3 DEF Filters!IsRun
<1> DEFINE I == {k \in Nat : /\ r[k] \in Seq(T)
                             /\ ToSet(r[k]) = {s[i] : i \in 1 .. k} \cap S
                             /\ IsInjective(s) => IsInjective(r[k])}
<1>5. 0 \in I
  <2>1. {s[i] : i \in 1 .. 0} = {}
      OBVIOUS
  <2> QED  BY <1>4, <2>1, NoElements
<1>6. ASSUME NEW k \in 0 .. n - 1, k \in I PROVE k + 1 \in I
  <2>1. k + 1 \in 1 .. n /\ (k + 1) - 1 = k /\ k + 1 \in Nat
      OBVIOUS
  <2>2. PICK x \in T : x = s[k + 1]
      BY <1>2, <2>1
  <2>3. PICK q : q = r[k]
      OBVIOUS
  <2>4. r[k + 1] = IF x \in S THEN Append(q, x) ELSE q
      BY <1>4, <2>1, <2>2, <2>3 DEF KeepIn
  <2>5. q \in Seq(T) /\ ToSet(q) = {s[i] : i \in 1 .. k} \cap S /\ (IsInjective(s) => IsInjective(q))
      BY <1>6, <2>3
  <2>6. {s[i] : i \in 1 .. k + 1} = {s[i] : i \in 1 .. k} \cup {x}
    <3>1. \A i : i \in 1 .. k + 1 <=> i \in 1 .. k \/ i = k + 1
        OBVIOUS
    <3> QED  BY <2>2, <3>1
  <2>7. CASE x \in S
    <3>1. PICK w : w = Append(q, x)
        OBVIOUS
    <3>2. /\ w \in Seq(T) /\ ToSet(w) = ToSet(q) \cup {x}
          /\ IsInjective(q) /\ x \notin ToSet(q) => IsInjective(w)
        BY <1>0, <2>2, <2>5, <3>1
    <3>3. IsInjective(s) => x \notin ToSet(q)
      <4>1. SUFFICES ASSUME IsInjective(s), NEW i \in 1 .. k, s[i] = x PROVE FALSE
          BY <2>5
      <4>2. i \in DOMAIN s /\ k + 1 \in DOMAIN s /\ s[i] = s[k + 1] /\ i # k + 1
          BY <1>2, <2>1, <2>2, <4>1
      <4> QED  BY <4>1, <4>2 DEF IsInjective
    <3>4. ToSet(w) = {s[i] : i \in 1 .. k + 1} \cap S
        BY <2>5, <2>6, <2>7, <3>2
    <3>5. r[k + 1] = w
        BY <2>4, <2>7, <3>1
    <3> QED  BY <2>1, <2>5, <3>2, <3>3, <3>4, <3>5
  <2>8. CASE x \notin S
    <3>1. {s[i] : i \in 1 .. k + 1} \cap S = {s[i] : i \in 1 .. k} \cap S
        BY <2>6, <2>8
    <3> QED  BY <2>1, <2>4, <2>5, <2>8, <3>1
  <2> QED  BY <2>7, <2>8
<1>7. n \in I
  <2>1. \A k \in 0 .. n : k \in I
    <3> HIDE DEF I
    <3> QED  BY <1>5, <1>6, Filters!NatsOfSet
  <2>2. n \in 0 .. n
      OBVIOUS
  <2> QED  BY <2>1, <2>2
<1> QED  BY <1>2, <1>3, <1>7, FilteredFolds

-----------------------------------------------------------------------------
(* Order: the elements of a finite set by how many are before them *)

\* A strict total order.
IsOrder(D, B) ==
    /\ \A i \in D : <<i, i>> \notin B
    /\ \A i, j, k \in D : <<i, j>> \in B /\ <<j, k>> \in B => <<i, k>> \in B
    /\ \A i, j \in D : i = j \/ <<i, j>> \in B \/ <<j, i>> \in B

\* One more than how many come before.
RankIn(D, B, i) == Cardinality({j \in D : <<j, i>> \in B}) + 1

\* Who comes before has fewer before it.
LEMMA RankRises ==
    ASSUME NEW D, IsFiniteSet(D), NEW B, IsOrder(D, B), NEW i \in D, NEW j \in D, <<i, j>> \in B
    PROVE  RankIn(D, B, i) < RankIn(D, B, j)
<1> DEFINE before(k) == {h \in D : <<h, k>> \in B}
<1>1. before(i) \subseteq before(j) \ {i}
    BY DEF IsOrder
<1>2. i \in before(j)
    OBVIOUS
<1>3. IsFiniteSet(before(i)) /\ IsFiniteSet(before(j))
    BY FS_Subset
<1>4. PICK a \in Nat : a = Cardinality(before(i))
    BY <1>3, FS_CardinalityType
<1>5. PICK b \in Nat : b = Cardinality(before(j))
    BY <1>3, FS_CardinalityType
<1>6. IsFiniteSet(before(j) \ {i}) /\ Cardinality(before(j) \ {i}) = b - 1
    BY <1>2, <1>3, <1>5, FS_RemoveElement
<1>7. a <= b - 1
  <2>1. Cardinality(before(i)) <= Cardinality(before(j) \ {i})
      BY <1>1, <1>6, FS_Subset
  <2> QED  BY <1>4, <1>6, <2>1
<1>8. a + 1 < b + 1
    BY <1>7
<1> QED  BY <1>4, <1>5, <1>8 DEF RankIn

\* The ranks are those of the set's size.
LEMMA RankType ==
    ASSUME NEW D, IsFiniteSet(D), NEW B, IsOrder(D, B), NEW i \in D
    PROVE  RankIn(D, B, i) \in 1 .. Cardinality(D)
<1> DEFINE before == {h \in D : <<h, i>> \in B}
<1>1. before \subseteq D \ {i}
    BY DEF IsOrder
<1>2. PICK n \in Nat : n = Cardinality(D)
    BY FS_CardinalityType
<1>3. IsFiniteSet(D \ {i}) /\ Cardinality(D \ {i}) = n - 1
    BY <1>2, FS_RemoveElement
<1>4. IsFiniteSet(before) /\ Cardinality(before) <= n - 1
    BY <1>1, <1>3, FS_Subset, ZenonT(60)
<1>5. PICK a \in Nat : a = Cardinality(before)
    BY <1>4, FS_CardinalityType
<1>6. a + 1 \in 1 .. n
    BY <1>4, <1>5
<1> QED  BY <1>2, <1>5, <1>6 DEF RankIn

\* Every place is taken by one element, and an element is before another when its
\* place is.
LEMMA Places ==
    ASSUME NEW D, IsFiniteSet(D), NEW B, IsOrder(D, B), NEW n \in Nat, n = Cardinality(D)
    PROVE  /\ \A i \in D : RankIn(D, B, i) \in 1 .. n
           /\ \A i, j \in D : <<i, j>> \in B <=> RankIn(D, B, i) < RankIn(D, B, j)
           /\ \A i, j \in D : RankIn(D, B, i) = RankIn(D, B, j) => i = j
           /\ \A k \in 1 .. n : \E i \in D : RankIn(D, B, i) = k
<1> DEFINE f == [i \in D |-> RankIn(D, B, i)]
<1>1. \A i \in D : RankIn(D, B, i) \in 1 .. n
    BY RankType
<1>2. \A i, j \in D : <<i, j>> \in B => RankIn(D, B, i) < RankIn(D, B, j)
    BY RankRises
<1>3. ASSUME NEW i \in D, NEW j \in D
      PROVE  /\ <<i, j>> \in B <=> RankIn(D, B, i) < RankIn(D, B, j)
             /\ RankIn(D, B, i) = RankIn(D, B, j) => i = j
  <2>1. PICK a \in 1 .. n, b \in 1 .. n : a = RankIn(D, B, i) /\ b = RankIn(D, B, j)
      BY <1>1
  <2>2. CASE i = j
      BY <2>1, <2>2 DEF IsOrder
  <2>3. CASE <<i, j>> \in B
      BY <1>2, <2>1, <2>3
  <2>4. CASE <<j, i>> \in B
    <3>1. b < a
        BY <1>2, <2>1, <2>4
    <3>2. <<i, j>> \notin B
        BY <2>4 DEF IsOrder
    <3> QED  BY <2>1, <3>1, <3>2
  <2> QED  BY <2>2, <2>3, <2>4 DEF IsOrder
<1>4. f \in Injection(D, 1 .. n)
  <2>1. f \in [D -> 1 .. n]
      BY <1>1
  <2>2. \A i, j \in D : f[i] = f[j] => i = j
      BY <1>3
  <2> HIDE DEF f
  <2> QED  BY <2>1, <2>2 DEF Injection, IsInjective
<1>5. f \in Surjection(D, 1 .. n)
  <2>1. IsFiniteSet(1 .. n) /\ Cardinality(1 .. n) = n
    <3>1. 1 \in Int /\ n \in Int /\ (IF 1 > n THEN 0 ELSE n - 1 + 1) = n
        OBVIOUS
    <3> QED  BY <3>1, FS_Interval
  <2> HIDE DEF f
  <2> QED  BY <1>4, <2>1, FS_Injection
<1>6. \A k \in 1 .. n : \E i \in D : RankIn(D, B, i) = k
    BY <1>5 DEF Surjection
<1> QED  BY <1>1, <1>3, <1>6

-----------------------------------------------------------------------------
(* Sequences: one after the other *)

\* The elements of two sequences one after the other.
LEMMA Joined ==
    ASSUME NEW T, NEW s \in Seq(T), NEW t \in Seq(T), NEW w, w = s \o t
    PROVE  /\ w \in Seq(T) /\ Len(w) = Len(s) + Len(t)
           /\ \A i \in 1 .. Len(s) : w[i] = s[i]
           /\ \A i \in 1 .. Len(t) : w[Len(s) + i] = t[i]
<1>1. PICK m \in Nat : m = Len(s)
    OBVIOUS
<1>2. PICK n \in Nat : n = Len(t)
    OBVIOUS
<1>3. /\ w \in Seq(T) /\ Len(w) = m + n
      /\ \A i \in 1 .. m + n : w[i] = IF i <= m THEN s[i] ELSE t[i - m]
    BY <1>1, <1>2, ConcatProperties
<1>4. \A i \in 1 .. m : w[i] = s[i] /\ i \in 1 .. m + n
    BY <1>3
<1>5. \A i \in 1 .. n : w[m + i] = t[i] /\ m + i \in 1 .. m + n
  <2> SUFFICES ASSUME NEW i \in 1 .. n PROVE w[m + i] = t[i] /\ m + i \in 1 .. m + n
      OBVIOUS
  <2>1. m + i \in 1 .. m + n /\ ~(m + i <= m) /\ (m + i) - m = i
      OBVIOUS
  <2> QED  BY <1>3, <2>1
<1> QED  BY <1>1, <1>2, <1>3, <1>4, <1>5

\* The elements of s \o t are those of s and those of t.
LEMMA JoinedSets ==
    ASSUME NEW T, NEW s \in Seq(T), NEW t \in Seq(T)
    PROVE  s \o t \in Seq(T) /\ ToSet(s \o t) = ToSet(s) \cup ToSet(t)
<1>0. PICK w : w = s \o t
    OBVIOUS
<1>1. PICK m \in Nat : m = Len(s)
    OBVIOUS
<1>2. PICK n \in Nat : n = Len(t)
    OBVIOUS
<1>3. w \in Seq(T) /\ Len(w) = m + n
    BY <1>0, <1>1, <1>2, Joined
<1>4. \A i \in 1 .. m : w[i] = s[i] /\ i \in 1 .. m + n
    BY <1>0, <1>1, Joined
<1>5. \A i \in 1 .. n : w[m + i] = t[i] /\ m + i \in 1 .. m + n
    BY <1>0, <1>1, <1>2, Joined
<1>6. \A i \in 1 .. m + n : i \in 1 .. m \/ (\E j \in 1 .. n : i = m + j)
  <2> SUFFICES ASSUME NEW i \in 1 .. m + n, i \notin 1 .. m PROVE \E j \in 1 .. n : i = m + j
      OBVIOUS
  <2>1. i - m \in 1 .. n /\ i = m + (i - m)
      OBVIOUS
  <2> QED  BY <2>1
<1>7. /\ DOMAIN s = 1 .. m /\ DOMAIN t = 1 .. n /\ DOMAIN w = 1 .. m + n
      /\ ToSet(s) = {s[i] : i \in 1 .. m} /\ ToSet(t) = {t[i] : i \in 1 .. n}
      /\ ToSet(w) = {w[i] : i \in 1 .. m + n}
  <2>1. DOMAIN s = 1 .. m /\ DOMAIN t = 1 .. n
      BY <1>1, <1>2
  <2>2. DOMAIN w = 1 .. m + n
    <3>1. w \in Seq(T) /\ Len(w) = m + n
        BY <1>3
    <3>2. DOMAIN w = 1 .. Len(w)
        BY <3>1
    <3> QED  BY <3>1, <3>2
  <2> QED  BY <2>1, <2>2 DEF ToSet
<1>8. ToSet(w) = ToSet(s) \cup ToSet(t)
  <2>1. ASSUME NEW x \in ToSet(w) PROVE x \in ToSet(s) \cup ToSet(t)
    <3>1. PICK i \in 1 .. m + n : x = w[i]
        BY <1>7
    <3>2. CASE i \in 1 .. m
        BY <1>4, <1>7, <3>1, <3>2
    <3>3. ASSUME NEW j \in 1 .. n, i = m + j PROVE x \in ToSet(t)
        BY <1>5, <1>7, <3>1, <3>3
    <3> QED  BY <1>6, <3>2, <3>3
  <2>2. ASSUME NEW x \in ToSet(s) PROVE x \in ToSet(w)
    <3>1. PICK i \in 1 .. m : x = s[i]
        BY <1>7
    <3> QED  BY <1>4, <1>7, <3>1
  <2>3. ASSUME NEW x \in ToSet(t) PROVE x \in ToSet(w)
    <3>1. PICK i \in 1 .. n : x = t[i]
        BY <1>7
    <3> QED  BY <1>5, <1>7, <3>1
  <2> QED  BY <2>1, <2>2, <2>3
<1> QED  BY <1>0, <1>3, <1>8

\* Two sequences without an element in common, each without repetition, stay so together.
LEMMA JoinedApart ==
    ASSUME NEW T, NEW s \in Seq(T), NEW t \in Seq(T), NEW w, w = s \o t,
           IsInjective(s), IsInjective(t), ToSet(s) \cap ToSet(t) = {}
    PROVE  IsInjective(w)
<1>1. PICK m \in Nat : m = Len(s)
    OBVIOUS
<1>2. PICK n \in Nat : n = Len(t)
    OBVIOUS
<1>3. /\ w \in Seq(T) /\ Len(w) = m + n
      /\ \A i \in 1 .. m : w[i] = s[i]
      /\ \A i \in 1 .. n : w[m + i] = t[i]
    BY <1>1, <1>2, Joined
<1>6. \A i \in 1 .. m + n : i \in 1 .. m \/ (\E j \in 1 .. n : i = m + j)
  <2> SUFFICES ASSUME NEW i \in 1 .. m + n, i \notin 1 .. m PROVE \E j \in 1 .. n : i = m + j
      OBVIOUS
  <2>1. i - m \in 1 .. n /\ i = m + (i - m)
      OBVIOUS
  <2> QED  BY <2>1
<1>7. DOMAIN s = 1 .. m /\ DOMAIN t = 1 .. n /\ DOMAIN w = 1 .. m + n
  <2>1. Len(w) = m + n /\ DOMAIN w = 1 .. Len(w)
      BY <1>3
  <2> QED  BY <1>1, <1>2, <2>1
<1>8. \A i, j \in 1 .. m : s[i] = s[j] => i = j
    BY <1>7 DEF IsInjective
<1>9. \A i, j \in 1 .. n : t[i] = t[j] => i = j
    BY <1>7 DEF IsInjective
<1>10. \A i \in 1 .. m, j \in 1 .. n : s[i] # t[j]
    BY <1>7 DEF ToSet
<1>11. ASSUME NEW i \in 1 .. m + n, NEW j \in 1 .. m + n, w[i] = w[j] PROVE i = j
  <2>1. CASE i \in 1 .. m /\ j \in 1 .. m
      BY <1>3, <1>8, <1>11, <2>1
  <2>2. ASSUME NEW g \in 1 .. n, NEW h \in 1 .. n, i = m + g, j = m + h PROVE i = j
      BY <1>3, <1>9, <1>11, <2>2, ZenonT(60)
  <2>3. ASSUME NEW h \in 1 .. n, i \in 1 .. m, j = m + h PROVE FALSE
      BY <1>3, <1>10, <1>11, <2>3
  <2>4. ASSUME NEW g \in 1 .. n, i = m + g, j \in 1 .. m PROVE FALSE
    <3>1. w[i] = t[g] /\ w[j] = s[j]
        BY <1>3, <2>4
    <3> QED  BY <1>10, <1>11, <2>4, <3>1
  <2> QED  BY <1>6, <2>1, <2>2, <2>3, <2>4
<1> QED  BY <1>7, <1>11 DEF IsInjective

-----------------------------------------------------------------------------
(* Fusion: scores are fractions, and the places of the chunks an order *)

Fraction == Nat \X (Nat \ {0})

\* A fraction above y is above whatever y is not below.
LEMMA Fractions ==
    ASSUME NEW x \in Fraction, NEW y \in Fraction, NEW z \in Fraction, Exceeds(x, y), ~Exceeds(z, y)
    PROVE  Exceeds(x, z)
<1>1. PICK a \in Nat, b \in Nat \ {0} : x[1] = a /\ x[2] = b
    BY DEF Fraction
<1>2. PICK c \in Nat, d \in Nat \ {0} : y[1] = c /\ y[2] = d
    BY DEF Fraction
<1>3. PICK e \in Nat, f \in Nat \ {0} : z[1] = e /\ z[2] = f
    BY DEF Fraction
<1>4. a * d > c * b /\ ~(e * d > c * f)
    BY <1>1, <1>2, <1>3 DEF Exceeds
<1>5. (a * d) * f > (c * b) * f /\ (c * f) * b >= (e * d) * b
  <2>1. PICK p \in Nat, q \in Nat : p = a * d /\ q = c * b
      OBVIOUS
  <2>2. PICK g \in Nat, h \in Nat : g = c * f /\ h = e * d
      OBVIOUS
  <2>3. p > q /\ g >= h
      BY <1>4, <2>1, <2>2
  <2>4. p * f > q * f
      BY <2>3
  <2>5. g * b >= h * b
      BY <2>3
  <2> QED  BY <2>1, <2>2, <2>4, <2>5
<1>6. (a * f) * d > (e * b) * d
  <2>1. (a * d) * f = (a * f) * d /\ (c * b) * f = (c * f) * b /\ (e * d) * b = (e * b) * d
      OBVIOUS
  <2>2. PICK p \in Nat, q \in Nat, r \in Nat : p = (a * f) * d /\ q = (c * f) * b /\ r = (e * b) * d
      OBVIOUS
  <2>3. p > q /\ q >= r
      BY <1>5, <2>1, <2>2
  <2>4. p > r
      BY <2>3
  <2> QED  BY <2>2, <2>4
<1>7. a * f > e * b
  <2>1. PICK p \in Nat, q \in Nat : p = a * f /\ q = e * b
      OBVIOUS
  <2>2. p * d > q * d
      BY <1>6, <2>1
  <2>3. p > q
      BY <2>2
  <2> QED  BY <2>1, <2>3
<1> QED  BY <1>1, <1>3, <1>7 DEF Exceeds

\* The rank of a chunk is where it is.
LEMMA RankOfFound ==
    ASSUME NEW T, NEW s \in Seq(T), NEW c, Contains(s, c)
    PROVE  RankOf(s, c) \in 1 .. Len(s) /\ s[RankOf(s, c)] = c
<1>1. DOMAIN s = 1 .. Len(s)
    BY Elements
<1>2. \E i \in 1 .. Len(s) : s[i] = c
    BY DEF Contains
<1> QED  BY <1>1, <1>2 DEF RankOf

\* What one ranking gives to a chunk is a fraction,
LEMMA ShareType ==
    ASSUME NEW T, NEW s \in Seq(T), NEW c
    PROVE  Share(s, c) \in Fraction
<1>1. CASE Contains(s, c)
  <2>1. PICK n \in Nat : n = Len(s)
      OBVIOUS
  <2>2. PICK i \in 1 .. n : i = RankOf(s, c)
      BY <1>1, <2>1, RankOfFound
  <2>3. RrfK + i \in Nat \ {0} /\ 1 \in Nat
      BY RetrievalAssumption
  <2>4. <<1, RrfK + i>> \in Fraction
      BY <2>3 DEF Fraction
  <2> QED  BY <1>1, <2>2, <2>4 DEF Share
<1>2. CASE ~Contains(s, c)
  <2>1. <<0, 1>> \in Fraction
      BY DEF Fraction
  <2> QED  BY <1>2, <2>1 DEF Share
<1> QED  BY <1>1, <1>2

\* and so is the sum of both.
LEMMA ScoreType ==
    ASSUME NEW T, NEW first \in Seq(T), NEW second \in Seq(T), NEW c
    PROVE  Score(first, second, c) \in Fraction
<1>1. Share(first, c) \in Fraction /\ Share(second, c) \in Fraction
    BY ShareType
<1>2. PICK a \in Nat, b \in Nat \ {0} : Share(first, c)[1] = a /\ Share(first, c)[2] = b
    BY <1>1 DEF Fraction
<1>3. PICK d \in Nat, e \in Nat \ {0} : Share(second, c)[1] = d /\ Share(second, c)[2] = e
    BY <1>1 DEF Fraction
<1>4. a * e + d * b \in Nat /\ b * e \in Nat \ {0}
    OBVIOUS
<1>5. Score(first, second, c) = <<a * e + d * b, b * e>>
    BY <1>2, <1>3 DEF Score
<1> QED  BY <1>4, <1>5 DEF Fraction

\* The chunks in the order in which they were met, and which come before which.
Met(first, second) == first \o Filtered(second, ToSet(second) \ ToSet(first))
ScoreAt(first, second, i) == Score(first, second, Met(first, second)[i])
Comes(first, second, i, j) ==
    \/ Exceeds(ScoreAt(first, second, i), ScoreAt(first, second, j))
    \/ ~Exceeds(ScoreAt(first, second, j), ScoreAt(first, second, i)) /\ i < j
Comings(first, second, D) == {p \in D \X D : Comes(first, second, p[1], p[2])}

\* The chunks that were met, by score.
Arranged(met, first, second) ==
    LET score == [i \in DOMAIN met |-> Score(first, second, met[i])]
        Before(i, j) == Exceeds(score[i], score[j]) \/ (~Exceeds(score[j], score[i]) /\ i < j)
        placed == {<<met[i], Cardinality({j \in DOMAIN met : Before(j, i)}) + 1>> : i \in DOMAIN met}
    IN [n \in DOMAIN met |-> (CHOOSE p \in placed : p[2] = n)[1]]

\* Fused, with the list of what was met named.
LEMMA FusedArranged ==
    ASSUME NEW first, NEW second
    PROVE  Fused(first, second) = Arranged(Met(first, second), first, second)
BY Zenon DEF Fused, Arranged, Met

\* Every chunk of either ranking is met once.
LEMMA MetIn ==
    ASSUME NEW T, NEW first \in Seq(T), NEW second \in Seq(T), IsInjective(first), IsInjective(second),
           NEW met, met = Met(first, second)
    PROVE  met \in Seq(T) /\ IsInjective(met) /\ ToSet(met) = ToSet(first) \cup ToSet(second)
<1>1. PICK more : more = Filtered(second, ToSet(second) \ ToSet(first))
    OBVIOUS
<1>2. more \in Seq(T) /\ IsInjective(more) /\ ToSet(more) = ToSet(second) \cap (ToSet(second) \ ToSet(first))
    BY <1>1, FilteredIn
<1>3. met = first \o more
    BY <1>1 DEF Met
<1>0. \A s, t \in Seq(T) :
          /\ s \o t \in Seq(T) /\ ToSet(s \o t) = ToSet(s) \cup ToSet(t)
          /\ IsInjective(s) /\ IsInjective(t) /\ ToSet(s) \cap ToSet(t) = {} => IsInjective(s \o t)
  <2> SUFFICES ASSUME NEW s \in Seq(T), NEW t \in Seq(T)
               PROVE  /\ s \o t \in Seq(T) /\ ToSet(s \o t) = ToSet(s) \cup ToSet(t)
                      /\ IsInjective(s) /\ IsInjective(t) /\ ToSet(s) \cap ToSet(t) = {} => IsInjective(s \o t)
      OBVIOUS
  <2>2. s \o t \in Seq(T) /\ ToSet(s \o t) = ToSet(s) \cup ToSet(t)
      BY JoinedSets
  <2>3. ASSUME IsInjective(s), IsInjective(t), ToSet(s) \cap ToSet(t) = {} PROVE IsInjective(s \o t)
      BY <2>3, JoinedApart
  <2> QED  BY <2>2, <2>3
<1>4. /\ met \in Seq(T) /\ ToSet(met) = ToSet(first) \cup ToSet(more)
      /\ IsInjective(first) /\ IsInjective(more) /\ ToSet(first) \cap ToSet(more) = {} => IsInjective(met)
    BY <1>0, <1>2, <1>3
<1>5. ToSet(first) \cap ToSet(more) = {} /\ ToSet(first) \cup ToSet(more) = ToSet(first) \cup ToSet(second)
    BY <1>2
<1> QED  BY <1>2, <1>4, <1>5

\* Which chunk comes before which is a total order, equal scores as they were met.
LEMMA ComingsOrder ==
    ASSUME NEW T, NEW first \in Seq(T), NEW second \in Seq(T), NEW n \in Nat
    PROVE  IsOrder(1 .. n, Comings(first, second, 1 .. n))
<1> DEFINE x(i) == ScoreAt(first, second, i)
           Before(i, j) == Comes(first, second, i, j)
<1>1. \A i : x(i) \in Fraction
    BY ScoreType DEF ScoreAt
<1>2. \A i, j : Before(i, j) <=> Exceeds(x(i), x(j)) \/ (~Exceeds(x(j), x(i)) /\ i < j)
    BY DEF Comes
<1>3. \A i, j : Exceeds(x(i), x(j)) => ~Exceeds(x(j), x(i))
  <2> SUFFICES ASSUME NEW i, NEW j, Exceeds(x(i), x(j)) PROVE ~Exceeds(x(j), x(i))
      OBVIOUS
  <2>1. PICK a \in Nat, b \in Nat : x(i)[1] = a /\ x(i)[2] = b
      BY <1>1 DEF Fraction
  <2>2. PICK c \in Nat, d \in Nat : x(j)[1] = c /\ x(j)[2] = d
      BY <1>1 DEF Fraction
  <2>3. PICK p \in Nat, q \in Nat : p = a * d /\ q = c * b
      OBVIOUS
  <2> QED  BY <2>1, <2>2, <2>3 DEF Exceeds
<1>4. \A i, j, k : Exceeds(x(i), x(j)) /\ ~Exceeds(x(k), x(j)) => Exceeds(x(i), x(k))
    BY <1>1, Fractions
<1> HIDE DEF x, Before
<1>5. \A i \in 1 .. n : ~Before(i, i)
    BY <1>2, <1>3
<1>6. \A i, j \in 1 .. n : i = j \/ Before(i, j) \/ Before(j, i)
    BY <1>2
<1>7. ASSUME NEW i \in 1 .. n, NEW j \in 1 .. n, NEW k \in 1 .. n, Before(i, j), Before(j, k)
      PROVE  Before(i, k)
  <2>1. CASE Exceeds(x(i), x(j))
    <3>1. ~Exceeds(x(k), x(j))
        BY <1>2, <1>3, <1>7
    <3> QED  BY <1>2, <1>4, <2>1, <3>1
  <2>2. CASE ~Exceeds(x(i), x(j)) /\ Exceeds(x(j), x(k))
    <3>1. ~Exceeds(x(j), x(i))
        BY <1>2, <1>7, <2>2
    <3>2. ~Exceeds(x(i), x(k)) => Exceeds(x(j), x(i))
        BY <1>4, <2>2
    <3> QED  BY <1>2, <3>1, <3>2
  <2>3. CASE ~Exceeds(x(i), x(j)) /\ ~Exceeds(x(j), x(k))
    <3>1. i < j /\ j < k /\ ~Exceeds(x(j), x(i)) /\ ~Exceeds(x(k), x(j))
        BY <1>2, <1>7, <2>3
    <3>2. Exceeds(x(k), x(i)) => Exceeds(x(k), x(j))
        BY <1>4, <3>1
    <3> QED  BY <1>2, <3>1, <3>2
  <2> QED  BY <2>1, <2>2, <2>3
<1>8. \A i, j \in 1 .. n : <<i, j>> \in Comings(first, second, 1 .. n) <=> Before(i, j)
    BY DEF Before, Comings
<1> QED  BY <1>5, <1>6, <1>7, <1>8 DEF IsOrder

\* A fused ranking holds the chunks of both, each once, no better one after a worse one.
LEMMA FusedIsSorted ==
    ASSUME NEW T, NEW first \in Seq(T), NEW second \in Seq(T), IsInjective(first), IsInjective(second),
           NEW F, F = Fused(first, second)
    PROVE  /\ F \in Seq(T) /\ IsInjective(F) /\ ToSet(F) = ToSet(first) \cup ToSet(second)
           /\ \A i, j \in DOMAIN F :
                 i < j => ~Exceeds(Score(first, second, F[j]), Score(first, second, F[i]))
<1>1. PICK met : met = Met(first, second)
    OBVIOUS
<1>2. met \in Seq(T) /\ IsInjective(met) /\ ToSet(met) = ToSet(first) \cup ToSet(second)
    BY <1>1, MetIn
<1>3. PICK n \in Nat : n = Len(met)
    BY <1>2
<1>4. DOMAIN met = 1 .. n /\ ToSet(met) = {met[i] : i \in 1 .. n}
    BY <1>2, <1>3, Elements
<1>5. PICK B : B = Comings(first, second, 1 .. n)
    OBVIOUS
<1>6. IsOrder(1 .. n, B)
    BY <1>5, ComingsOrder
<1>7. IsFiniteSet(1 .. n) /\ Cardinality(1 .. n) = n
  <2>1. 1 \in Int /\ n \in Int /\ (IF 1 > n THEN 0 ELSE n - 1 + 1) = n
      OBVIOUS
  <2> QED  BY <2>1, FS_Interval
<1>8. /\ DOMAIN F = 1 .. n
      /\ \A k \in 1 .. n : \E i \in 1 .. n : F[k] = met[i] /\ RankIn(1 .. n, B, i) = k
  <2> DEFINE score == [i \in DOMAIN met |-> Score(first, second, met[i])]
             Before(i, j) == Exceeds(score[i], score[j]) \/ (~Exceeds(score[j], score[i]) /\ i < j)
             rank(i) == Cardinality({j \in DOMAIN met : Before(j, i)}) + 1
             placed == {<<met[i], rank(i)>> : i \in DOMAIN met}
  <2>2. F = [k \in DOMAIN met |-> (CHOOSE p \in placed : p[2] = k)[1]]
    <3>1. F = Arranged(met, first, second)
        BY <1>1, FusedArranged
    <3> QED  BY <3>1, Zenon DEF Arranged
  <2>3. \A i \in 1 .. n : rank(i) = RankIn(1 .. n, B, i)
    <3> SUFFICES ASSUME NEW i \in 1 .. n PROVE rank(i) = RankIn(1 .. n, B, i)
        OBVIOUS
    <3>1. \A j \in 1 .. n : score[j] = ScoreAt(first, second, j)
        BY <1>1, <1>4 DEF ScoreAt
    <3> HIDE DEF score
    <3>2. {j \in DOMAIN met : Before(j, i)} = {j \in 1 .. n : <<j, i>> \in B}
        BY <1>4, <1>5, <3>1 DEF Comings, Comes
    <3> QED  BY <3>2 DEF RankIn
  <2>4. \A k \in 1 .. n : \E i \in 1 .. n : RankIn(1 .. n, B, i) = k
      BY <1>6, <1>7, Places
  <2> HIDE DEF rank
  <2>5. ASSUME NEW k \in 1 .. n PROVE \E i \in 1 .. n : F[k] = met[i] /\ RankIn(1 .. n, B, i) = k
    <3>0. PICK i \in 1 .. n : rank(i) = k
        BY <2>3, <2>4
    <3>1. \E p \in placed : p[2] = k
      <4>1. <<met[i], rank(i)>> \in placed /\ <<met[i], rank(i)>>[2] = k
          BY <1>4, <3>0
      <4> QED  BY <4>1
    <3>2. PICK p \in placed : p[2] = k /\ F[k] = p[1]
      <4> HIDE DEF placed
      <4>1. k \in DOMAIN met
          BY <1>4
      <4>2. F[k] = (CHOOSE p \in placed : p[2] = k)[1]
          BY <2>2, <4>1
      <4> QED  BY <3>1, <4>2
    <3>3. PICK h \in 1 .. n : p = <<met[h], rank(h)>>
        BY <1>4, <3>2
    <3> QED  BY <2>3, <3>2, <3>3
  <2>6. DOMAIN F = 1 .. n
      BY <1>4, <2>2
  <2> QED  BY <2>5, <2>6
<1>9. /\ \A i \in 1 .. n : RankIn(1 .. n, B, i) \in 1 .. n
      /\ \A i, j \in 1 .. n : <<i, j>> \in B <=> RankIn(1 .. n, B, i) < RankIn(1 .. n, B, j)
      /\ \A i, j \in 1 .. n : RankIn(1 .. n, B, i) = RankIn(1 .. n, B, j) => i = j
    BY <1>6, <1>7, Places
<1>10. \A k \in 1 .. n : F[k] \in T
  <2>1. \A i \in 1 .. n : met[i] \in T
      BY <1>2, <1>3, Elements
  <2> QED  BY <1>8, <2>1
<1>11. \A i \in 1 .. n : \E k \in 1 .. n : F[k] = met[i]
  <2> SUFFICES ASSUME NEW i \in 1 .. n PROVE \E k \in 1 .. n : F[k] = met[i]
      OBVIOUS
  <2>1. PICK k \in 1 .. n : k = RankIn(1 .. n, B, i)
      BY <1>9
  <2> QED  BY <1>8, <1>9, <2>1
<1>12. F \in Seq(T)
  <2>1. F = [k \in 1 .. n |-> F[k]]
    <3>1. F = [k \in DOMAIN met |-> F[k]]
      <4>1. F = Arranged(met, first, second)
          BY <1>1, FusedArranged
      <4>2. \A e : e = Arranged(met, first, second) => e = [k \in DOMAIN met |-> e[k]]
          BY DEF Arranged
      <4> QED  BY <4>1, <4>2
    <3> QED  BY <1>4, <3>1
  <2> QED  BY <1>10, <2>1
<1>13. ToSet(F) = {F[k] : k \in 1 .. n}
    BY <1>8 DEF ToSet
<1>14. ToSet(F) = ToSet(met)
  <2>1. ASSUME NEW x \in ToSet(F) PROVE x \in ToSet(met)
    <3>1. PICK k \in 1 .. n : x = F[k]
        BY <1>13
    <3> QED  BY <1>4, <1>8, <3>1
  <2>2. ASSUME NEW x \in ToSet(met) PROVE x \in ToSet(F)
    <3>1. PICK i \in 1 .. n : x = met[i]
        BY <1>4
    <3> QED  BY <1>11, <1>13, <3>1
  <2> QED  BY <2>1, <2>2
<1>15. \A i, j \in 1 .. n : met[i] = met[j] => i = j
    BY <1>2, <1>4 DEF IsInjective
<1>16. IsInjective(F)
  <2>1. ASSUME NEW k \in 1 .. n, NEW l \in 1 .. n, F[k] = F[l] PROVE k = l
    <3>1. PICK i \in 1 .. n : F[k] = met[i] /\ RankIn(1 .. n, B, i) = k
        BY <1>8
    <3>2. PICK j \in 1 .. n : F[l] = met[j] /\ RankIn(1 .. n, B, j) = l
        BY <1>8
    <3> QED  BY <1>15, <2>1, <3>1, <3>2
  <2> QED  BY <1>8, <2>1 DEF IsInjective
<1>17. ASSUME NEW k \in 1 .. n, NEW l \in 1 .. n, k < l
       PROVE  ~Exceeds(Score(first, second, F[l]), Score(first, second, F[k]))
  <2>1. PICK i \in 1 .. n : F[k] = met[i] /\ RankIn(1 .. n, B, i) = k
      BY <1>8
  <2>2. PICK j \in 1 .. n : F[l] = met[j] /\ RankIn(1 .. n, B, j) = l
      BY <1>8
  <2>3. <<j, i>> \notin B
      BY <1>9, <1>17, <2>1, <2>2
  <2>4. ~Comes(first, second, j, i)
      BY <1>5, <2>3 DEF Comings
  <2>5. ~Exceeds(ScoreAt(first, second, j), ScoreAt(first, second, i))
      BY <2>4 DEF Comes
  <2> QED  BY <1>1, <2>1, <2>2, <2>5 DEF ScoreAt
<1> QED  BY <1>2, <1>8, <1>12, <1>14, <1>16, <1>17

\* A sum of two larger fractions is larger.
LEMMA SumExceeds ==
    ASSUME NEW a \in Nat, NEW b \in Nat \ {0}, NEW c \in Nat, NEW d \in Nat \ {0},
           NEW e \in Nat, NEW f \in Nat \ {0}, NEW g \in Nat, NEW h \in Nat \ {0},
           a * d > c * b, e * h > g * f
    PROVE  (a * f + e * b) * (d * h) > (c * h + g * d) * (b * f)
<1>1. PICK p \in Nat, q \in Nat, r \in Nat, s \in Nat : p = a * d /\ q = c * b /\ r = e * h /\ s = g * f
    OBVIOUS
<1>2. PICK x \in Nat \ {0}, y \in Nat \ {0} : x = f * h /\ y = b * d
    OBVIOUS
<1>3. p * x > q * x
    BY <1>1, <1>2
<1>4. r * y > s * y
    BY <1>1, <1>2
<1>5. (a * f + e * b) * (d * h) = p * x + r * y
    BY <1>1, <1>2
<1>6. (c * h + g * d) * (b * f) = q * x + s * y
    BY <1>1, <1>2
<1>7. PICK t \in Nat, u \in Nat, v \in Nat, w \in Nat : t = p * x /\ u = q * x /\ v = r * y /\ w = s * y
    OBVIOUS
<1>8. t + v > u + w
    BY <1>3, <1>4, <1>7
<1> QED  BY <1>5, <1>6, <1>7, <1>8

\* Two places below m beat one place from k on, however good.
LEMMA TwoBeatOne ==
    ASSUME NEW k \in Nat, NEW x \in Nat, NEW y \in Nat, NEW z \in Nat,
           x > k, y > k, z > k, x < 2 * k + 2, y < 2 * k + 2
    PROVE  (x + y) * z > x * y
<1>1. (x + y) * z >= (x + y) * (k + 1)
  <2>1. PICK w \in Nat, m \in Nat : w = x + y /\ m = z - (k + 1)
      OBVIOUS
  <2>2. w * z = w * (k + 1) + w * m
      BY <2>1
  <2> QED  BY <2>1, <2>2
<1>2. x * (2 * k + 2) > x * y
  <2>1. PICK m \in Nat \ {0} : m = 2 * k + 2 - y
      OBVIOUS
  <2>2. x * (2 * k + 2) = x * y + x * m
      BY <2>1
  <2>3. x * m > 0
      OBVIOUS
  <2> QED  BY <2>2, <2>3
<1>3. y * (2 * k + 2) > x * y
  <2>1. PICK m \in Nat \ {0} : m = 2 * k + 2 - x
      OBVIOUS
  <2>2. y * (2 * k + 2) = x * y + y * m
      BY <2>1
  <2>3. y * m > 0
      OBVIOUS
  <2> QED  BY <2>2, <2>3
<1>4. x * (2 * k + 2) + y * (2 * k + 2) = 2 * ((x + y) * (k + 1))
    OBVIOUS
<1>5. PICK p \in Nat, q \in Nat, r \in Nat, s \in Nat, t \in Nat :
          p = x * y /\ q = (x + y) * (k + 1) /\ r = (x + y) * z /\ s = x * (2 * k + 2) /\ t = y * (2 * k + 2)
    OBVIOUS
<1> QED  BY <1>1, <1>2, <1>3, <1>4, <1>5

\* The place of c in a ranking, or the one after the last.
PlaceOr(ranking, c) == IF Contains(ranking, c) THEN RankOf(ranking, c) ELSE Candidates + 1

\* The share of a chunk by its place.
LEMMA ShareAt ==
    ASSUME NEW T, NEW s \in Seq(T), Len(s) <= Candidates, NEW c
    PROVE  /\ PlaceOr(s, c) \in Nat \ {0}
           /\ Contains(s, c) <=> PlaceOr(s, c) <= Candidates
           /\ Contains(s, c) => Share(s, c) = <<1, RrfK + PlaceOr(s, c)>>
           /\ ~Contains(s, c) => Share(s, c) = <<0, 1>>
<1>0. Candidates \in Nat /\ RrfK \in Nat
    BY AnsweringAssumption, RetrievalAssumption
<1>1. CASE Contains(s, c)
  <2>1. PICK n \in Nat : n = Len(s)
      OBVIOUS
  <2>2. PICK i \in 1 .. n : i = RankOf(s, c)
      BY <1>1, <2>1, RankOfFound
  <2> QED  BY <1>0, <1>1, <2>1, <2>2 DEF PlaceOr, Share
<1>2. CASE ~Contains(s, c)
    BY <1>0, <1>2 DEF PlaceOr, Share
<1> QED  BY <1>1, <1>2

\* A better place has a larger share.
LEMMA ShareFalls ==
    ASSUME NEW T, NEW s \in Seq(T), Len(s) <= Candidates, NEW c, NEW d, PlaceOr(s, c) < PlaceOr(s, d)
    PROVE  Exceeds(Share(s, c), Share(s, d))
<1>0. Candidates \in Nat /\ RrfK \in Nat
    BY AnsweringAssumption, RetrievalAssumption
<1>1. PICK i \in Nat \ {0}, j \in Nat \ {0} : i = PlaceOr(s, c) /\ j = PlaceOr(s, d)
    BY ShareAt
<1>2. j <= Candidates + 1
  <2>1. CASE Contains(s, d)
      BY <1>0, <1>1, <2>1, ShareAt
  <2>2. CASE ~Contains(s, d)
      BY <1>0, <1>1, <2>2 DEF PlaceOr
  <2> QED  BY <2>1, <2>2
<1>3. Contains(s, c)
    BY <1>0, <1>1, <1>2, ShareAt
<1>4. Share(s, c) = <<1, RrfK + i>>
    BY <1>1, <1>3, ShareAt
<1>5. CASE Contains(s, d)
  <2>1. Share(s, d) = <<1, RrfK + j>>
      BY <1>1, <1>5, ShareAt
  <2> QED  BY <1>0, <1>1, <1>4, <2>1 DEF Exceeds
<1>6. CASE ~Contains(s, d)
  <2>1. Share(s, d) = <<0, 1>>
      BY <1>6, ShareAt
  <2> QED  BY <1>0, <1>1, <1>4, <2>1 DEF Exceeds
<1> QED  BY <1>5, <1>6

\* A chunk with the better place in both rankings has the better score.
LEMMA BetterInBoth ==
    ASSUME NEW T, NEW first \in Seq(T), NEW second \in Seq(T),
           Len(first) <= Candidates, Len(second) <= Candidates, NEW c, NEW d,
           PlaceOr(first, c) < PlaceOr(first, d), PlaceOr(second, c) < PlaceOr(second, d)
    PROVE  Exceeds(Score(first, second, c), Score(first, second, d))
<1>1. /\ Share(first, c) \in Fraction /\ Share(second, c) \in Fraction
      /\ Share(first, d) \in Fraction /\ Share(second, d) \in Fraction
    BY ShareType
<1>2. Exceeds(Share(first, c), Share(first, d)) /\ Exceeds(Share(second, c), Share(second, d))
    BY ShareFalls
<1>3. PICK a \in Nat, b \in Nat \ {0} : Share(first, c)[1] = a /\ Share(first, c)[2] = b
    BY <1>1 DEF Fraction
<1>4. PICK e \in Nat, f \in Nat \ {0} : Share(second, c)[1] = e /\ Share(second, c)[2] = f
    BY <1>1 DEF Fraction
<1>5. PICK g \in Nat, h \in Nat \ {0} : Share(first, d)[1] = g /\ Share(first, d)[2] = h
    BY <1>1 DEF Fraction
<1>6. PICK i \in Nat, j \in Nat \ {0} : Share(second, d)[1] = i /\ Share(second, d)[2] = j
    BY <1>1 DEF Fraction
<1>7. a * h > g * b /\ e * j > i * f
    BY <1>2, <1>3, <1>4, <1>5, <1>6 DEF Exceeds
<1>8. (a * f + e * b) * (h * j) > (g * j + i * h) * (b * f)
    BY <1>7, SumExceeds
<1>9. Score(first, second, c) = <<a * f + e * b, b * f>> /\ Score(first, second, d) = <<g * j + i * h, h * j>>
    BY <1>3, <1>4, <1>5, <1>6 DEF Score
<1> QED  BY <1>8, <1>9 DEF Exceeds

\* A chunk of both rankings has a better score than a chunk of one, in rankings of
\* fewer than RrfK + 2 chunks: 1/(k + x) + 1/(k + y) is above 1/(k + 1) only then.
LEMMA FoundByBoth ==
    ASSUME NEW T, NEW first \in Seq(T), NEW second \in Seq(T), Candidates < RrfK + 2,
           Len(first) <= Candidates, Len(second) <= Candidates, NEW c, NEW d,
           Contains(first, c) /\ Contains(second, c), ~(Contains(first, d) /\ Contains(second, d)),
           Contains(first, d) \/ Contains(second, d)
    PROVE  Exceeds(Score(first, second, c), Score(first, second, d))
<1>0. Candidates \in Nat /\ RrfK \in Nat
    BY AnsweringAssumption, RetrievalAssumption
<1>1. PICK x \in Nat : x = RrfK + PlaceOr(first, c) /\ x > RrfK /\ x < 2 * RrfK + 2 /\ Share(first, c) = <<1, x>>
    BY <1>0, ShareAt
<1>2. PICK y \in Nat : y = RrfK + PlaceOr(second, c) /\ y > RrfK /\ y < 2 * RrfK + 2 /\ Share(second, c) = <<1, y>>
    BY <1>0, ShareAt
<1>3. Score(first, second, c) = <<x + y, x * y>>
  <2>1. Score(first, second, c) = <<1 * y + 1 * x, x * y>>
      BY <1>1, <1>2 DEF Score
  <2> QED  BY <2>1
<1>4. PICK z \in Nat : z > RrfK /\ Score(first, second, d) = <<1, z>>
  <2>1. CASE Contains(first, d)
    <3>1. PICK z \in Nat : z > RrfK /\ Share(first, d) = <<1, z>>
        BY <1>0, <2>1, ShareAt
    <3>2. Share(second, d) = <<0, 1>>
        BY <2>1, ShareAt
    <3>3. Score(first, second, d) = <<1 * 1 + 0 * z, z * 1>>
        BY <3>1, <3>2 DEF Score
    <3> QED  BY <3>1, <3>3
  <2>2. CASE Contains(second, d)
    <3>1. PICK z \in Nat : z > RrfK /\ Share(second, d) = <<1, z>>
        BY <1>0, <2>2, ShareAt
    <3>2. Share(first, d) = <<0, 1>>
        BY <2>2, ShareAt
    <3>3. Score(first, second, d) = <<0 * z + 1 * 1, 1 * z>>
        BY <3>1, <3>2 DEF Score
    <3> QED  BY <3>1, <3>3
  <2> QED  BY <2>1, <2>2
<1>5. (x + y) * z > x * y
    BY <1>0, <1>1, <1>2, <1>4, TwoBeatOne
<1>6. PICK p \in Nat, q \in Nat : p = (x + y) * z /\ q = x * y
    OBVIOUS
<1>7. (x + y) * z > 1 * (x * y)
    BY <1>5, <1>6
<1> QED  BY <1>3, <1>4, <1>7 DEF Exceeds

-----------------------------------------------------------------------------
(* Loops that only collect stay in what they collect from *)

\* One element more of the same set.
LEMMA Appends ==
    ASSUME NEW T, NEW s \in Seq(T), NEW x \in T PROVE Append(s, x) \in Seq(T)
OBVIOUS

\* Two sequences of the same set.
LEMMA Concats ==
    ASSUME NEW T, NEW s \in Seq(T), NEW t \in Seq(T) PROVE s \o t \in Seq(T)
BY ConcatProperties

\* The places of a sequence, as a sequence.
LEMMA Counting ==
    ASSUME NEW n \in Nat
    PROVE  /\ DOMAIN [i \in 1 .. n |-> i] = 1 .. n
           /\ \A i \in 1 .. n : [k \in 1 .. n |-> k][i] \in 1 .. n
OBVIOUS

Texts == INSTANCE FoldLaws WITH Op <- WithSection

\* The chunks of a text are collected section by section.
LEMMA ChunksInFolds ==
    ASSUME NEW text
    PROVE  ChunksIn(text) = Texts!Fold(text, <<>>, [s \in DOMAIN text.sections |-> s])
BY Zenon DEF ChunksIn, Texts!Fold, FoldLeft, MapThenFoldSet, Max, Texts!Greatest

\* The chunks of a text are named after it, its sections and their passages.
LEMMA ChunksInStay ==
    ASSUME NEW text, NEW n \in Nat, DOMAIN text.sections = 1 .. n, NEW T,
           \A s \in 1 .. n : /\ text.sections[s].passages \in Seq(Nat)
                             /\ \A k \in DOMAIN text.sections[s].passages :
                                   <<text.id, text.version, s, k>> \in T
    PROVE  ChunksIn(text) \in Seq(T)
<1>1. PICK places : places = [s \in DOMAIN text.sections |-> s]
    OBVIOUS
<1>2. DOMAIN places = 1 .. n /\ \A i \in 1 .. n : places[i] \in 1 .. n
    BY <1>1
<1>3. ASSUME NEW all \in Seq(T), NEW s \in 1 .. n PROVE WithSection(text, all, s) \in Seq(T)
  <2>1. PICK m \in Nat : m = Len(text.sections[s].passages)
      OBVIOUS
  <2>2. DOMAIN text.sections[s].passages = 1 .. m
      BY <2>1
  <2>3. [k \in DOMAIN text.sections[s].passages |-> <<text.id, text.version, s, k>>] \in Seq(T)
      BY <2>2
  <2> QED  BY <2>3, Concats DEF WithSection
<1>4. <<>> \in Seq(T)
    OBVIOUS
<1>5. Texts!Fold(text, <<>>, places) \in Seq(T)
  <2>1. PICK A, P : A = Seq(T) /\ P = 1 .. n
      OBVIOUS
  <2>2. <<>> \in A /\ \A all \in A, s \in P : WithSection(text, all, s) \in A
      BY <1>3, <1>4, <2>1
  <2>3. DOMAIN places = 1 .. n /\ \A i \in 1 .. n : places[i] \in P
      BY <1>2, <2>1
  <2>4. Texts!Fold(text, <<>>, places) \in A
      BY ONLY n \in Nat, <2>2, <2>3, Texts!FoldStaysIn
  <2> QED  BY <2>1, <2>4
<1> QED  BY <1>1, <1>5, ChunksInFolds

Overviews == INSTANCE FoldLaws WITH Op <- WithOpenings

\* The openings are collected document by document.
LEMMA OpenedFolds ==
    ASSUME NEW opening, NEW ids PROVE Opened(opening, ids) = Overviews!Fold(opening, <<>>, ids)
BY Zenon DEF Opened, Overviews!Fold, FoldLeft, MapThenFoldSet, Max, Overviews!Greatest

\* The openings of the documents are among those of each.
LEMMA OpenedStay ==
    ASSUME NEW D, NEW ids \in Seq(D), NEW T, NEW opening, \A d \in D : opening[d] \in Seq(T)
    PROVE  Opened(opening, ids) \in Seq(T)
<1>1. PICK n \in Nat : n = Len(ids)
    OBVIOUS
<1>2. DOMAIN ids = 1 .. n /\ \A i \in 1 .. n : ids[i] \in D
    BY <1>1
<1>3. \A all \in Seq(T), d \in D : WithOpenings(opening, all, d) \in Seq(T)
    BY Concats DEF WithOpenings
<1>4. <<>> \in Seq(T)
    OBVIOUS
<1>5. Overviews!Fold(opening, <<>>, ids) \in Seq(T)
  <2>1. PICK A : A = Seq(T)
      OBVIOUS
  <2>2. <<>> \in A /\ \A all \in A, d \in D : WithOpenings(opening, all, d) \in A
      BY <1>3, <1>4, <2>1
  <2>3. Overviews!Fold(opening, <<>>, ids) \in A
      BY ONLY n \in Nat, <1>2, <2>2, Overviews!FoldStaysIn
  <2> QED  BY <2>1, <2>3
<1> QED  BY <1>5, OpenedFolds

Rounds == INSTANCE FoldLaws WITH Op <- TakeFrom

\* A round takes from one result after the other.
LEMMA RoundFolds ==
    ASSUME NEW found, NEW i PROVE Round(found, i) = Rounds!Fold(i, <<>>, found)
BY Zenon DEF Round, Rounds!Fold, FoldLeft, MapThenFoldSet, Max, Rounds!Greatest

\* What a round takes is in the results.
LEMMA RoundStays ==
    ASSUME NEW T, NEW found \in Seq(Seq(T)), NEW i \in Nat \ {0}
    PROVE  Round(found, i) \in Seq(T)
<1>1. PICK n \in Nat : n = Len(found)
    OBVIOUS
<1>2. DOMAIN found = 1 .. n /\ \A k \in 1 .. n : found[k] \in Seq(T)
    BY <1>1
<1>3. ASSUME NEW all \in Seq(T), NEW r \in Seq(T) PROVE TakeFrom(i, all, r) \in Seq(T)
  <2>1. i <= Len(r) => r[i] \in T
      OBVIOUS
  <2> QED  BY <2>1, Appends DEF TakeFrom
<1>4. <<>> \in Seq(T)
    OBVIOUS
<1> QED  BY <1>2, <1>3, <1>4, RoundFolds, Rounds!FoldStaysIn

Turns == INSTANCE FoldLaws WITH Op <- WithRound

\* The hits are collected round by round.
LEMMA InterleavedFolds ==
    ASSUME NEW found
    PROVE  Interleaved(found) = Turns!Fold(found, <<>>, [i \in 1 .. PerDocument(Len(found)) |-> i])
BY Zenon DEF Interleaved, Turns!Fold, FoldLeft, MapThenFoldSet, Max, Turns!Greatest

\* The results of a search are sequences of what they are of.
LEMMA Shares ==
    ASSUME NEW n \in Nat \ {0}
    PROVE  PerDocument(n) \in Nat \ {0, 1} /\ Budget(n) \in Nat \ {0, 1}
<1>1. TopK \div n \in Int /\ SummarySections \div n \in Int
    BY RetrievalAssumption
<1>2. \A x \in Int : AtLeastTwo(x) \in Nat \ {0, 1}
    BY DEF AtLeastTwo
<1> QED  BY <1>1, <1>2 DEF PerDocument, Budget

\* What the rounds take together is in the results.
LEMMA InterleavedStays ==
    ASSUME NEW T, NEW found \in Seq(Seq(T)), found # <<>>
    PROVE  Interleaved(found) \in Seq(T)
<1>1. PICK m \in Nat \ {0} : m = Len(found)
    OBVIOUS
<1>2. PICK n \in Nat : n = PerDocument(Len(found))
    BY <1>1, Shares
<1>3. PICK turns : turns = [i \in 1 .. PerDocument(Len(found)) |-> i]
    OBVIOUS
<1>4. DOMAIN turns = 1 .. n /\ \A i \in 1 .. n : turns[i] \in Nat \ {0}
    BY <1>2, <1>3
<1>5. \A all \in Seq(T), i \in Nat \ {0} : WithRound(found, all, i) \in Seq(T)
    BY RoundStays, Concats DEF WithRound
<1>6. <<>> \in Seq(T)
    OBVIOUS
<1>7. Turns!Fold(found, <<>>, turns) \in Seq(T)
  <2>1. PICK A, N : A = Seq(T) /\ N = Nat \ {0}
      OBVIOUS
  <2>2. <<>> \in A /\ \A all \in A, i \in N : WithRound(found, all, i) \in A
      BY <1>5, <1>6, <2>1
  <2>3. \A i \in 1 .. n : turns[i] \in N
      BY <1>4, <2>1
  <2>4. Turns!Fold(found, <<>>, turns) \in A
      BY ONLY n \in Nat, <1>4, <2>2, <2>3, Turns!FoldStaysIn
  <2> QED  BY <2>1, <2>4
<1> QED  BY <1>3, <1>7, InterleavedFolds

Citing == INSTANCE FoldLaws WITH Op <- WithCitation

\* The citations are collected mention by mention.
LEMMA CitedFolds ==
    ASSUME NEW mentioned PROVE Cited(mentioned) = Citing!Fold(DOMAIN blocks, <<>>, mentioned)
BY Zenon DEF Cited, Citing!Fold, FoldLeft, MapThenFoldSet, Max, Citing!Greatest

\* Whatever the model mentions, each block is cited once and no number is without a block.
LEMMA CitedOnce ==
    ASSUME NEW T, NEW mentioned \in Seq(T)
    PROVE  Cited(mentioned) \in Seq(DOMAIN blocks) /\ IsInjective(Cited(mentioned))
<1>0. \A q \in Seq(DOMAIN blocks), x \in DOMAIN blocks :
          /\ Append(q, x) \in Seq(DOMAIN blocks)
          /\ IsInjective(q) /\ x \notin ToSet(q) => IsInjective(Append(q, x))
    BY OneMore
<1>1. PICK n \in Nat : n = Len(mentioned)
    OBVIOUS
<1>2. DOMAIN mentioned = 1 .. n /\ \A i \in 1 .. n : mentioned[i] \in T
    BY <1>1
<1> DEFINE A == {q \in Seq(DOMAIN blocks) : IsInjective(q)}
<1>3. ASSUME NEW q \in A, NEW x \in T PROVE WithCitation(DOMAIN blocks, q, x) \in A
  <2>1. Contains(q, x) <=> x \in ToSet(q)
      BY Elements
  <2> QED  BY <1>0, <2>1 DEF WithCitation
<1>4. <<>> \in A
    BY NoElements
<1>5. Cited(mentioned) \in A
  <2> HIDE DEF A
  <2> QED  BY <1>2, <1>3, <1>4, CitedFolds, Citing!FoldStaysIn, SMTT(30)
<1> QED  BY <1>5

-----------------------------------------------------------------------------
(* The context: what it uses, and that a block more still fits *)

Paying(nothing, sum, block) == CostWith(sum, block)
Costs == INSTANCE FoldLaws WITH Op <- Paying

\* The tokens used are summed block by block.
LEMMA UsedFolds ==
    ASSUME NEW bs PROVE Used(bs) = Costs!Fold({}, 0, bs)
BY Zenon DEF Used, Paying, Costs!Fold, FoldLeft, MapThenFoldSet, Max, Costs!Greatest

\* A block more uses what it costs.
LEMMA UsedRises ==
    ASSUME NEW T, NEW bs \in Seq(T), NEW b \in T
    PROVE  Used(Append(bs, b)) = Used(bs) + b.cost
<1>1. Costs!Fold({}, 0, Append(bs, b)) = Paying({}, Costs!Fold({}, 0, bs), b)
    BY Costs!FoldOfAppend
<1> QED  BY <1>1, UsedFolds DEF Paying, CostWith

\* A block of the context that shows a hit: its own text or that of its section.
Block(S) == {b \in [chunk : S, text : S \cup {SectionOf(c) : c \in S}, cost : Nat] :
                b.text \in {b.chunk, SectionOf(b.chunk)}}

\* What a context is at every turn of the loop.
Context(S) == {bs \in Seq(Block(S)) :
    /\ \A i, j \in DOMAIN bs : SectionOf(bs[i].chunk) = SectionOf(bs[j].chunk) => i = j
    /\ Used(bs) \in Nat
    /\ Len(bs) > 1 => Used(bs) <= MaxContext}

\* The loop starts with no context.
LEMMA NoContext ==
    ASSUME NEW S PROVE <<>> \in Context(S)
<1>1. DOMAIN <<>> = {} /\ Len(<<>>) = 0 /\ <<>> \in Seq(Block(S))
    OBVIOUS
<1>2. Used(<<>>) = 0
  <2>1. PICK none : none = <<>> /\ DOMAIN none = 1 .. 0
      OBVIOUS
  <2>2. PICK r : Costs!IsRun({}, 0, none, 0, r) /\ Costs!Fold({}, 0, none) = r[0]
      BY <2>1, Costs!FoldRuns
  <2> QED  BY <2>1, <2>2, UsedFolds DEF Costs!IsRun
<1> QED  BY <1>1, <1>2 DEF Context

\* A block of a section that is not shown yet, and that fits or is the first, keeps the context.
LEMMA MoreContext ==
    ASSUME NEW S, NEW bs \in Context(S), NEW b \in Block(S),
           \A i \in DOMAIN bs : SectionOf(bs[i].chunk) # SectionOf(b.chunk),
           bs = <<>> \/ Used(bs) + b.cost <= MaxContext
    PROVE  Append(bs, b) \in Context(S)
<1>1. PICK more : more = Append(bs, b)
    OBVIOUS
<1>2. PICK n \in Nat : n = Len(bs)
    BY DEF Context
<1>3. bs \in Seq(Block(S)) /\ Used(bs) \in Nat /\ b.cost \in Nat
    BY DEF Context, Block
<1>4. DOMAIN bs = 1 .. n
    BY <1>2, <1>3
<1>5. /\ more \in Seq(Block(S)) /\ Len(more) = n + 1
      /\ more[n + 1] = b /\ \A i \in 1 .. n : more[i] = bs[i]
    BY <1>1, <1>2, <1>3
<1>6. DOMAIN more = 1 .. n + 1
  <2>1. DOMAIN more = 1 .. Len(more)
      BY <1>5
  <2> QED  BY <1>5, <2>1
<1>7. Used(more) = Used(bs) + b.cost
    BY <1>1, <1>3, UsedRises
<1>8. Used(more) \in Nat /\ (Len(more) > 1 => Used(more) <= MaxContext)
  <2>1. bs = <<>> => n = 0
      BY <1>2
  <2> QED  BY <1>3, <1>5, <1>7, <2>1
<1>9. ASSUME NEW i \in DOMAIN more, NEW j \in DOMAIN more, SectionOf(more[i].chunk) = SectionOf(more[j].chunk)
      PROVE  i = j
  <2>0. \A k \in 1 .. n + 1 : k \in 1 .. n \/ k = n + 1
      OBVIOUS
  <2>1. CASE i \in 1 .. n /\ j \in 1 .. n
      BY <1>4, <1>5, <1>9, <2>1 DEF Context
  <2>2. CASE i \in 1 .. n /\ j = n + 1
      BY <1>4, <1>5, <1>9, <2>2
  <2>3. CASE i = n + 1 /\ j \in 1 .. n
      BY <1>4, <1>5, <1>9, <2>3
  <2> QED  BY <1>6, <2>0, <2>1, <2>2, <2>3
<1> QED  BY <1>1, <1>5, <1>8, <1>9 DEF Context

Showing == INSTANCE FoldLaws WITH Op <- WithBlock

\* The blocks are chosen hit by hit.
LEMMA BlocksFold ==
    ASSUME NEW offer
    PROVE  Blocks(offer) = Showing!Fold(offer, <<>>, [i \in DOMAIN offer.hits |-> i])
BY Zenon DEF Blocks, Showing!Fold, FoldLeft, MapThenFoldSet, Max, Showing!Greatest

\* The block that shows a text for a hit.
Shown(hit, shown) == [chunk |-> hit, text |-> shown.text, cost |-> shown.cost]

\* One turn of the loop keeps the context, whether it takes the section, the passage or nothing.
LEMMA WithBlockStays ==
    ASSUME NEW S, NEW offer, NEW n, NEW i \in 1 .. n, NEW bs \in Context(S),
           Shown(offer.hits[i], offer.preferred[i]) \in Block(S),
           Shown(offer.hits[i], offer.passage[i]) \in Block(S)
    PROVE  WithBlock(offer, bs, i) \in Context(S)
<1> DEFINE hit == offer.hits[i]  p == offer.preferred[i]  q == offer.passage[i]
<1>1. PICK b : b = Shown(hit, p)
    OBVIOUS
<1>2. PICK c : c = Shown(hit, q)
    OBVIOUS
<1>3. b \in Block(S) /\ b.chunk = hit /\ b.cost = p.cost /\ c \in Block(S) /\ c.chunk = hit /\ c.cost = q.cost
    BY <1>1, <1>2 DEF Shown
<1>4. CASE \E j \in DOMAIN bs : SectionOf(bs[j].chunk) = SectionOf(hit)
    BY <1>4 DEF WithBlock
<1>5. CASE (\A j \in DOMAIN bs : SectionOf(bs[j].chunk) # SectionOf(hit)) /\ (bs = <<>> \/ Fits(Used(bs), p.cost))
  <2>1. WithBlock(offer, bs, i) = Append(bs, b)
      BY <1>1, <1>5 DEF WithBlock, Shown
  <2> QED  BY <1>3, <1>5, <2>1, MoreContext DEF Fits
<1>6. CASE /\ \A j \in DOMAIN bs : SectionOf(bs[j].chunk) # SectionOf(hit)
           /\ ~(bs = <<>> \/ Fits(Used(bs), p.cost)) /\ Fits(Used(bs), q.cost)
  <2>1. WithBlock(offer, bs, i) = Append(bs, c)
      BY <1>2, <1>6 DEF WithBlock, Shown
  <2> QED  BY <1>3, <1>6, <2>1, MoreContext DEF Fits
<1>7. CASE /\ \A j \in DOMAIN bs : SectionOf(bs[j].chunk) # SectionOf(hit)
           /\ ~(bs = <<>> \/ Fits(Used(bs), p.cost)) /\ ~Fits(Used(bs), q.cost)
    BY <1>7 DEF WithBlock
<1> QED  BY <1>4, <1>5, <1>6, <1>7

\* So does the loop.
LEMMA BlocksStay ==
    ASSUME NEW S, NEW offer, NEW n \in Nat, DOMAIN offer.hits = 1 .. n,
           \A i \in 1 .. n : /\ Shown(offer.hits[i], offer.preferred[i]) \in Block(S)
                             /\ Shown(offer.hits[i], offer.passage[i]) \in Block(S)
    PROVE  Blocks(offer) \in Context(S)
<1>1. PICK turns : turns = [i \in DOMAIN offer.hits |-> i]
    OBVIOUS
<1>2. DOMAIN turns = 1 .. n /\ \A i \in 1 .. n : turns[i] \in 1 .. n
    BY <1>1
<1>3. \A bs \in Context(S), i \in 1 .. n : WithBlock(offer, bs, i) \in Context(S)
    BY WithBlockStays
<1>4. <<>> \in Context(S)
    BY NoContext
<1>5. Showing!Fold(offer, <<>>, turns) \in Context(S)
  <2>1. PICK A, P, none : A = Context(S) /\ P = 1 .. n /\ none = <<>>
      OBVIOUS
  <2>2. none \in A /\ \A bs \in A, i \in P : WithBlock(offer, bs, i) \in A
      BY <1>3, <1>4, <2>1
  <2>3. \A i \in 1 .. n : turns[i] \in P
      BY <1>2, <2>1
  <2>4. Showing!Fold(offer, none, turns) \in A
      BY ONLY n \in Nat, <1>2, <2>2, <2>3, Showing!FoldStaysIn
  <2> QED  BY <2>1, <2>4
<1> QED  BY <1>1, <1>5, BlocksFold

-----------------------------------------------------------------------------
(* The texts and what is found in them *)

SectionText == [cost : Nat, passages : Seq(Nat)]

\* Texts are finite, and what is stored of a document is a version of its text.
LibraryInv ==
    /\ library \in [Docs -> Seq(Seq(SectionText)) \ {<<>>}]
    /\ docs \in [Docs -> [status : {"absent", "waiting", "ready"}, version : Nat]]
    /\ \A d \in Docs : docs[d].version <= Len(library[d])

\* The chunks there may be of some documents, of any version.
ChunksFrom(texts, D) ==
    {c \in Docs \X Nat \X Nat \X Nat :
        /\ c[1] \in D /\ c[2] \in DOMAIN texts[c[1]]
        /\ c[3] \in DOMAIN texts[c[1]][c[2]]
        /\ c[4] \in DOMAIN texts[c[1]][c[2]][c[3]].passages}

\* A search sees the chunks of the version that is stored.
LEMMA ChunksOfStay ==
    ASSUME LibraryInv, NEW d \in Docs
    PROVE  ChunksOf(d) \in Seq(ChunksFrom(library, {d}))
<1>1. CASE ~Exists(d) \/ docs[d].version = 0
    BY <1>1 DEF ChunksOf
<1>2. CASE ~(~Exists(d) \/ docs[d].version = 0)
  <2>1. PICK v \in Nat \ {0} : v = docs[d].version
      BY <1>2 DEF LibraryInv
  <2>2. v \in DOMAIN library[d] /\ library[d][v] \in Seq(SectionText)
    <3>1. library[d] \in Seq(Seq(SectionText)) /\ v <= Len(library[d])
        BY <2>1 DEF LibraryInv
    <3> QED  BY <3>1
  <2>3. PICK text : text = [id |-> d, version |-> v, sections |-> library[d][v]]
      OBVIOUS
  <2>4. PICK n \in Nat : n = Len(library[d][v]) /\ DOMAIN text.sections = 1 .. n
      BY <2>2, <2>3
  <2>5. ASSUME NEW s \in 1 .. n
        PROVE  /\ text.sections[s].passages \in Seq(Nat)
               /\ \A k \in DOMAIN text.sections[s].passages : <<text.id, text.version, s, k>> \in ChunksFrom(library, {d})
    <3>1. s \in DOMAIN library[d][v] /\ library[d][v][s] \in SectionText
      <4>1. \A q \in Seq(SectionText) : \A i \in DOMAIN q : q[i] \in SectionText
          OBVIOUS
      <4> QED  BY <2>2, <2>3, <2>4, <4>1
    <3>2. text.sections[s].passages = library[d][v][s].passages /\ library[d][v][s].passages \in Seq(Nat)
        BY <2>3, <3>1 DEF SectionText
    <3>3. ASSUME NEW k \in DOMAIN library[d][v][s].passages PROVE <<d, v, s, k>> \in ChunksFrom(library, {d})
      <4>1. k \in Nat
          BY <3>2, <3>3
      <4>2. PICK c : c = <<d, v, s, k>>
          OBVIOUS
      <4>3. c \in Docs \X Nat \X Nat \X Nat /\ c[1] = d /\ c[2] = v /\ c[3] = s /\ c[4] = k
          BY <4>1, <4>2
      <4> QED  BY <2>2, <3>1, <3>3, <4>2, <4>3 DEF ChunksFrom
    <3> QED  BY <2>3, <3>2, <3>3
  <2>6. ChunksIn(text) \in Seq(ChunksFrom(library, {d}))
      BY <2>4, <2>5, ChunksInStay
  <2>7. ChunksOf(d) = ChunksIn(text)
      BY <1>2, <2>1, <2>3 DEF ChunksOf
  <2> QED  BY <2>6, <2>7
<1> QED  BY <1>1, <1>2

\* Fewer documents have fewer chunks.
LEMMA FromWider ==
    ASSUME NEW C, NEW D, C \subseteq D PROVE ChunksFrom(library, C) \subseteq ChunksFrom(library, D)
BY DEF ChunksFrom

\* A sequence is one of any wider set.
LEMMA WiderSeq ==
    ASSUME NEW S, NEW T, S \subseteq T, NEW s \in Seq(S) PROVE s \in Seq(T)
BY SeqMonotonic

\* A ranking holds chunks of the documents it is for, each once, and no more than its limit.
LEMMA RankingsStay ==
    ASSUME LibraryInv, NEW D \in SUBSET Docs, NEW ids \in Seq(D), NEW r \in Rankings(ids)
    PROVE  r \in Seq(ChunksFrom(library, D)) /\ IsInjective(r) /\ Len(r) <= Candidates
<1>1. Searched(ids) \subseteq ChunksFrom(library, D)
  <2> SUFFICES ASSUME NEW d \in ToSet(ids) PROVE ToSet(ChunksOf(d)) \subseteq ChunksFrom(library, D)
      BY DEF Searched
  <2>1. d \in D /\ d \in Docs
      BY Elements
  <2>2. ToSet(ChunksOf(d)) \subseteq ChunksFrom(library, {d})
      BY <2>1, ChunksOfStay, Elements
  <2> QED  BY <2>1, <2>2, FromWider
<1>2. PICK m \in 0 .. Candidates : r \in [1 .. m -> Searched(ids)] /\ IsInjective(r)
    BY DEF Rankings, BoundedSeq, SeqOf
<1>3. r \in Seq(Searched(ids)) /\ Len(r) = m
    BY <1>2
<1>4. r \in Seq(ChunksFrom(library, D))
    BY <1>1, <1>3, WiderSeq
<1> QED  BY <1>2, <1>3, <1>4, AnsweringAssumption

\* The first k of a sequence are among it.
LEMMA AtMostStays ==
    ASSUME NEW T, NEW s \in Seq(T), NEW k \in Nat PROVE AtMost(s, k) \in Seq(T)
<1>1. PICK m \in Nat : m = (IF Len(s) < k THEN Len(s) ELSE k) /\ m <= Len(s)
    OBVIOUS
<1>2. \A i \in 1 .. m : s[i] \in T
    BY <1>1
<1>3. SubSeq(s, 1, m) \in Seq(T)
    BY <1>2, SubSeqProperties
<1> QED  BY <1>1, <1>3 DEF AtMost

\* A place of the spread is a place of the rows.
LEMMA PlaceInside ==
    ASSUME NEW i \in Nat, NEW length \in Nat, NEW budget \in Nat, i < budget, budget < length
    PROVE  Place(i, length, budget) \in 0 .. length - 1
<1>1. PICK p \in Nat : p = i * length
    OBVIOUS
<1>2. PICK q \in Int : q = p \div budget
    OBVIOUS
<1>3. q * budget <= p /\ 0 <= q
    BY <1>2
<1>4. p < budget * length
  <2>1. PICK e \in Nat : budget = i + 1 + e
    <3>1. budget - i - 1 \in Nat /\ budget = i + 1 + (budget - i - 1)
        OBVIOUS
    <3> QED  BY <3>1
  <2>2. budget * length = p + length + e * length
      BY <1>1, <2>1
  <2>3. e * length \in Nat
      OBVIOUS
  <2> QED  BY <2>2, <2>3
<1>5. ~(q >= length)
  <2> SUFFICES ASSUME q >= length PROVE FALSE
      OBVIOUS
  <2>1. PICK e \in Nat : q = length + e
    <3>1. q - length \in Nat /\ q = length + (q - length)
        OBVIOUS
    <3> QED  BY <3>1
  <2>2. q * budget = budget * length + e * budget
      BY <2>1
  <2>3. e * budget \in Nat
      OBVIOUS
  <2> QED  BY <1>3, <1>4, <2>2, <2>3
<1> QED  BY <1>1, <1>2, <1>3, <1>5 DEF Place

\* The spread takes only what is in the rows.
LEMMA SpreadStays ==
    ASSUME NEW T, NEW rows \in Seq(T), NEW budget \in Nat
    PROVE  Spread(rows, budget) \in Seq(T)
<1>1. PICK n \in Nat : n = Len(rows) /\ \A i \in 1 .. n : rows[i] \in T
    OBVIOUS
<1>2. CASE n <= budget
    BY <1>1, <1>2 DEF Spread
<1>3. CASE n > budget
  <2>1. ASSUME NEW i \in 1 .. budget PROVE rows[Place(i - 1, n, budget) + 1] \in T
    <3>1. i - 1 \in Nat /\ i - 1 < budget
        OBVIOUS
    <3>2. PICK p \in 0 .. n - 1 : p = Place(i - 1, n, budget)
        BY <1>3, <3>1, PlaceInside
    <3> QED  BY <1>1, <3>2
  <2>2. Spread(rows, budget) = [i \in 1 .. budget |-> rows[Place(i - 1, n, budget) + 1]]
      BY <1>1, <1>3 DEF Spread
  <2> QED  BY <2>1, <2>2
<1> QED  BY <1>2, <1>3

\* A finite set of numbers has an order, which is the one that is chosen.
LEMMA InOrderStays ==
    ASSUME NEW S \in SUBSET Nat, IsFiniteSet(S)
    PROVE  InOrder(S) \in Seq(S)
<1>1. PICK n \in Nat : n = Cardinality(S)
    BY FS_CardinalityType
<1>2. PICK B : B = {p \in S \X S : p[1] < p[2]}
    OBVIOUS
<1>3. IsOrder(S, B)
    BY <1>2 DEF IsOrder
<1>4. /\ \A i \in S : RankIn(S, B, i) \in 1 .. n
      /\ \A i, j \in S : <<i, j>> \in B <=> RankIn(S, B, i) < RankIn(S, B, j)
      /\ \A k \in 1 .. n : \E i \in S : RankIn(S, B, i) = k
  <2>1. \A i \in S : RankIn(S, B, i) \in 1 .. n
      BY <1>1, <1>3, Places
  <2>2. \A i, j \in S : <<i, j>> \in B <=> RankIn(S, B, i) < RankIn(S, B, j)
      BY <1>1, <1>3, Places
  <2>3. \A k \in 1 .. n : \E i \in S : RankIn(S, B, i) = k
      BY <1>1, <1>3, Places
  <2> QED  BY <2>1, <2>2, <2>3
<1> DEFINE f == [k \in 1 .. n |-> CHOOSE i \in S : RankIn(S, B, i) = k]
<1>5. f \in [1 .. n -> S] /\ \A k \in 1 .. n : RankIn(S, B, f[k]) = k
    BY <1>4
<1> HIDE DEF f
<1>6. \A i, j \in DOMAIN f : i < j => f[i] < f[j]
  <2> SUFFICES ASSUME NEW i \in 1 .. n, NEW j \in 1 .. n, i < j PROVE f[i] < f[j]
      BY <1>5
  <2>1. <<f[i], f[j]>> \in B
      BY <1>4, <1>5
  <2> QED  BY <1>2, <2>1
<1>7. InOrder(S) \in [1 .. n -> S]
  <2>1. \E s \in [1 .. Cardinality(S) -> S] : \A i, j \in DOMAIN s : i < j => s[i] < s[j]
      BY <1>1, <1>5, <1>6
  <2> QED  BY <1>1, <2>1 DEF InOrder
<1> QED  BY <1>7

-----------------------------------------------------------------------------
(* What a hit shows, and the context that is built of it *)

\* A section is named as its chunks are.
LEMMA SectionOfChunk ==
    ASSUME NEW c \in Docs \X Nat \X Nat \X Nat
    PROVE  SectionOf(c)[1] = c[1] /\ SectionOf(c)[2] = c[2] /\ SectionOf(c)[3] = c[3]
<1>1. \A i \in 1 .. 3 : c[i] \in Nat
  <2>1. c[1] \in Nat /\ c[2] \in Nat /\ c[3] \in Nat
      BY AnsweringAssumption
  <2>2. \A i \in 1 .. 3 : i = 1 \/ i = 2 \/ i = 3
      OBVIOUS
  <2> QED  BY <2>1, <2>2
<1>2. \A i \in 1 .. 3 - 1 + 1 : SubSeq(c, 1, 3)[i] = c[1 + i - 1]
    BY <1>1, SubSeqProperties
<1>3. 1 \in 1 .. 3 /\ 2 \in 1 .. 3 /\ 3 \in 1 .. 3 /\ 3 - 1 + 1 = 3 /\ 1 + 1 - 1 = 1 /\ 1 + 2 - 1 = 2 /\ 1 + 3 - 1 = 3
    OBVIOUS
<1> QED  BY <1>2, <1>3 DEF SectionOf

\* A hit names a text of the library, whatever is stored by now.
LEMMA HitText ==
    ASSUME LibraryInv, NEW D, NEW c \in ChunksFrom(library, D)
    PROVE  Version(c) \in SectionText /\ Version(c).passages[c[4]] \in Nat
<1>1. c \in Docs \X Nat \X Nat \X Nat /\ c[2] \in DOMAIN library[c[1]] /\ c[3] \in DOMAIN library[c[1]][c[2]]
    BY DEF ChunksFrom
<1>2. library[c[1]] \in Seq(Seq(SectionText))
    BY <1>1 DEF LibraryInv
<1>3. \A R : \A q \in Seq(R) : \A i \in DOMAIN q : q[i] \in R
    OBVIOUS
<1>4. library[c[1]][c[2]] \in Seq(SectionText)
    BY <1>1, <1>2, <1>3
<1>5. library[c[1]][c[2]][c[3]] \in SectionText
    BY <1>1, <1>3, <1>4
<1>6. Version(c).passages \in Seq(Nat) /\ c[4] \in DOMAIN Version(c).passages
    BY <1>5 DEF ChunksFrom, Version, SectionText
<1> QED  BY <1>3, <1>5, <1>6 DEF Version

\* A hit shows its own passage,
LEMMA PassageShows ==
    ASSUME LibraryInv, NEW D, NEW hit \in ChunksFrom(library, D)
    PROVE  Shown(hit, Passage(hit)) \in Block(ChunksFrom(library, D))
<1>1. Version(hit).passages[hit[4]] \in Nat
    BY HitText
<1> QED  BY <1>1 DEF Shown, Passage, Block

\* or a chunk of its own section: the version is part of the name, so a section of a
\* text ingested since is never taken for it.
LEMMA ParentShows ==
    ASSUME LibraryInv, NEW D, NEW hit \in ChunksFrom(library, D)
    PROVE  Shown(hit, Parent(hit)) \in Block(ChunksFrom(library, D))
<1> DEFINE found == {s \in {SectionOf(c) : c \in ToSet(ChunksOf(hit[1]))} : IsParent(s, hit)}
           s == CHOOSE s \in found : TRUE
<1>1. CASE kind = "summary" \/ found = {}
  <2>1. Parent(hit) = Passage(hit)
      BY <1>1 DEF Parent
  <2> QED  BY <2>1, PassageShows
<1>2. CASE ~(kind = "summary" \/ found = {})
  <2>1. s \in found
      BY <1>2
  <2>2. s = SectionOf(hit)
      BY <2>1 DEF IsParent
  <2>3. Parent(hit) = [text |-> s, cost |-> Version(s).cost]
      BY <1>2 DEF Parent
  <2> HIDE DEF s
  <2>4. hit \in Docs \X Nat \X Nat \X Nat
      BY DEF ChunksFrom
  <2>5. s[1] = hit[1] /\ s[2] = hit[2] /\ s[3] = hit[3]
      BY <2>2, <2>4, SectionOfChunk
  <2>6. Version(s) = Version(hit)
      BY <2>5 DEF Version
  <2>7. Version(s).cost \in Nat
      BY <2>6, HitText DEF SectionText
  <2> QED  BY <2>2, <2>3, <2>7 DEF Shown, Block
<1> QED  BY <1>1, <1>2

\* The context made of hits in some documents is one of their chunks.
LEMMA ContextStays ==
    ASSUME LibraryInv, NEW D, NEW found \in Seq(ChunksFrom(library, D))
    PROVE  Blocks([hits |-> found,
                   preferred |-> [i \in DOMAIN found |-> Parent(found[i])],
                   passage |-> [i \in DOMAIN found |-> Passage(found[i])]]) \in Context(ChunksFrom(library, D))
<1>1. PICK n \in Nat : n = Len(found) /\ DOMAIN found = 1 .. n
    OBVIOUS
<1>2. PICK offer : offer = [hits |-> found,
                            preferred |-> [i \in DOMAIN found |-> Parent(found[i])],
                            passage |-> [i \in DOMAIN found |-> Passage(found[i])]]
    OBVIOUS
<1>3. ASSUME NEW i \in 1 .. n
      PROVE  /\ Shown(offer.hits[i], offer.preferred[i]) \in Block(ChunksFrom(library, D))
             /\ Shown(offer.hits[i], offer.passage[i]) \in Block(ChunksFrom(library, D))
  <2>1. found[i] \in ChunksFrom(library, D)
      BY <1>1
  <2>2. offer.hits[i] = found[i] /\ offer.preferred[i] = Parent(found[i]) /\ offer.passage[i] = Passage(found[i])
      BY <1>1, <1>2
  <2> QED  BY <2>1, <2>2, ParentShows, PassageShows
<1>4. DOMAIN offer.hits = 1 .. n
    BY <1>1, <1>2
<1>5. Blocks(offer) \in Context(ChunksFrom(library, D))
    BY <1>3, <1>4, BlocksStay
<1> QED  BY <1>2, <1>5

\* A reranker's order of what is found.
LEMMA OrderStays ==
    ASSUME NEW T, NEW found \in Seq(T), NEW o \in [DOMAIN found -> ToSet(found)]
    PROVE  o \in Seq(T)
<1>1. PICK n \in Nat : n = Len(found) /\ DOMAIN found = 1 .. n
    OBVIOUS
<1>2. ToSet(found) \subseteq T
    BY Elements
<1> QED  BY <1>1, <1>2

\* The openings of a document are its chunks.
LEMMA OpeningsStay ==
    ASSUME LibraryInv, NEW d \in Docs, NEW budget \in Nat
    PROVE  Spread(Openings(d), budget) \in Seq(ChunksFrom(library, {d}))
<1>1. ChunksOf(d) \in Seq(ChunksFrom(library, {d}))
    BY ChunksOfStay
<1>2. Openings(d) \in Seq(ChunksFrom(library, {d}))
    BY <1>1, FilteredIn DEF Openings
<1> QED  BY <1>2, SpreadStays

-----------------------------------------------------------------------------
(* The invariant of a turn *)

CorpusInv == LibraryInv /\ selection \in Seq(Docs) /\ update \subseteq Seq(Docs)

\* What may be found in the documents of the scope.
Findable == ChunksFrom(library, ToSet(scope))

\* The scope is of documents that were asked about, are owned and have been ingested.
ScopeInv ==
    /\ asked \in Seq(Docs) /\ scope \in Seq(Docs)
    /\ ToSet(scope) \subseteq ToSet(asked) \ Foreign
    /\ \A d \in ToSet(scope) : docs[d].status # "waiting"

\* What is searched for is in the scope, and what is found is findable there.
SearchInv ==
    /\ todo \in Seq(Seq(ToSet(scope)))
    /\ dense \in Seq(Findable) /\ IsInjective(dense) /\ Len(dense) <= Candidates
    /\ sparse \in Seq(Findable) /\ IsInjective(sparse) /\ Len(sparse) <= Candidates
    /\ results \in Seq(Seq(Findable)) /\ hits \in Seq(Findable)

\* The context is of findable chunks, and the citations are places in it.
AnswerInv ==
    /\ blocks \in Context(Findable)
    /\ citations \in Seq(DOMAIN blocks) /\ IsInjective(citations)

\* What each step of the turn finds empty.
ControlInv ==
    /\ pc \in {"new", "selected"} =>
         scope = <<>> /\ todo = <<>> /\ dense = <<>> /\ sparse = <<>> /\ results = <<>> /\ hits = <<>>
    /\ pc \in {"searching", "ranked", "matched"} => scope # <<>> /\ todo # <<>>
    /\ pc \in {"new", "selected", "searching", "ranked", "matched", "retrieved"} => blocks = <<>>
    /\ pc # "answered" => citations = <<>>

AnsweringInv == CorpusInv /\ ScopeInv /\ SearchInv /\ AnswerInv /\ ControlInv

\* The selections a user may send are sequences of documents.
LEMMA ListsAreSeqs ==
    ASSUME NEW S \in SUBSET Docs PROVE Lists(S) \subseteq Seq(S)
<1>1. PICK n \in Nat : n = Cardinality(S)
  <2>1. IsFiniteSet(S)
      BY AnsweringAssumption, FS_Subset
  <2> QED  BY <2>1, FS_CardinalityType
<1> QED  BY <1>1 DEF Lists, BoundedSeq, SeqOf

\* The invariant holds at first.
LEMMA AnsweringInit == Init => AnsweringInv
<1> SUFFICES ASSUME Init PROVE AnsweringInv
    OBVIOUS
<1>1. CorpusInv
  <2>1. library \in [Docs -> Seq(Seq(SectionText)) \ {<<>>}]
      BY AnsweringAssumption DEF Init, SectionText
  <2>2. \A d \in Docs : 1 <= Len(library[d])
    <3> SUFFICES ASSUME NEW d \in Docs PROVE 1 <= Len(library[d])
        OBVIOUS
    <3>1. library[d] \in Seq(Seq(SectionText)) /\ library[d] # <<>>
        BY <2>1
    <3>2. \A T : \A q \in Seq(T) : q # <<>> => Len(q) \in Nat \ {0}
        BY EmptySeq
    <3>3. Len(library[d]) \in Nat \ {0}
        BY <3>1, <3>2
    <3> QED  BY <3>3
  <2>3. docs \in [Docs -> [status : {"absent", "waiting", "ready"}, version : Nat]]
      BY DEF Init
  <2>4. \A d \in Docs : docs[d].version = 0 \/ docs[d].version = 1
      BY DEF Init
  <2>5. \A d \in Docs : Len(library[d]) \in Nat
      BY <2>1
  <2>6. \A d \in Docs : docs[d].version <= Len(library[d])
      BY <2>2, <2>4, <2>5
  <2>7. Lists(Docs \ Foreign) \subseteq Seq(Docs \ Foreign)
      BY ListsAreSeqs
  <2>8. selection \in Seq(Docs)
    <3>1. selection \in Seq(Docs \ Foreign) /\ Docs \ Foreign \subseteq Docs
        BY <2>7 DEF Init
    <3> QED  BY <3>1, WiderSeq
  <2> QED  BY <2>1, <2>3, <2>6, <2>8 DEF CorpusInv, LibraryInv, Init
<1>2. ScopeInv
    BY NoElements DEF Init, ScopeInv
<1>3. SearchInv
  <2>1. \A T : <<>> \in Seq(T) /\ Len(<<>>) <= Candidates
      BY AnsweringAssumption
  <2> QED  BY <2>1, NoElements DEF Init, SearchInv
<1>4. AnswerInv
  <2>1. \A T : <<>> \in Seq(T)
      OBVIOUS
  <2> QED  BY <2>1, NoContext, NoElements DEF Init, AnswerInv
<1>5. ControlInv
    BY DEF Init, ControlInv
<1> QED  BY <1>1, <1>2, <1>3, <1>4, <1>5 DEF AnsweringInv

\* Requests beside the turn.
LEMMA IngestStays ==
    ASSUME CorpusInv, NEW d \in Docs, Ingest(d)
    PROVE  CorpusInv' /\ \A e \in Docs : docs[e].status # "waiting" => docs[e].status' # "waiting"
<1>1. library' = library /\ selection' = selection /\ update' = update
    BY DEF Ingest
<1>2. docs[d].version \in Nat /\ Len(library[d]) \in Nat /\ docs[d].version + 1 <= Len(library[d])
    BY DEF Ingest, CorpusInv, LibraryInv
<1>3. docs' = [docs EXCEPT ![d] = [status |-> "ready", version |-> docs[d].version + 1]]
    BY DEF Ingest
<1>4. docs' \in [Docs -> [status : {"absent", "waiting", "ready"}, version : Nat]]
    BY <1>2, <1>3 DEF CorpusInv, LibraryInv
<1>5. \A e \in Docs : docs'[e].version <= Len(library[e])
    BY <1>2, <1>3 DEF CorpusInv, LibraryInv
<1>6. \A e \in Docs : docs[e].status # "waiting" => docs'[e].status # "waiting"
    BY <1>3 DEF CorpusInv, LibraryInv
<1> QED  BY <1>1, <1>4, <1>5, <1>6 DEF CorpusInv, LibraryInv

\* A deletion takes the document out of the selection too.
LEMMA DeleteStays ==
    ASSUME CorpusInv, NEW d \in Docs, Delete(d)
    PROVE  CorpusInv' /\ \A e \in Docs : docs[e].status # "waiting" => docs[e].status' # "waiting"
<1>1. library' = library /\ update' = update
    BY DEF Delete
<1>2. Len(library[d]) \in Nat
    BY DEF CorpusInv, LibraryInv
<1>3. docs' = [docs EXCEPT ![d] = [status |-> "absent", version |-> 0]]
    BY DEF Delete
<1>4. docs' \in [Docs -> [status : {"absent", "waiting", "ready"}, version : Nat]]
    BY <1>3 DEF CorpusInv, LibraryInv
<1>5. \A e \in Docs : docs'[e].version <= Len(library[e])
    BY <1>2, <1>3 DEF CorpusInv, LibraryInv
<1>6. \A e \in Docs : docs[e].status # "waiting" => docs'[e].status # "waiting"
    BY <1>3 DEF CorpusInv, LibraryInv
<1>7. selection' \in Seq(Docs)
    BY FilteredIn DEF CorpusInv, Delete
<1> QED  BY <1>1, <1>4, <1>5, <1>6, <1>7 DEF CorpusInv, LibraryInv

\* Whatever other requests do between two steps of the turn, the invariant stays: the
\* chunks in hand keep their names.
LEMMA EnvironmentStays == AnsweringInv /\ Environment => AnsweringInv'
<1> SUFFICES ASSUME AnsweringInv, Environment PROVE AnsweringInv'
    OBVIOUS
<1>1. library' = library /\ UNCHANGED turn
    BY DEF Environment, Ingest, Delete, FindSelection, StoreSelection
<1>2. CorpusInv' /\ \A d \in Docs : docs[d].status # "waiting" => docs'[d].status # "waiting"
  <2>1. CASE \E d \in Docs : Ingest(d) \/ Delete(d)
      BY <2>1, IngestStays, DeleteStays DEF AnsweringInv
  <2>2. ASSUME NEW ids \in Lists(Docs), FindSelection(ids)
        PROVE  CorpusInv' /\ \A d \in Docs : docs[d].status # "waiting" => docs'[d].status # "waiting"
      BY <2>2, ListsAreSeqs DEF AnsweringInv, CorpusInv, LibraryInv, FindSelection
  <2>3. CASE StoreSelection
      BY <2>3 DEF AnsweringInv, CorpusInv, LibraryInv, StoreSelection
  <2> QED  BY <2>1, <2>2, <2>3 DEF Environment
<1>3. ScopeInv'
  <2>1. ToSet(scope) \subseteq Docs
      BY Elements DEF AnsweringInv, ScopeInv
  <2> QED  BY <1>1, <1>2, <2>1 DEF AnsweringInv, ScopeInv, turn
<1>4. SearchInv' /\ AnswerInv' /\ ControlInv'
    BY <1>1 DEF AnsweringInv, SearchInv, AnswerInv, ControlInv, Findable, turn
<1> QED  BY <1>2, <1>3, <1>4 DEF AnsweringInv

\* A step of nobody changes nothing.
LEMMA StutterStays == AnsweringInv /\ UNCHANGED vars => AnsweringInv'
BY DEF AnsweringInv, CorpusInv, LibraryInv, ScopeInv, SearchInv, AnswerInv, ControlInv, Findable,
       vars, corpus, turn

-----------------------------------------------------------------------------
(* The invariant, action by action *)

\* Reading the selection, or the documents the query names, starts the turn.
LEMMA ReadsStay ==
    ASSUME AnsweringInv, NEW ids \in Seq(Docs), pc = "new", asked' = ids, pc' # "answered",
           pc' \notin {"searching", "ranked", "matched"},
           UNCHANGED <<corpus, question, scope, kind, todo, dense, sparse, results, hits, blocks, citations>>
    PROVE  AnsweringInv'
<1>1. scope = <<>> /\ ToSet(scope) = {}
    BY NoElements DEF AnsweringInv, ControlInv
<1>2. CorpusInv' /\ SearchInv' /\ AnswerInv' /\ ControlInv'
    BY DEF AnsweringInv, CorpusInv, LibraryInv, SearchInv, AnswerInv, ControlInv, Findable, corpus
<1>3. ScopeInv'
    BY <1>1 DEF AnsweringInv, ScopeInv, corpus
<1> QED  BY <1>2, <1>3 DEF AnsweringInv

\* Steps that end the turn, or move it where nothing is asked of it.
LEMMA EndStays ==
    ASSUME AnsweringInv, pc # "answered", pc' \in {"none selected", "no documents", "not ready", "abstained"},
           UNCHANGED <<corpus, question, asked, scope, kind, todo, dense, sparse, results, hits, blocks, citations>>
    PROVE  AnsweringInv'
BY DEF AnsweringInv, CorpusInv, LibraryInv, ScopeInv, SearchInv, AnswerInv, ControlInv, Findable, corpus

\* The scope is what is ready and owned among what was asked.
LEMMA FindReadyStays == AnsweringInv /\ FindReady => AnsweringInv'
<1> SUFFICES ASSUME AnsweringInv, FindReady PROVE AnsweringInv'
    OBVIOUS
<1>1. PICK ids : ids = Ready(asked) /\ ids # <<>> /\ scope' = ids
    BY DEF FindReady
<1>2. /\ ids \in Seq(Docs)
      /\ ToSet(ids) = ToSet(asked) \cap {d \in Docs : Owned(d) /\ docs[d].status = "ready"}
    BY <1>1, FilteredIn DEF Ready, AnsweringInv, ScopeInv
<1>3. pc = "selected" /\ pc' = "searching" /\ UNCHANGED <<corpus, asked, dense, sparse, results, hits, blocks, citations>>
    BY DEF FindReady, Turn
<1>4. scope = <<>> /\ todo = <<>> /\ dense = <<>> /\ sparse = <<>> /\ results = <<>> /\ hits = <<>> /\ blocks = <<>> /\ citations = <<>>
    BY <1>3 DEF AnsweringInv, ControlInv
<1>5. CorpusInv'
    BY <1>3 DEF AnsweringInv, CorpusInv, LibraryInv, corpus
<1>6. ScopeInv'
    BY <1>1, <1>2, <1>3 DEF AnsweringInv, ScopeInv, Owned, corpus
<1>7. todo' \in Seq(Seq(ToSet(ids))) /\ todo' # <<>>
  <2>1. PICK n \in Nat \ {0} : n = Len(ids) /\ DOMAIN ids = 1 .. n
      BY <1>1, <1>2
  <2>2. \A i \in 1 .. n : ids[i] \in ToSet(ids)
      BY <2>1 DEF ToSet
  <2>3. ids \in Seq(ToSet(ids))
      BY <1>2, <2>1, <2>2
  <2>4. <<ids>> \in Seq(Seq(ToSet(ids))) /\ <<ids>> # <<>>
      BY <2>3
  <2>5. [i \in DOMAIN ids |-> <<ids[i]>>] \in Seq(Seq(ToSet(ids)))
    <3>1. \A i \in 1 .. n : <<ids[i]>> \in Seq(ToSet(ids))
        BY <2>2
    <3> QED  BY <2>1, <3>1
  <2>6. [i \in DOMAIN ids |-> <<ids[i]>>] # <<>>
    <3>1. 1 \in DOMAIN [i \in DOMAIN ids |-> <<ids[i]>>] /\ DOMAIN <<>> = {}
        BY <2>1
    <3> QED  BY <3>1
  <2>7. todo' = [i \in DOMAIN ids |-> <<ids[i]>>] \/ todo' = <<ids>>
      BY <1>1 DEF FindReady
  <2> QED  BY <2>4, <2>5, <2>6, <2>7
<1>8. SearchInv'
  <2>1. \A T : <<>> \in Seq(T) /\ Len(<<>>) <= Candidates
      BY AnsweringAssumption
  <2> QED  BY <1>1, <1>3, <1>4, <1>7, <2>1, NoElements DEF SearchInv
<1>9. AnswerInv'
  <2>1. DOMAIN blocks' = DOMAIN blocks /\ citations' = citations /\ blocks' = <<>>
      BY <1>3, <1>4
  <2> QED  BY <2>1, NoContext DEF AnswerInv, AnsweringInv
<1>10. ControlInv'
    BY <1>1, <1>3, <1>4, <1>7 DEF ControlInv
<1> QED  BY <1>5, <1>6, <1>8, <1>9, <1>10 DEF AnsweringInv

\* What a search finds is in the documents it is for.
LEMMA RankedInScope ==
    ASSUME AnsweringInv, todo # <<>>, NEW r \in Rankings(Head(todo))
    PROVE  r \in Seq(Findable) /\ IsInjective(r) /\ Len(r) <= Candidates
<1>1. Head(todo) \in Seq(ToSet(scope))
    BY HeadTailProperties DEF AnsweringInv, SearchInv
<1>2. ToSet(scope) \in SUBSET Docs
    BY Elements DEF AnsweringInv, ScopeInv
<1>3. LibraryInv
    BY DEF AnsweringInv, CorpusInv
<1> QED  BY <1>1, <1>2, <1>3, RankingsStay DEF Findable

\* Each ranking is of the documents at the head of what is to be searched.
LEMMA RankStays == AnsweringInv /\ (RankByVectors \/ RankByWords) => AnsweringInv'
<1> SUFFICES ASSUME AnsweringInv, RankByVectors \/ RankByWords PROVE AnsweringInv'
    OBVIOUS
<1>1. /\ UNCHANGED <<corpus, asked, scope, todo, results, hits, blocks, citations>>
      /\ pc \in {"searching", "ranked"} /\ pc' \in {"ranked", "matched"}
    BY DEF RankByVectors, RankByWords, Turn
<1>2. todo # <<>>
    BY <1>1 DEF AnsweringInv, ControlInv
<1>3. dense' \in Seq(Findable) /\ IsInjective(dense') /\ Len(dense') <= Candidates
  <2>1. dense' = dense \/ dense' \in Rankings(Head(todo))
      BY DEF RankByVectors, RankByWords
  <2> QED  BY <1>2, <2>1, RankedInScope DEF AnsweringInv, SearchInv
<1>4. sparse' \in Seq(Findable) /\ IsInjective(sparse') /\ Len(sparse') <= Candidates
  <2>1. sparse' = sparse \/ sparse' \in Rankings(Head(todo))
      BY DEF RankByVectors, RankByWords
  <2> QED  BY <1>2, <2>1, RankedInScope DEF AnsweringInv, SearchInv
<1>5. Findable' = Findable
    BY <1>1 DEF Findable, corpus
<1>6. SearchInv'
    BY <1>1, <1>3, <1>4, <1>5 DEF AnsweringInv, SearchInv
<1>7. CorpusInv' /\ ScopeInv' /\ AnswerInv' /\ ControlInv'
    BY <1>1, <1>2, <1>5 DEF AnsweringInv, CorpusInv, LibraryInv, ScopeInv, AnswerInv, ControlInv, corpus
<1> QED  BY <1>6, <1>7 DEF AnsweringInv

\* A search is finished: fused, reranked or cut, and put with the others.
LEMMA DetailStays == AnsweringInv /\ Detail => AnsweringInv'
<1> SUFFICES ASSUME AnsweringInv, Detail PROVE AnsweringInv'
    OBVIOUS
<1>1. /\ UNCHANGED <<corpus, asked, scope, kind, blocks, citations>>
      /\ pc = "matched" /\ pc' = IF Len(todo) = 1 THEN "retrieved" ELSE "searching"
      /\ todo' = Tail(todo) /\ dense' = <<>> /\ sparse' = <<>>
    BY DEF Detail, Turn
<1>2. todo # <<>> /\ scope # <<>> /\ blocks = <<>> /\ citations = <<>>
    BY <1>1 DEF AnsweringInv, ControlInv
<1>3. Wanted \in Nat
  <2>1. PICK n \in Nat \ {0} : n = Len(scope)
      BY <1>2 DEF AnsweringInv, ScopeInv
  <2>2. PerDocument(Len(scope)) \in Nat
      BY <2>1, Shares
  <2> QED  BY <2>2, RetrievalAssumption DEF Wanted
<1>4. Pool \in Seq(Findable)
  <2>1. Fused(dense, sparse) \in Seq(Findable)
      BY FusedIsSorted DEF AnsweringInv, SearchInv
  <2>2. (IF Reranking THEN RerankCandidates ELSE Wanted) \in Nat
      BY <1>3, AnsweringAssumption
  <2> QED  BY <2>1, <2>2, AtMostStays DEF Pool
<1>5. PICK found : found = Filtered(Pool, Stored)
    OBVIOUS
<1>6. found \in Seq(Findable)
    BY <1>4, <1>5, FilteredIn
<1>7. PICK o : /\ o = found \/ o \in [DOMAIN found -> ToSet(found)]
               /\ results' = Append(results, AtMost(o, Wanted))
  <2> DEFINE orders == IF Reranking THEN {s \in [DOMAIN found -> ToSet(found)] : IsInjective(s)} ELSE {found}
  <2>1. \E o \in orders : results' = Append(results, AtMost(o, Wanted))
      BY <1>5 DEF Detail
  <2> QED  BY <2>1
<1>8. o \in Seq(Findable)
    BY <1>6, <1>7, OrderStays
<1>9. results' \in Seq(Seq(Findable)) /\ results' # <<>>
  <2>1. AtMost(o, Wanted) \in Seq(Findable)
      BY <1>3, <1>8, AtMostStays
  <2>2. \A T : \A q \in Seq(T), x \in T : Append(q, x) \in Seq(T) /\ Append(q, x) # <<>>
    <3> SUFFICES ASSUME NEW T, NEW q \in Seq(T), NEW x \in T PROVE Append(q, x) \in Seq(T) /\ Append(q, x) # <<>>
        OBVIOUS
    <3>1. PICK n \in Nat : n = Len(q)
        OBVIOUS
    <3>2. Append(q, x) \in Seq(T) /\ Len(Append(q, x)) = n + 1 /\ Len(<<>>) = 0
        BY <3>1
    <3> QED  BY <3>2
  <2>3. results \in Seq(Seq(Findable))
      BY DEF AnsweringInv, SearchInv
  <2> QED  BY <1>7, <2>1, <2>2, <2>3
<1>10. hits' \in Seq(Findable)
  <2>1. Interleaved(results') \in Seq(Findable)
      BY <1>9, InterleavedStays
  <2>2. Last(results') \in Seq(Findable)
      BY <1>9 DEF Last
  <2>3. hits' = Interleaved(results') \/ hits' = Last(results')
      BY DEF Detail
  <2> QED  BY <2>1, <2>2, <2>3
<1>11. todo' \in Seq(Seq(ToSet(scope))) /\ (Len(todo) # 1 => todo' # <<>>)
  <2>1. todo \in Seq(Seq(ToSet(scope)))
      BY DEF AnsweringInv, SearchInv
  <2>2. PICK n \in Nat \ {0} : n = Len(todo)
      BY <1>2, <2>1
  <2>3. Tail(todo) \in Seq(Seq(ToSet(scope))) /\ Len(Tail(todo)) = n - 1
      BY <1>2, <2>1, <2>2, HeadTailProperties
  <2>4. n # 1 => Len(Tail(todo)) # 0
      BY <2>2, <2>3
  <2> QED  BY <1>1, <2>2, <2>3, <2>4
<1>12. Findable' = Findable
    BY <1>1 DEF Findable, corpus
<1>13. SearchInv'
  <2>1. \A T : <<>> \in Seq(T) /\ Len(<<>>) <= Candidates
      BY AnsweringAssumption
  <2> QED  BY <1>1, <1>9, <1>10, <1>11, <1>12, <2>1, NoElements DEF SearchInv
<1>14. CorpusInv' /\ ScopeInv' /\ AnswerInv'
    BY <1>1, <1>12 DEF AnsweringInv, CorpusInv, LibraryInv, ScopeInv, AnswerInv, corpus
<1>15. ControlInv'
    BY <1>1, <1>2, <1>11 DEF ControlInv
<1> QED  BY <1>13, <1>14, <1>15 DEF AnsweringInv

\* An overview takes the openings of the scope.
LEMMA OverviewStays == AnsweringInv /\ Overview => AnsweringInv'
<1> SUFFICES ASSUME AnsweringInv, Overview PROVE AnsweringInv'
    OBVIOUS
<1>1. /\ UNCHANGED <<corpus, asked, scope, dense, sparse, results, blocks, citations>>
      /\ pc = "searching" /\ pc' = "retrieved" /\ todo' = <<>>
    BY DEF Overview, Turn
<1>2. scope # <<>> /\ blocks = <<>> /\ citations = <<>>
    BY <1>1 DEF AnsweringInv, ControlInv
<1>3. PICK budget \in Nat : budget = Budget(Len(scope))
  <2>1. PICK n \in Nat \ {0} : n = Len(scope)
      BY <1>2 DEF AnsweringInv, ScopeInv
  <2> QED  BY <2>1, Shares
<1>4. PICK opening : opening = [d \in Docs |-> Spread(Openings(d), Budget(Len(scope)))]
    OBVIOUS
<1>5. ToSet(scope) \subseteq Docs /\ ToSet(scope) \in SUBSET Nat /\ IsFiniteSet(ToSet(scope))
  <2>1. ToSet(scope) \subseteq Docs
      BY Elements DEF AnsweringInv, ScopeInv
  <2> QED  BY <2>1, AnsweringAssumption, FS_Subset
<1>6. \A d \in ToSet(scope) : opening[d] \in Seq(Findable)
  <2> SUFFICES ASSUME NEW d \in ToSet(scope) PROVE opening[d] \in Seq(Findable)
      OBVIOUS
  <2>1. d \in Docs /\ LibraryInv
      BY <1>5 DEF AnsweringInv, CorpusInv
  <2>2. Spread(Openings(d), budget) \in Seq(ChunksFrom(library, {d}))
      BY <2>1, OpeningsStay
  <2>3. ChunksFrom(library, {d}) \subseteq Findable
      BY FromWider DEF Findable
  <2>4. Spread(Openings(d), budget) \in Seq(Findable)
      BY <2>2, <2>3, WiderSeq
  <2> QED  BY <1>3, <1>4, <2>1, <2>4
<1>7. InOrder(ToSet(scope)) \in Seq(ToSet(scope))
    BY <1>5, InOrderStays
<1>8. hits' \in Seq(Findable)
  <2>1. Opened(opening, InOrder(ToSet(scope))) \in Seq(Findable)
      BY <1>6, <1>7, OpenedStay
  <2> QED  BY <1>4, <2>1 DEF Overview
<1>9. Findable' = Findable
    BY <1>1 DEF Findable, corpus
<1>10. SearchInv'
  <2>1. \A T : <<>> \in Seq(T)
      OBVIOUS
  <2> QED  BY <1>1, <1>8, <1>9, <2>1 DEF AnsweringInv, SearchInv
<1>11. CorpusInv' /\ ScopeInv' /\ AnswerInv' /\ ControlInv'
    BY <1>1, <1>2, <1>9 DEF AnsweringInv, CorpusInv, LibraryInv, ScopeInv, AnswerInv, ControlInv, corpus
<1> QED  BY <1>10, <1>11 DEF AnsweringInv

\* The hits become the context.
LEMMA ExpandStays == AnsweringInv /\ Expand => AnsweringInv'
<1> SUFFICES ASSUME AnsweringInv, Expand PROVE AnsweringInv'
    OBVIOUS
<1>1. /\ UNCHANGED <<corpus, asked, scope, todo, dense, sparse, results, hits, citations>>
      /\ pc = "retrieved" /\ pc' = "context"
    BY DEF Expand, Turn
<1>2. blocks' \in Context(Findable)
  <2>1. LibraryInv /\ hits \in Seq(ChunksFrom(library, ToSet(scope)))
      BY DEF AnsweringInv, CorpusInv, SearchInv, Findable
  <2> QED  BY <2>1, ContextStays DEF Expand, Findable
<1>3. citations = <<>>
    BY <1>1 DEF AnsweringInv, ControlInv
<1>4. Findable' = Findable
    BY <1>1 DEF Findable, corpus
<1>5. AnswerInv'
  <2>1. citations' = <<>> /\ \A T : <<>> \in Seq(T)
      BY <1>1, <1>3
  <2> QED  BY <1>2, <1>4, <2>1, NoElements DEF AnswerInv
<1>6. CorpusInv' /\ ScopeInv' /\ SearchInv' /\ ControlInv'
    BY <1>1, <1>3, <1>4 DEF AnsweringInv, CorpusInv, LibraryInv, ScopeInv, SearchInv, ControlInv, corpus
<1> QED  BY <1>5, <1>6 DEF AnsweringInv

\* The answer cites blocks of the context.
LEMMA AnswerStays ==
    ASSUME AnsweringInv, NEW mentioned \in Mentions, Answer(mentioned) PROVE AnsweringInv'
<1>1. /\ UNCHANGED <<corpus, asked, scope, todo, dense, sparse, results, hits, blocks>>
      /\ pc = "context" /\ pc' = "answered"
    BY DEF Answer, Turn
<1>2. mentioned \in Seq(Nat)
  <2>1. PICK n \in Nat : n = Len(blocks)
      BY DEF AnsweringInv, AnswerInv, Context
  <2>2. PICK m \in 0 .. 2 : mentioned \in [1 .. m -> 1 .. n + 1]
      BY <2>1 DEF Mentions, BoundedSeq, SeqOf
  <2> QED  BY <2>2
<1>3. citations' \in Seq(DOMAIN blocks) /\ IsInjective(citations')
    BY <1>2, CitedOnce DEF Answer
<1>4. Findable' = Findable
    BY <1>1 DEF Findable, corpus
<1>5. CorpusInv' /\ ScopeInv' /\ SearchInv' /\ AnswerInv' /\ ControlInv'
    BY <1>1, <1>3, <1>4 DEF AnsweringInv, CorpusInv, LibraryInv, ScopeInv, SearchInv, AnswerInv, ControlInv, corpus
<1> QED  BY <1>5 DEF AnsweringInv

\* Every step keeps the invariant.
LEMMA AnsweringStep == AnsweringInv /\ [Next]_vars => AnsweringInv'
<1> SUFFICES ASSUME AnsweringInv, [Next]_vars PROVE AnsweringInv'
    OBVIOUS
<1>1. CASE Environment
    BY <1>1, EnvironmentStays
<1>2. CASE ReadSelection
    BY <1>2, ReadsStay DEF ReadSelection, Turn, AnsweringInv, CorpusInv
<1>3. ASSUME NEW ids \in Lists(Docs), ResolveQuery(ids) PROVE AnsweringInv'
  <2>1. ids \in Seq(Docs)
      BY ListsAreSeqs
  <2> QED  BY <1>3, <2>1, ReadsStay DEF ResolveQuery, Turn
<1>4. CASE NothingSelected \/ NothingReady \/ Abstain
    BY <1>4, EndStays DEF NothingSelected, NothingReady, Abstain, Turn
<1>5. CASE FindReady
    BY <1>5, FindReadyStays
<1>6. CASE RankByVectors \/ RankByWords
    BY <1>6, RankStays
<1>7. CASE Detail
    BY <1>7, DetailStays
<1>8. CASE Overview
    BY <1>8, OverviewStays
<1>9. CASE Expand
    BY <1>9, ExpandStays
<1>10. ASSUME NEW s \in Mentions, Answer(s) PROVE AnsweringInv'
    BY <1>10, AnswerStays
<1>11. CASE UNCHANGED vars
    BY <1>11, StutterStays
<1> QED  BY <1>1, <1>2, <1>3, <1>4, <1>5, <1>6, <1>7, <1>8, <1>9, <1>10, <1>11 DEF Next

\* Type correctness and more, for every corpus: the lists of a turn hold chunks of the
\* documents in its scope, however the corpus changes under it (retriever.py, chat.py).
THEOREM AnsweringTypes == Spec => []AnsweringInv
<1> QED  BY AnsweringInit, AnsweringStep, PTL DEF Spec

-----------------------------------------------------------------------------
(* What the invariant says of the answer *)

\* The invariant gives the scope of the answer.
LEMMA ScopeFollows == AnsweringInv => AnswerStaysInScope
<1> SUFFICES ASSUME AnsweringInv PROVE AnswerStaysInScope
    BY SMTT(30)
<1>1. \A b \in Block(Findable) : b.chunk[1] \in ToSet(asked) \ Foreign
    BY DEF Block, Findable, ChunksFrom, AnsweringInv, ScopeInv
<1>2. blocks \in Seq(Block(Findable))
    BY DEF AnsweringInv, AnswerInv, Context
<1>3. \A i \in DOMAIN blocks : blocks[i] \in Block(Findable)
    BY <1>2
<1>4. ToSet(citations) \subseteq DOMAIN blocks
    BY Elements DEF AnsweringInv, AnswerInv
<1> QED  BY <1>1, <1>3, <1>4 DEF AnswerStaysInScope, AnsweringInv, ScopeInv, AnswerInv, Context

\* What the answer was made of and what it cites is of documents that the user owns and
\* the chat was asked about: the filter of the searches, on ids read before them, is
\* never widened by the parents, the rerank or the citations (retriever.py, citations.py).
THEOREM AnswersStayInScope == Spec => []AnswerStaysInScope
<1> QED  BY AnsweringTypes, ScopeFollows, PTL

\* The invariant gives the text of a citation.
LEMMA SnippetFollows == AnsweringInv => SnippetIsInItsBlock
<1> SUFFICES ASSUME AnsweringInv PROVE SnippetIsInItsBlock
    OBVIOUS
<1>1. blocks \in Seq(Block(Findable))
    BY DEF AnsweringInv, AnswerInv, Context
<1>2. \A i \in DOMAIN blocks : blocks[i] \in Block(Findable)
    BY <1>1
<1> QED  BY <1>2 DEF SnippetIsInItsBlock, Block

\* What a citation quotes is the text of the block the model read under that number, or
\* a passage of it, even when the document was ingested again in between.
THEOREM SnippetsAreInTheirBlocks == Spec => []SnippetIsInItsBlock
<1> QED  BY AnsweringTypes, SnippetFollows, PTL

\* The texts the model reads fit max_context_tokens, unless there is only one of them,
\* and no section is there twice (build_context in retriever.py).
THEOREM ContextsFit == Spec => []ContextFits
<1>1. AnsweringInv => ContextFits
    BY DEF AnsweringInv, AnswerInv, Context, ContextFits
<1> QED  BY <1>1, AnsweringTypes, PTL

\* The order of the scores gives what the rankings agree on.
LEMMA FusionFollows ==
    ASSUME Candidates < RrfK + 2, AnsweringInv PROVE FusionRespectsAgreement
<1> DEFINE F == Fused(dense, sparse)
<1>1. /\ dense \in Seq(Findable) /\ IsInjective(dense) /\ Len(dense) <= Candidates
      /\ sparse \in Seq(Findable) /\ IsInjective(sparse) /\ Len(sparse) <= Candidates
    BY DEF AnsweringInv, SearchInv
<1>2. PICK f : f = Fused(dense, sparse)
    OBVIOUS
<1>3. /\ f \in Seq(Findable) /\ IsInjective(f) /\ ToSet(f) = ToSet(dense) \cup ToSet(sparse)
      /\ \A i, j \in DOMAIN f : i < j => ~Exceeds(Score(dense, sparse, f[j]), Score(dense, sparse, f[i]))
    BY <1>1, <1>2, FusedIsSorted
<1>4. ASSUME NEW i \in DOMAIN f, NEW j \in DOMAIN f, i < j
      PROVE  /\ \/ PlaceOr(dense, f[i]) <= PlaceOr(dense, f[j])
                \/ PlaceOr(sparse, f[i]) <= PlaceOr(sparse, f[j])
             /\ Contains(dense, f[j]) /\ Contains(sparse, f[j]) => Contains(dense, f[i]) /\ Contains(sparse, f[i])
  <2>1. ~Exceeds(Score(dense, sparse, f[j]), Score(dense, sparse, f[i]))
      BY <1>3, <1>4
  <2>2. ~(PlaceOr(dense, f[j]) < PlaceOr(dense, f[i]) /\ PlaceOr(sparse, f[j]) < PlaceOr(sparse, f[i]))
      BY <1>1, <2>1, BetterInBoth
  <2>3. /\ PlaceOr(dense, f[i]) \in Nat /\ PlaceOr(dense, f[j]) \in Nat
        /\ PlaceOr(sparse, f[i]) \in Nat /\ PlaceOr(sparse, f[j]) \in Nat
      BY <1>1, ShareAt
  <2>4. Contains(dense, f[i]) \/ Contains(sparse, f[i])
    <3>1. f[i] \in ToSet(f)
        BY DEF ToSet
    <3>2. f[i] \in ToSet(dense) \/ f[i] \in ToSet(sparse)
        BY <1>3, <3>1
    <3> QED  BY <1>1, <3>2, Elements
  <2>5. Contains(dense, f[j]) /\ Contains(sparse, f[j]) => Contains(dense, f[i]) /\ Contains(sparse, f[i])
      BY <1>1, <2>1, <2>4, FoundByBoth
  <2> QED  BY <2>2, <2>3, <2>5
<1> QED  BY <1>2, <1>3, <1>4 DEF FusionRespectsAgreement, PlaceOr

\* The fused ranking puts no chunk behind one that both rankings put behind it, and
\* none that both found behind one that a single ranking found. The second part needs
\* rankings shorter than rrf_k + 2; retrieval_candidates is 30 and rrf_k is 60 by
\* default (config.py).
THEOREM FusionIsFair ==
    ASSUME Candidates < RrfK + 2
    PROVE  Spec => []FusionRespectsAgreement
<1>1. AnsweringInv => FusionRespectsAgreement
    BY FusionFollows
<1> QED  BY <1>1, AnsweringTypes, PTL

-----------------------------------------------------------------------------
(* How many of the first n are of one document *)

Count(g, n, d) == Cardinality({i \in 1 .. n : g[i] = d})

One(x, d) == IF x = d THEN 1 ELSE 0

\* The count grows by one where the document is the next.
LEMMA CountGrows ==
    \A g, d : \A n \in Nat :
        /\ Count(g, n, d) \in Nat /\ Count(g, 0, d) = 0
        /\ Count(g, n + 1, d) = Count(g, n, d) + One(g[n + 1], d)
<1> SUFFICES ASSUME NEW g, NEW d, NEW n \in Nat
             PROVE  /\ Count(g, n, d) \in Nat /\ Count(g, 0, d) = 0
                    /\ Count(g, n + 1, d) = Count(g, n, d) + One(g[n + 1], d)
    OBVIOUS
<1> DEFINE A == {i \in 1 .. n : g[i] = d}
           B == {i \in 1 .. n + 1 : g[i] = d}
<1>1. IsFiniteSet(A)
  <2>1. IsFiniteSet(1 .. n)
    <3>1. 1 \in Int /\ n \in Int
        OBVIOUS
    <3> QED  BY <3>1, FS_Interval
  <2> QED  BY <2>1, FS_Subset
<1>2. Cardinality(A) \in Nat
    BY <1>1, FS_CardinalityType
<1>3. Count(g, 0, d) = 0
  <2>1. {i \in 1 .. 0 : g[i] = d} = {}
      OBVIOUS
  <2> QED  BY <2>1, FS_EmptySet DEF Count
<1>4. CASE g[n + 1] = d
  <2>1. B = A \cup {n + 1} /\ n + 1 \notin A
    <3>1. \A i : i \in 1 .. n + 1 <=> i \in 1 .. n \/ i = n + 1
        OBVIOUS
    <3> QED  BY <1>4, <3>1
  <2>2. Cardinality(B) = Cardinality(A) + 1
    <3> HIDE DEF A, B
    <3> QED  BY <1>1, <2>1, FS_AddElement
  <2> QED  BY <1>2, <1>3, <1>4, <2>2 DEF Count, One
<1>5. CASE g[n + 1] # d
  <2>1. B = A
    <3>1. \A i : i \in 1 .. n + 1 <=> i \in 1 .. n \/ i = n + 1
        OBVIOUS
    <3> QED  BY <1>5, <3>1
  <2> QED  BY <1>2, <1>3, <1>5, <2>1 DEF Count, One
<1> QED  BY <1>4, <1>5

\* The count depends on the first n only.
LEMMA CountOfPrefix ==
    ASSUME NEW h, NEW s, NEW m \in Nat, \A i \in 1 .. m : h[i] = s[i], NEW d, NEW k \in 0 .. m
    PROVE  Count(h, k, d) = Count(s, k, d)
<1>1. {i \in 1 .. k : h[i] = d} = {i \in 1 .. k : s[i] = d}
    OBVIOUS
<1> QED  BY <1>1 DEF Count

\* The count goes on in the second sequence.
LEMMA CountOfJoined ==
    ASSUME NEW T, NEW s \in Seq(T), NEW t \in Seq(T)
    PROVE  \A d : \A k \in 0 .. Len(t) : Count(s \o t, Len(s) + k, d) = Count(s, Len(s), d) + Count(t, k, d)
<1> SUFFICES ASSUME NEW d
             PROVE  \A k \in 0 .. Len(t) : Count(s \o t, Len(s) + k, d) = Count(s, Len(s), d) + Count(t, k, d)
    OBVIOUS
<1>a. PICK m \in Nat : m = Len(s)
    OBVIOUS
<1>b. PICK h : h = s \o t
    OBVIOUS
<1>1. PICK n \in Nat : n = Len(t)
    OBVIOUS
<1>2. /\ \A i \in 1 .. m : h[i] = s[i]
      /\ \A i \in 1 .. n : h[m + i] = t[i]
    BY <1>1, <1>a, <1>b, Joined
<1> DEFINE I == {k \in Nat : Count(h, m + k, d) = Count(s, m, d) + Count(t, k, d)}
<1>4. 0 \in I
  <2>1. m + 0 = m /\ m \in 0 .. m /\ 0 \in Nat
      OBVIOUS
  <2>2. Count(h, m, d) = Count(s, m, d)
    <3>1. {i \in 1 .. m : h[i] = d} = {i \in 1 .. m : s[i] = d}
        BY <1>2
    <3> QED  BY <3>1 DEF Count
  <2>3. Count(t, 0, d) = 0 /\ Count(s, m, d) \in Nat
      BY <2>1, CountGrows
  <2> QED  BY <2>1, <2>2, <2>3
<1>5. ASSUME NEW k \in 0 .. n - 1, k \in I PROVE k + 1 \in I
  <2>1. k \in Nat /\ m + k \in Nat /\ k + 1 \in 1 .. n /\ m + (k + 1) = (m + k) + 1
      OBVIOUS
  <2>2. h[(m + k) + 1] = t[k + 1]
      BY <1>2, <2>1
  <2>3. Count(h, (m + k) + 1, d) = Count(h, m + k, d) + One(h[(m + k) + 1], d)
      BY <2>1, CountGrows
  <2>4. Count(t, k + 1, d) = Count(t, k, d) + One(t[k + 1], d)
      BY <2>1, CountGrows
  <2>5. Count(h, m + k, d) = Count(s, m, d) + Count(t, k, d)
      BY <1>5
  <2>b. One(t[k + 1], d) \in Nat
      BY DEF One
  <2>6. Count(s, m, d) \in Nat /\ Count(t, k, d) \in Nat
      BY <2>1, CountGrows
  <2>7. Count(h, m + (k + 1), d) = Count(s, m, d) + Count(t, k + 1, d)
      BY <2>1, <2>2, <2>3, <2>4, <2>5, <2>b, <2>6
  <2> QED  BY <2>1, <2>7
<1>6. \A k \in 0 .. n : k \in I
  <2> HIDE DEF I
  <2> QED  BY <1>4, <1>5, Turns!NatsOfSet
<1> QED  BY <1>1, <1>6, <1>a, <1>b

\* Where nothing comes twice, a document counts once or not at all.
LEMMA CountOfDistinct ==
    ASSUME NEW T, NEW q \in Seq(T), IsInjective(q), NEW d, NEW n \in 0 .. Len(q)
    PROVE  /\ Count(q, n, d) \in {0, 1}
           /\ Count(q, n, d) = 1 => d \in ToSet(q)
           /\ n = Len(q) /\ d \in ToSet(q) => Count(q, n, d) = 1
<1>1. PICK m \in Nat : m = Len(q) /\ DOMAIN q = 1 .. m /\ ToSet(q) = {q[i] : i \in 1 .. m}
    BY Elements
<1>2. 1 .. n \subseteq 1 .. m
    BY <1>1
<1>3. CASE \E i \in 1 .. n : q[i] = d
  <2>1. PICK i \in 1 .. n : q[i] = d
      BY <1>3
  <2>2. {j \in 1 .. n : q[j] = d} = {i}
      BY <1>1, <1>2, <2>1 DEF IsInjective
  <2>3. Count(q, n, d) = 1
      BY <2>2, FS_Singleton DEF Count
  <2> QED  BY <1>1, <1>2, <2>1, <2>3
<1>4. CASE ~\E i \in 1 .. n : q[i] = d
  <2>1. {j \in 1 .. n : q[j] = d} = {}
      BY <1>4
  <2>2. Count(q, n, d) = 0
      BY <2>1, FS_EmptySet DEF Count
  <2>3. n = Len(q) => d \notin ToSet(q)
      BY <1>1, <1>4
  <2> QED  BY <2>2, <2>3
<1> QED  BY <1>3, <1>4

\* The documents of chunks, in their order.
DocsOf(s) == [i \in DOMAIN s |-> s[i][1]]

\* One chunk more is one document more.
LEMMA DocsOfAppend ==
    ASSUME NEW T, NEW s \in Seq(T), NEW x \in T
    PROVE  DocsOf(Append(s, x)) = Append(DocsOf(s), x[1])
<1>1. PICK n \in Nat : n = Len(s) /\ DOMAIN s = 1 .. n
    OBVIOUS
<1>2. PICK w : w = Append(s, x)
    OBVIOUS
<1>3. w \in Seq(T) /\ Len(w) = n + 1 /\ w[n + 1] = x /\ \A i \in 1 .. n : w[i] = s[i]
    BY <1>1, <1>2
<1>4. DOMAIN w = 1 .. n + 1
  <2>1. DOMAIN w = 1 .. Len(w)
      BY <1>3
  <2> QED  BY <1>3, <2>1
<1> DEFINE H == {y[1] : y \in T}
<1>5. PICK g \in Seq(H) : g = DocsOf(s)
  <2>1. \A i \in 1 .. n : s[i][1] \in H
      BY <1>1
  <2> HIDE DEF H
  <2>2. [i \in 1 .. n |-> s[i][1]] \in Seq(H)
      BY <2>1
  <2> QED  BY <1>1, <2>2 DEF DocsOf
<1>6. Len(g) = n /\ \A i \in 1 .. n : g[i] = s[i][1]
  <2>1. g = [i \in 1 .. n |-> s[i][1]]
      BY <1>1, <1>5 DEF DocsOf
  <2> QED  BY <2>1
<1>7. x[1] \in H
    OBVIOUS
<1> HIDE DEF H
<1>8. PICK v : v = Append(g, x[1])
    OBVIOUS
<1>9. v \in Seq(H) /\ Len(v) = n + 1 /\ v[n + 1] = x[1] /\ \A i \in 1 .. n : v[i] = g[i]
    BY <1>6, <1>7, <1>8
<1>10. DocsOf(w) \in Seq(H) /\ Len(DocsOf(w)) = n + 1 /\ \A i \in 1 .. n + 1 : DocsOf(w)[i] = w[i][1]
  <2>1. \A i \in 1 .. n + 1 : i \in 1 .. n \/ i = n + 1
      OBVIOUS
  <2>2. \A i \in 1 .. n : w[i][1] = g[i] /\ g[i] \in H
      BY <1>3, <1>6
  <2>3. \A i \in 1 .. n + 1 : w[i][1] \in H
      BY <1>3, <1>7, <2>1, <2>2
  <2>4. DocsOf(w) = [i \in 1 .. n + 1 |-> w[i][1]] /\ n + 1 \in Nat
      BY <1>4 DEF DocsOf
  <2> QED  BY <2>3, <2>4
<1>11. \A i \in 1 .. n + 1 : DocsOf(w)[i] = v[i]
  <2>1. \A i \in 1 .. n + 1 : i \in 1 .. n \/ i = n + 1
      OBVIOUS
  <2> QED  BY <1>3, <1>6, <1>9, <1>10, <2>1
<1>12. DocsOf(w) = v
    BY <1>9, <1>10, <1>11, SeqEqual
<1> QED  BY <1>2, <1>5, <1>8, <1>12

\* Chunks one after the other have their documents one after the other.
LEMMA DocsOfJoined ==
    ASSUME NEW T, NEW H, \A y \in T : y[1] \in H, NEW s \in Seq(T), NEW t \in Seq(T)
    PROVE  /\ DocsOf(s) \in Seq(H) /\ DocsOf(t) \in Seq(H) /\ Len(DocsOf(s)) = Len(s) /\ Len(DocsOf(t)) = Len(t)
           /\ DocsOf(s \o t) = DocsOf(s) \o DocsOf(t)
<1>1. PICK m \in Nat : m = Len(s) /\ DOMAIN s = 1 .. m
    OBVIOUS
<1>2. PICK n \in Nat : n = Len(t) /\ DOMAIN t = 1 .. n
    OBVIOUS
<1>3. PICK w : w = s \o t
    OBVIOUS
<1>4. /\ w \in Seq(T) /\ Len(w) = m + n
      /\ \A i \in 1 .. m : w[i] = s[i]
      /\ \A i \in 1 .. n : w[m + i] = t[i]
    BY <1>1, <1>2, <1>3, Joined
<1>5. \A q \in Seq(T) : DocsOf(q) \in Seq(H) /\ Len(DocsOf(q)) = Len(q) /\ \A i \in 1 .. Len(q) : DocsOf(q)[i] = q[i][1]
  <2> SUFFICES ASSUME NEW q \in Seq(T)
               PROVE  DocsOf(q) \in Seq(H) /\ Len(DocsOf(q)) = Len(q) /\ \A i \in 1 .. Len(q) : DocsOf(q)[i] = q[i][1]
      OBVIOUS
  <2>1. PICK k \in Nat : k = Len(q) /\ DOMAIN q = 1 .. k
      OBVIOUS
  <2>2. \A i \in 1 .. k : q[i][1] \in H
      BY <2>1
  <2>3. DocsOf(q) = [i \in 1 .. k |-> q[i][1]]
      BY <2>1 DEF DocsOf
  <2> QED  BY <2>1, <2>2, <2>3
<1>6. PICK f \in Seq(H) : f = DocsOf(s) /\ Len(f) = m /\ \A i \in 1 .. m : f[i] = s[i][1]
    BY <1>1, <1>5
<1>7. PICK g \in Seq(H) : g = DocsOf(t) /\ Len(g) = n /\ \A i \in 1 .. n : g[i] = t[i][1]
    BY <1>2, <1>5
<1>8. PICK v : v = f \o g
    OBVIOUS
<1>9. /\ v \in Seq(H) /\ Len(v) = m + n
      /\ \A i \in 1 .. m : v[i] = f[i]
      /\ \A i \in 1 .. n : v[m + i] = g[i]
  <2>1. f \in Seq(H) /\ g \in Seq(H) /\ m = Len(f) /\ n = Len(g)
      BY <1>6, <1>7
  <2>2. v \in Seq(H) /\ Len(v) = m + n
      BY <1>8, <2>1, Joined
  <2>3. \A i \in 1 .. m : v[i] = f[i]
      BY <1>8, <2>1, Joined
  <2>4. \A i \in 1 .. n : v[m + i] = g[i]
      BY <1>8, <2>1, Joined
  <2> QED  BY <2>2, <2>3, <2>4
<1>10. \A i \in 1 .. m + n : i \in 1 .. m \/ (\E j \in 1 .. n : i = m + j)
  <2> SUFFICES ASSUME NEW i \in 1 .. m + n, i \notin 1 .. m PROVE \E j \in 1 .. n : i = m + j
      OBVIOUS
  <2>1. i - m \in 1 .. n /\ i = m + (i - m)
      OBVIOUS
  <2> QED  BY <2>1
<1>11. DocsOf(w) \in Seq(H) /\ Len(DocsOf(w)) = m + n /\ \A i \in 1 .. m + n : DocsOf(w)[i] = w[i][1]
    BY <1>4, <1>5
<1>12. \A i \in 1 .. m + n : DocsOf(w)[i] = v[i]
  <2>1. \A i \in 1 .. m : DocsOf(w)[i] = v[i]
    <3> SUFFICES ASSUME NEW i \in 1 .. m PROVE DocsOf(w)[i] = v[i]
        OBVIOUS
    <3>1. i \in 1 .. m + n
        OBVIOUS
    <3>2. DocsOf(w)[i] = w[i][1] /\ w[i] = s[i]
        BY <1>4, <1>11, <3>1
    <3>3. v[i] = f[i] /\ f[i] = s[i][1]
        BY <1>6, <1>9
    <3> QED  BY <3>2, <3>3
  <2>2. \A j \in 1 .. n : DocsOf(w)[m + j] = v[m + j]
    <3> SUFFICES ASSUME NEW j \in 1 .. n PROVE DocsOf(w)[m + j] = v[m + j]
        OBVIOUS
    <3>1. m + j \in 1 .. m + n
        OBVIOUS
    <3>2. DocsOf(w)[m + j] = w[m + j][1] /\ w[m + j] = t[j]
        BY <1>4, <1>11, <3>1
    <3>3. v[m + j] = g[j] /\ g[j] = t[j][1]
        BY <1>7, <1>9
    <3> QED  BY <3>2, <3>3
  <2> QED  BY <1>10, <2>1, <2>2
<1>13. DocsOf(w) = v
    BY <1>9, <1>11, <1>12, SeqEqual
<1> QED  BY <1>1, <1>2, <1>3, <1>5, <1>6, <1>7, <1>8, <1>13

-----------------------------------------------------------------------------
(* Comparison: one round of the turns *)

\* Results of searches, each in the document of its own that key names.
Apart(found, key, T, H) ==
    /\ found \in Seq(Seq(T)) /\ \A y \in T : y[1] \in H
    /\ \A i \in DOMAIN found : key[i] \in H
    /\ \A i \in DOMAIN found : \A n \in DOMAIN found[i] : found[i][n][1] = key[i]
    /\ \A i, j \in DOMAIN found : key[i] = key[j] => i = j

\* The documents among the first j that have a k-th hit.
Going(found, key, k, j) == {key[i] : i \in {h \in 1 .. j : k <= Len(found[h])}}

\* A round takes one hit of every document that still has one.
LEMMA RoundHears ==
    ASSUME NEW T, NEW H, NEW found, NEW key, Apart(found, key, T, H), NEW k \in Nat \ {0}
    PROVE  /\ Round(found, k) \in Seq(T)
           /\ IsInjective(DocsOf(Round(found, k)))
           /\ ToSet(DocsOf(Round(found, k))) = Going(found, key, k, Len(found))
<1>1. found \in Seq(Seq(T))
    BY DEF Apart
<1>2. PICK n \in Nat : n = Len(found) /\ DOMAIN found = 1 .. n
    BY <1>1
<1>3. PICK none : none = <<>>
    OBVIOUS
<1>4. PICK r : Rounds!IsRun(k, none, found, n, r) /\ Rounds!Fold(k, none, found) = r[n]
    BY <1>2, Rounds!FoldRuns
<1>5. r[0] = <<>> /\ \A j \in 1 .. n : r[j] = TakeFrom(k, r[j - 1], found[j])
    BY <1>3, <1>4 DEF Rounds!IsRun
<1>0. \A q \in Seq(H), x \in H :
          /\ Append(q, x) \in Seq(H) /\ ToSet(Append(q, x)) = ToSet(q) \cup {x}
          /\ IsInjective(q) /\ x \notin ToSet(q) => IsInjective(Append(q, x))
    BY OneMore
<1> DEFINE I == {j \in Nat : /\ r[j] \in Seq(T)
                             /\ IsInjective(DocsOf(r[j]))
                             /\ ToSet(DocsOf(r[j])) = Going(found, key, k, j)}
<1>6. 0 \in I
  <2>1. DocsOf(<<>>) = <<>>
      BY DEF DocsOf
  <2>2. Going(found, key, k, 0) = {}
    <3>1. 1 .. 0 = {}
        OBVIOUS
    <3> QED  BY <3>1 DEF Going
  <2> QED  BY <1>5, <2>1, <2>2, NoElements
<1>7. ASSUME NEW j \in 0 .. n - 1, j \in I PROVE j + 1 \in I
  <2>1. j + 1 \in 1 .. n /\ (j + 1) - 1 = j /\ j + 1 \in Nat
      OBVIOUS
  <2>2. PICK m : m = j + 1
      OBVIOUS
  <2>3. PICK q \in Seq(T) : q = r[j] /\ IsInjective(DocsOf(q)) /\ ToSet(DocsOf(q)) = Going(found, key, k, j)
      BY <1>7
  <2>4. r[m] = TakeFrom(k, q, found[m])
      BY <1>5, <2>1, <2>2, <2>3
  <2>5. \A i : i \in 1 .. m <=> i \in 1 .. j \/ i = m
      BY <2>2
  <2>6. found[m] \in Seq(T) /\ m \in DOMAIN found
      BY <1>1, <1>2, <2>1, <2>2
  <2>7. CASE k <= Len(found[m])
    <3>1. PICK x \in T : x = found[m][k] /\ x[1] = key[m] /\ key[m] \in H
      <4>1. k \in DOMAIN found[m]
          BY <2>6, <2>7
      <4> QED  BY <2>6, <4>1 DEF Apart
    <3>2. r[m] = Append(q, x) /\ Append(q, x) \in Seq(T)
        BY <2>4, <2>7, <3>1 DEF TakeFrom
    <3>3. DocsOf(Append(q, x)) = Append(DocsOf(q), key[m])
        BY <3>1, DocsOfAppend
    <3>4. Going(found, key, k, m) = Going(found, key, k, j) \cup {key[m]}
        BY <2>5, <2>7 DEF Going
    <3>5. key[m] \notin Going(found, key, k, j)
      <4>1. SUFFICES ASSUME NEW i \in 1 .. j, key[i] = key[m] PROVE FALSE
          BY DEF Going
      <4>2. i \in DOMAIN found /\ i # m
          BY <1>2, <2>1, <2>2
      <4> QED  BY <2>6, <4>1, <4>2 DEF Apart
    <3>6. PICK g \in Seq(H) : g = DocsOf(q)
      <4>1. \A y \in T : y[1] \in H
          BY DEF Apart
      <4>2. DocsOf(q) \in Seq(H)
          BY <4>1, DocsOfJoined
      <4> QED  BY <4>2
    <3>7. PICK v : v = Append(g, key[m])
        OBVIOUS
    <3>8. ToSet(v) = ToSet(g) \cup {key[m]} /\ IsInjective(v)
        BY <1>0, <2>3, <3>1, <3>5, <3>6, <3>7
    <3>9. DocsOf(r[m]) = v
        BY <3>2, <3>3, <3>6, <3>7
    <3> QED  BY <2>1, <2>2, <2>3, <3>2, <3>4, <3>6, <3>8, <3>9
  <2>8. CASE ~(k <= Len(found[m]))
    <3>1. r[m] = q
        BY <2>4, <2>8 DEF TakeFrom
    <3>2. Going(found, key, k, m) = Going(found, key, k, j)
        BY <2>5, <2>8 DEF Going
    <3> QED  BY <2>1, <2>2, <2>3, <3>1, <3>2
  <2> QED  BY <2>7, <2>8
<1>8. n \in I
  <2>1. \A j \in 0 .. n : j \in I
    <3> HIDE DEF I
    <3> QED  BY <1>6, <1>7, Rounds!NatsOfSet
  <2> QED  BY <2>1
<1>9. Round(found, k) = r[n]
    BY <1>3, <1>4, RoundFolds
<1> QED  BY <1>2, <1>8, <1>9

-----------------------------------------------------------------------------
(* Comparison: the rounds together *)

Least(a, b) == IF a <= b THEN a ELSE b

\* After n hits nobody has more than k of them, and who has more to show at least k - 1.
Even(found, key, g, n, k) ==
    \A i \in DOMAIN found :
        /\ Count(g, n, key[i]) <= k
        /\ Count(g, n, key[i]) < Len(found[i]) => k <= Count(g, n, key[i]) + 1

\* What the hits are after k rounds.
Turned(found, key, T, k) ==
    {all \in Seq(T) :
        /\ \A i \in DOMAIN found : Count(DocsOf(all), Len(all), key[i]) = Least(k, Len(found[i]))
        /\ \A n \in 0 .. Len(all) : \E c \in Nat : Even(found, key, DocsOf(all), n, c)}

\* A round more: at no point of it does a document have two hits more than another
\* that still has some.
LEMMA RoundIsEven ==
    ASSUME NEW T, NEW H, NEW found, NEW key, Apart(found, key, T, H), NEW k \in Nat,
           NEW all \in Turned(found, key, T, k)
    PROVE  WithRound(found, all, k + 1) \in Turned(found, key, T, k + 1)
<1>0. found \in Seq(Seq(T)) /\ (\A y \in T : y[1] \in H) /\ all \in Seq(T)
    BY DEF Apart, Turned
<1>1. PICK l \in Nat \ {0} : l = k + 1
    OBVIOUS
<1>2. PICK q : q = Round(found, l)
    OBVIOUS
<1>3. /\ q \in Seq(T) /\ IsInjective(DocsOf(q))
      /\ ToSet(DocsOf(q)) = Going(found, key, l, Len(found))
    BY <1>1, <1>2, RoundHears
<1>4. PICK m \in Nat, p \in Nat : m = Len(all) /\ p = Len(q)
    BY <1>0, <1>3
<1>5. PICK f \in Seq(H), g \in Seq(H) : /\ f = DocsOf(all) /\ g = DocsOf(q) /\ Len(f) = m /\ Len(g) = p
                                       /\ DocsOf(all \o q) = f \o g
  <2>1. /\ DocsOf(all) \in Seq(H) /\ DocsOf(q) \in Seq(H) /\ Len(DocsOf(all)) = Len(all) /\ Len(DocsOf(q)) = Len(q)
        /\ DocsOf(all \o q) = DocsOf(all) \o DocsOf(q)
      BY <1>0, <1>3, DocsOfJoined
  <2> QED  BY <1>4, <2>1
<1>6. PICK w \in Seq(T) : w = all \o q /\ Len(w) = m + p
    BY <1>0, <1>3, <1>4, ConcatProperties
<1>7. PICK h : h = f \o g /\ h = DocsOf(w)
    BY <1>5, <1>6
<1>b. \A d : /\ \A n \in 0 .. m : Count(h, n, d) = Count(f, n, d)
            /\ \A j \in 0 .. p : Count(h, m + j, d) = Count(f, m, d) + Count(g, j, d)
  <2>1. \A d : \A j \in 0 .. Len(g) : Count(f \o g, Len(f) + j, d) = Count(f, Len(f), d) + Count(g, j, d)
      BY CountOfJoined
  <2>2. Len(f) = m /\ Len(g) = p /\ f \o g = h
      BY <1>5, <1>7
  <2>3. \A i \in 1 .. m : h[i] = f[i]
    <3>1. \A i \in 1 .. m : i \in 1 .. m + p /\ i <= m
        OBVIOUS
    <3>2. \A i \in 1 .. m + p : h[i] = IF i <= m THEN f[i] ELSE g[i - m]
        BY <2>2, ConcatProperties
    <3> QED  BY <3>1, <3>2
  <2>4. \A d : \A n \in 0 .. m : Count(h, n, d) = Count(f, n, d)
      BY <2>3, CountOfPrefix
  <2> QED  BY <2>1, <2>2, <2>4
<1>8. ASSUME NEW i \in DOMAIN found
      PROVE  /\ Len(found[i]) \in Nat
             /\ \A n \in 0 .. m : Count(h, n, key[i]) = Count(f, n, key[i])
             /\ \A j \in 0 .. p : \E e \in {0, 1} :
                   /\ Count(h, m + j, key[i]) = Least(k, Len(found[i])) + e
                   /\ e = 1 => l <= Len(found[i])
                   /\ j = p /\ l <= Len(found[i]) => e = 1
  <2>1. \A n \in 0 .. m : Count(h, n, key[i]) = Count(f, n, key[i])
      BY <1>b
  <2>2. \A j \in 0 .. p : Count(h, m + j, key[i]) = Count(f, m, key[i]) + Count(g, j, key[i])
      BY <1>b
  <2>3. Count(f, m, key[i]) = Least(k, Len(found[i]))
      BY <1>4, <1>5 DEF Turned
  <2>4. key[i] \in ToSet(g) <=> l <= Len(found[i])
    <3>1. i \in 1 .. Len(found) /\ \A j \in 1 .. Len(found) : j \in DOMAIN found
        BY <1>0
    <3>2. key[i] \in ToSet(g) <=> \E j \in 1 .. Len(found) : l <= Len(found[j]) /\ key[i] = key[j]
        BY <1>3, <1>5 DEF Going
    <3>3. \A j \in 1 .. Len(found) : key[i] = key[j] => i = j
        BY <3>1 DEF Apart
    <3> QED  BY <3>1, <3>2, <3>3
  <2>5. ASSUME NEW j \in 0 .. p
        PROVE  /\ Count(g, j, key[i]) \in {0, 1}
               /\ Count(g, j, key[i]) = 1 => l <= Len(found[i])
               /\ j = p /\ l <= Len(found[i]) => Count(g, j, key[i]) = 1
    <3>1. IsInjective(g) /\ j \in 0 .. Len(g)
        BY <1>3, <1>5
    <3>2. /\ Count(g, j, key[i]) \in {0, 1}
          /\ Count(g, j, key[i]) = 1 => key[i] \in ToSet(g)
          /\ j = Len(g) /\ key[i] \in ToSet(g) => Count(g, j, key[i]) = 1
        BY <3>1, CountOfDistinct
    <3> QED  BY <1>5, <2>4, <3>2
  <2>6. Len(found[i]) \in Nat
      BY <1>0
  <2> QED  BY <2>1, <2>2, <2>3, <2>5, <2>6
<1>9. ASSUME NEW i \in DOMAIN found PROVE Count(h, m + p, key[i]) = Least(l, Len(found[i]))
  <2>1. PICK e \in {0, 1} : /\ Count(h, m + p, key[i]) = Least(k, Len(found[i])) + e
                            /\ e = 1 => l <= Len(found[i])
                            /\ l <= Len(found[i]) => e = 1
    <3>1. p \in 0 .. p
        OBVIOUS
    <3> QED  BY <1>8, <3>1
  <2>2. PICK b \in Nat : b = Len(found[i])
      BY <1>8
  <2> QED  BY <1>1, <2>1, <2>2 DEF Least
<1>10. ASSUME NEW n \in 0 .. m PROVE \E c \in Nat : Even(found, key, h, n, c)
  <2>1. PICK c \in Nat : Even(found, key, f, n, c)
      BY <1>4, <1>5 DEF Turned
  <2>2. \A i \in DOMAIN found : Count(h, n, key[i]) = Count(f, n, key[i])
      BY <1>8
  <2>3. Even(found, key, h, n, c)
      BY <2>1, <2>2 DEF Even
  <2> QED  BY <2>3
<1>11. ASSUME NEW j \in 0 .. p PROVE Even(found, key, h, m + j, l)
  <2> SUFFICES ASSUME NEW i \in DOMAIN found
               PROVE  /\ Count(h, m + j, key[i]) <= l
                      /\ Count(h, m + j, key[i]) < Len(found[i]) => l <= Count(h, m + j, key[i]) + 1
      BY DEF Even
  <2>1. PICK e \in {0, 1} : Count(h, m + j, key[i]) = Least(k, Len(found[i])) + e
      BY <1>8
  <2>2. PICK b \in Nat : b = Len(found[i])
      BY <1>8
  <2> QED  BY <1>1, <2>1, <2>2 DEF Least
<1>12. ASSUME NEW n \in 0 .. m + p PROVE \E c \in Nat : Even(found, key, h, n, c)
  <2>1. CASE n <= m
      BY <1>10, <2>1
  <2>2. CASE n > m
    <3>1. PICK j \in 0 .. p : n = m + j
      <4>1. n - m \in 0 .. p /\ n = m + (n - m)
          BY <2>2
      <4> QED  BY <4>1
    <3> QED  BY <1>11, <3>1
  <2> QED  BY <2>1, <2>2
<1>13. w \in Turned(found, key, T, l)
    BY <1>6, <1>7, <1>9, <1>12 DEF Turned
<1> QED  BY <1>1, <1>2, <1>6, <1>13 DEF WithRound

\* So it is at every point of the hits.
LEMMA InterleavedIsEven ==
    ASSUME NEW T, NEW H, NEW found, NEW key, Apart(found, key, T, H), found # <<>>
    PROVE  \A n \in 0 .. Len(Interleaved(found)) :
              \E c \in Nat : Even(found, key, DocsOf(Interleaved(found)), n, c)
<1>0. found \in Seq(Seq(T))
    BY DEF Apart
<1>1. PICK m \in Nat \ {0} : m = Len(found)
    BY <1>0
<1>2. PICK n \in Nat : n = PerDocument(Len(found))
    BY <1>1, Shares
<1>3. PICK turns : turns = [i \in 1 .. PerDocument(Len(found)) |-> i]
    OBVIOUS
<1>4. DOMAIN turns = 1 .. n /\ \A i \in 1 .. n : turns[i] = i
    BY <1>2, <1>3
<1>5. PICK none : none = <<>>
    OBVIOUS
<1>6. PICK r : Turns!IsRun(found, none, turns, n, r) /\ Turns!Fold(found, none, turns) = r[n]
    BY <1>4, Turns!FoldRuns
<1>7. r[0] = <<>> /\ \A k \in 1 .. n : r[k] = WithRound(found, r[k - 1], turns[k])
    BY <1>5, <1>6 DEF Turns!IsRun
<1> DEFINE I == {k \in Nat : r[k] \in Turned(found, key, T, k)}
<1>8. 0 \in I
  <2>1. <<>> \in Seq(T) /\ Len(<<>>) = 0
      OBVIOUS
  <2>2. \A i \in DOMAIN found : Len(found[i]) \in Nat
      BY <1>0
  <2>3. \A i \in DOMAIN found : Count(DocsOf(<<>>), 0, key[i]) = 0 /\ Least(0, Len(found[i])) = 0
      BY <2>2, CountGrows DEF Least
  <2>4. Even(found, key, DocsOf(<<>>), 0, 0)
      BY <2>2, <2>3 DEF Even
  <2>5. \A j \in 0 .. 0 : j = 0
      OBVIOUS
  <2>6. <<>> \in Turned(found, key, T, 0)
      BY <2>1, <2>3, <2>4, <2>5 DEF Turned
  <2> QED  BY <1>7, <2>6
<1>9. ASSUME NEW k \in 0 .. n - 1, k \in I PROVE k + 1 \in I
  <2>1. k \in Nat /\ k + 1 \in 1 .. n /\ (k + 1) - 1 = k /\ k + 1 \in Nat
      OBVIOUS
  <2>2. r[k + 1] = WithRound(found, r[k], k + 1)
      BY <1>4, <1>7, <2>1
  <2>3. r[k] \in Turned(found, key, T, k)
      BY <1>9
  <2>4. WithRound(found, r[k], k + 1) \in Turned(found, key, T, k + 1)
      BY <2>1, <2>3, RoundIsEven
  <2> QED  BY <2>1, <2>2, <2>4
<1>10. n \in I
  <2>1. \A k \in 0 .. n : k \in I
    <3> HIDE DEF I
    <3> QED  BY <1>8, <1>9, Turns!NatsOfSet
  <2> QED  BY <2>1
<1>11. Interleaved(found) = r[n]
    BY <1>3, <1>5, <1>6, InterleavedFolds
<1> QED  BY <1>10, <1>11 DEF Turned

-----------------------------------------------------------------------------
(* Comparison: every document is heard *)

\* No document is named twice in what a chat or a query asks about.
OnceInv ==
    /\ IsInjective(selection) /\ \A ids \in update : IsInjective(ids)
    /\ IsInjective(asked) /\ IsInjective(scope)

\* A comparison has searched the first documents of its scope, one result for each, and
\* has the others before it.
CompareInv == kind = "comparison" =>
    /\ Len(results) + Len(todo) = Len(scope)
    /\ \A j \in DOMAIN todo : todo[j] = <<scope[Len(results) + j]>>
    /\ \A i \in DOMAIN results : results[i] \in Seq(ChunksFrom(library, {scope[i]}))
    /\ todo # <<>> => /\ dense \in Seq(ChunksFrom(library, {scope[Len(results) + 1]}))
                      /\ sparse \in Seq(ChunksFrom(library, {scope[Len(results) + 1]}))
    /\ todo = <<>> => hits = Interleaved(results)

HearingInv == OnceInv /\ CompareInv

\* Nothing is heard twice at first.
LEMMA HearingInit == Init => HearingInv
<1> SUFFICES ASSUME Init PROVE HearingInv
    OBVIOUS
<1>1. IsInjective(selection)
    BY DEF Init, Lists
<1> QED  BY <1>1, NoElements DEF Init, HearingInv, OnceInv, CompareInv

\* A step that leaves the search alone leaves it so.
LEMMA SearchUnchanged ==
    ASSUME CompareInv, UNCHANGED <<library, kind, scope, todo, dense, sparse, results, hits>>
    PROVE  CompareInv'
BY DEF CompareInv

\* No document is asked about twice: a selection and a query name each once.
LEMMA OnceStays == AnsweringInv /\ OnceInv /\ [Next]_vars => OnceInv'
<1> SUFFICES ASSUME AnsweringInv, OnceInv, [Next]_vars PROVE OnceInv'
    OBVIOUS
<1>0. selection \in Seq(Docs) /\ asked \in Seq(Docs)
    BY DEF AnsweringInv, CorpusInv, ScopeInv
<1>1. ASSUME NEW d \in Docs, Ingest(d) PROVE OnceInv'
    BY <1>1 DEF Ingest, OnceInv, turn
<1>2. ASSUME NEW d \in Docs, Delete(d) PROVE OnceInv'
  <2>1. IsInjective(selection')
      BY <1>0, <1>2, FilteredIn DEF Delete, OnceInv
  <2> QED  BY <1>2, <2>1 DEF Delete, OnceInv, turn
<1>3. ASSUME NEW ids \in Lists(Docs), FindSelection(ids) PROVE OnceInv'
    BY <1>3 DEF FindSelection, Lists, OnceInv, turn
<1>4. CASE StoreSelection
    BY <1>4 DEF StoreSelection, OnceInv, turn
<1>5. CASE ReadSelection
    BY <1>5 DEF ReadSelection, OnceInv, corpus
<1>6. ASSUME NEW ids \in Lists(Docs), ResolveQuery(ids) PROVE OnceInv'
    BY <1>6 DEF ResolveQuery, Lists, OnceInv, corpus
<1>7. CASE FindReady
  <2>1. IsInjective(Ready(asked))
      BY <1>0, FilteredIn DEF Ready, OnceInv
  <2> QED  BY <1>7, <2>1 DEF FindReady, OnceInv, corpus
<1>8. CASE \/ NothingSelected \/ NothingReady \/ RankByVectors \/ RankByWords
           \/ Detail \/ Overview \/ Abstain \/ Expand
  <2>1. UNCHANGED <<selection, update, asked, scope>>
      BY <1>8 DEF NothingSelected, NothingReady, RankByVectors, RankByWords, Detail, Overview, Abstain, Expand, corpus
  <2> QED  BY <2>1 DEF OnceInv
<1>9. ASSUME NEW s \in Mentions, Answer(s) PROVE OnceInv'
    BY <1>9 DEF Answer, OnceInv, corpus
<1>10. CASE UNCHANGED vars
    BY <1>10 DEF vars, corpus, turn, OnceInv
<1> QED  BY <1>1, <1>2, <1>3, <1>4, <1>5, <1>6, <1>7, <1>8, <1>9, <1>10 DEF Next, Environment

\* A comparison searches the documents of the scope one by one, in their order,
LEMMA CompareStarts == AnsweringInv /\ FindReady => CompareInv'
<1> SUFFICES ASSUME AnsweringInv, FindReady, kind' = "comparison" PROVE CompareInv'
    BY DEF CompareInv
<1>1. PICK ids : ids = Ready(asked) /\ ids # <<>> /\ scope' = ids
    BY DEF FindReady
<1>2. ids \in Seq(Docs)
    BY <1>1, FilteredIn DEF Ready, AnsweringInv, ScopeInv
<1>3. PICK n \in Nat \ {0} : n = Len(ids) /\ DOMAIN ids = 1 .. n
    BY <1>1, <1>2
<1>4. results' = <<>> /\ dense' = <<>> /\ sparse' = <<>> /\ todo' = [i \in 1 .. n |-> <<ids[i]>>]
    BY <1>1, <1>3 DEF FindReady, Turn, AnsweringInv, ControlInv
<1>5. Len(todo') = n /\ DOMAIN todo' = 1 .. n /\ \A i \in 1 .. n : todo'[i] = <<ids[i]>>
  <2>1. \A i \in 1 .. n : <<ids[i]>> \in Seq(Docs)
      BY <1>2, <1>3
  <2>2. todo' \in Seq(Seq(Docs)) /\ DOMAIN todo' = 1 .. n
      BY <1>4, <2>1
  <2>3. Len(todo') = n
      BY <1>4
  <2> QED  BY <1>4, <2>2, <2>3
<1>6. todo' # <<>>
  <2>1. Len(<<>>) = 0
      OBVIOUS
  <2> QED  BY <1>5, <2>1
<1>7. Len(results') = 0 /\ DOMAIN results' = {} /\ \A T : <<>> \in Seq(T)
    BY <1>4
<1>8. \A j \in 1 .. n : Len(results') + j = j
    BY <1>7
<1> QED  BY <1>1, <1>3, <1>4, <1>5, <1>6, <1>7, <1>8 DEF CompareInv

\* each for itself,
LEMMA CompareRanks == AnsweringInv /\ CompareInv /\ (RankByVectors \/ RankByWords) => CompareInv'
<1> SUFFICES ASSUME AnsweringInv, CompareInv, RankByVectors \/ RankByWords, kind' = "comparison" PROVE CompareInv'
    BY DEF CompareInv
<1>1. /\ UNCHANGED <<corpus, kind, scope, todo, results, hits>> /\ kind = "comparison"
      /\ pc \in {"searching", "ranked"}
    BY DEF RankByVectors, RankByWords, Turn
<1>2. todo # <<>> /\ todo \in Seq(Seq(ToSet(scope))) /\ scope \in Seq(Docs)
    BY <1>1 DEF AnsweringInv, ScopeInv, SearchInv, ControlInv
<1>3. PICK d : d = scope[Len(results) + 1]
    OBVIOUS
<1>4. Head(todo) = <<d>>
  <2>1. 1 \in DOMAIN todo /\ Head(todo) = todo[1]
      BY <1>2
  <2> QED  BY <1>1, <1>3, <2>1 DEF CompareInv
<1>5. d \in Docs
  <2>1. Head(todo) \in Seq(ToSet(scope))
      BY <1>2
  <2>2. ToSet(scope) \subseteq Docs
      BY <1>2, Elements
  <2>3. <<d>> \in Seq(Docs)
      BY <1>4, <2>1, <2>2, WiderSeq
  <2>4. <<d>>[1] = d /\ Len(<<d>>) = 1
      OBVIOUS
  <2> QED  BY <2>3, <2>4, ElementOfSeq
<1>6. \A r \in Rankings(Head(todo)) : r \in Seq(ChunksFrom(library, {d}))
  <2>1. {d} \in SUBSET Docs /\ LibraryInv
      BY <1>5 DEF AnsweringInv, CorpusInv
  <2>2. \A x : <<x>> \in Seq({x})
      OBVIOUS
  <2>3. Head(todo) \in Seq({d})
      BY ONLY <1>4, <2>2
  <2> QED  BY <2>1, <2>3, RankingsStay
<1>7. dense' \in Seq(ChunksFrom(library, {d})) /\ sparse' \in Seq(ChunksFrom(library, {d}))
  <2>1. dense \in Seq(ChunksFrom(library, {d})) /\ sparse \in Seq(ChunksFrom(library, {d}))
      BY <1>1, <1>2, <1>3 DEF CompareInv
  <2>2. (dense' = dense \/ dense' \in Rankings(Head(todo))) /\ (sparse' = sparse \/ sparse' \in Rankings(Head(todo)))
      BY DEF RankByVectors, RankByWords
  <2> QED  BY <1>6, <2>1, <2>2
<1> QED  BY <1>1, <1>2, <1>3, <1>7 DEF CompareInv, corpus

\* What one search brings is of the documents its rankings are of.
LEMMA DetailBrings ==
    ASSUME NEW T, AnsweringInv, dense \in Seq(T), sparse \in Seq(T), Detail
    PROVE  \E y \in Seq(T) : results' = Append(results, y)
<1>1. IsInjective(dense) /\ IsInjective(sparse)
    BY DEF AnsweringInv, SearchInv
<1>2. scope # <<>> /\ scope \in Seq(Docs)
    BY DEF Detail, Turn, AnsweringInv, ControlInv, ScopeInv
<1>3. Wanted \in Nat
  <2>1. PICK n \in Nat \ {0} : n = Len(scope)
      BY <1>2
  <2>2. PerDocument(Len(scope)) \in Nat
      BY <2>1, Shares
  <2> QED  BY <2>2, RetrievalAssumption DEF Wanted
<1>4. Pool \in Seq(T)
  <2>1. Fused(dense, sparse) \in Seq(T)
      BY <1>1, FusedIsSorted
  <2>2. (IF Reranking THEN RerankCandidates ELSE Wanted) \in Nat
      BY <1>3, AnsweringAssumption
  <2> QED  BY <2>1, <2>2, AtMostStays DEF Pool
<1>5. PICK found : found = Filtered(Pool, Stored)
    OBVIOUS
<1>6. found \in Seq(T)
    BY <1>4, <1>5, FilteredIn
<1>7. PICK o : /\ o = found \/ o \in [DOMAIN found -> ToSet(found)]
               /\ results' = Append(results, AtMost(o, Wanted))
  <2> DEFINE orders == IF Reranking THEN {s \in [DOMAIN found -> ToSet(found)] : IsInjective(s)} ELSE {found}
  <2>1. \E o \in orders : results' = Append(results, AtMost(o, Wanted))
      BY <1>5 DEF Detail
  <2> QED  BY <2>1
<1>8. o \in Seq(T)
    BY <1>6, <1>7, OrderStays
<1>9. AtMost(o, Wanted) \in Seq(T)
    BY <1>3, <1>8, AtMostStays
<1> QED  BY <1>7, <1>9

\* and puts what it finds in the place of its document.
LEMMA CompareDetails == AnsweringInv /\ CompareInv /\ Detail => CompareInv'
<1> SUFFICES ASSUME AnsweringInv, CompareInv, Detail, kind' = "comparison" PROVE CompareInv'
    BY DEF CompareInv
<1>1. /\ UNCHANGED <<corpus, kind, scope>> /\ kind = "comparison" /\ todo' = Tail(todo)
      /\ dense' = <<>> /\ sparse' = <<>> /\ hits' = Interleaved(results')
    BY DEF Detail
<1>2. todo # <<>> /\ todo \in Seq(Seq(ToSet(scope))) /\ results \in Seq(Seq(Findable)) /\ scope \in Seq(Docs)
    BY DEF Detail, Turn, AnsweringInv, ScopeInv, SearchInv, ControlInv
<1>3. PICK m \in Nat : m = Len(results) /\ DOMAIN results = 1 .. m
    BY <1>2
<1>4. PICK n \in Nat \ {0} : n = Len(todo) /\ DOMAIN todo = 1 .. n
    BY <1>2
<1>5. m + n = Len(scope) /\ \A j \in 1 .. n : todo[j] = <<scope[m + j]>>
    BY <1>1, <1>3, <1>4 DEF CompareInv
<1>6. PICK y \in Seq(ChunksFrom(library, {scope[m + 1]})) : results' = Append(results, y)
  <2>1. dense \in Seq(ChunksFrom(library, {scope[m + 1]})) /\ sparse \in Seq(ChunksFrom(library, {scope[m + 1]}))
      BY <1>1, <1>2, <1>3 DEF CompareInv
  <2> QED  BY <2>1, DetailBrings
<1>7. /\ Len(results') = m + 1 /\ DOMAIN results' = 1 .. m + 1
      /\ results'[m + 1] = y /\ \A i \in 1 .. m : results'[i] = results[i]
  <2>1. PICK T : results \in Seq(T) /\ y \in T
    <3>1. \A q : q \in Seq(Seq(Findable)) => q \in Seq(Seq(Findable) \cup {y})
        BY WiderSeq
    <3> QED  BY <1>2, <3>1
  <2>2. /\ results' \in Seq(T) /\ Len(results') = m + 1
        /\ results'[m + 1] = y /\ \A i \in 1 .. m : results'[i] = results[i]
      BY <1>3, <1>6, <2>1
  <2>3. DOMAIN results' = 1 .. Len(results')
      BY <2>2
  <2> QED  BY <2>2, <2>3
<1>8. /\ Len(todo') = n - 1 /\ DOMAIN todo' = 1 .. n - 1
      /\ \A j \in 1 .. n - 1 : todo'[j] = <<scope[(m + 1) + j]>>
  <2>1. /\ Tail(todo) \in Seq(Seq(ToSet(scope))) /\ Len(Tail(todo)) = n - 1
        /\ \A j \in 1 .. n - 1 : Tail(todo)[j] = todo[j + 1]
      BY <1>2, <1>4, HeadTailProperties
  <2>2. DOMAIN Tail(todo) = 1 .. n - 1
    <3>1. DOMAIN Tail(todo) = 1 .. Len(Tail(todo))
        BY <2>1
    <3> QED  BY <2>1, <3>1
  <2>3. \A j \in 1 .. n - 1 : j + 1 \in 1 .. n /\ m + (j + 1) = (m + 1) + j
      OBVIOUS
  <2>4. \A j \in 1 .. n - 1 : Tail(todo)[j] = <<scope[(m + 1) + j]>>
    <3> SUFFICES ASSUME NEW j \in 1 .. n - 1 PROVE Tail(todo)[j] = <<scope[(m + 1) + j]>>
        OBVIOUS
    <3>1. todo[j + 1] = <<scope[m + (j + 1)]>>
        BY <1>5, <2>3
    <3> QED  BY <2>1, <2>3, <3>1
  <2> QED  BY <1>1, <2>1, <2>2, <2>4
<1>9. \A i \in 1 .. m + 1 : results'[i] \in Seq(ChunksFrom(library, {scope[i]}))
  <2>1. \A i \in 1 .. m : results[i] \in Seq(ChunksFrom(library, {scope[i]}))
      BY <1>1, <1>3 DEF CompareInv
  <2>2. \A i \in 1 .. m + 1 : i \in 1 .. m \/ i = m + 1
      OBVIOUS
  <2> QED  BY <1>6, <1>7, <2>1, <2>2
<1>10. (m + 1) + (n - 1) = Len(scope)
    BY <1>5
<1>11. library' = library /\ \A T : <<>> \in Seq(T)
    BY <1>1 DEF corpus
<1> QED  BY <1>1, <1>7, <1>8, <1>9, <1>10, <1>11 DEF CompareInv

\* Every step keeps it so.
LEMMA CompareStays == AnsweringInv /\ CompareInv /\ [Next]_vars => CompareInv'
<1> SUFFICES ASSUME AnsweringInv, CompareInv, [Next]_vars PROVE CompareInv'
    OBVIOUS
<1>1. CASE Environment
  <2>1. library' = library /\ UNCHANGED turn
      BY <1>1 DEF Environment, Ingest, Delete, FindSelection, StoreSelection
  <2> QED  BY <2>1, SearchUnchanged DEF turn
<1>2. CASE ReadSelection \/ NothingSelected \/ NothingReady \/ Abstain \/ Expand
  <2>1. UNCHANGED <<library, kind, scope, todo, dense, sparse, results, hits>>
      BY <1>2 DEF ReadSelection, NothingSelected, NothingReady, Abstain, Expand, corpus
  <2> QED  BY <2>1, SearchUnchanged
<1>3. ASSUME NEW ids \in Lists(Docs), ResolveQuery(ids) PROVE CompareInv'
    BY <1>3, SearchUnchanged DEF ResolveQuery, corpus
<1>4. CASE FindReady
    BY <1>4, CompareStarts
<1>5. CASE RankByVectors \/ RankByWords
    BY <1>5, CompareRanks
<1>6. CASE Detail
    BY <1>6, CompareDetails
<1>7. CASE Overview
    BY <1>7 DEF Overview, CompareInv
<1>8. ASSUME NEW s \in Mentions, Answer(s) PROVE CompareInv'
    BY <1>8, SearchUnchanged DEF Answer, corpus
<1>9. CASE UNCHANGED vars
    BY <1>9, SearchUnchanged DEF vars, corpus, turn
<1> QED  BY <1>1, <1>2, <1>3, <1>4, <1>5, <1>6, <1>7, <1>8, <1>9 DEF Next

\* The hits of a comparison are even at every point.
LEMMA HeardFollows == AnsweringInv /\ HearingInv => EveryComparedDocumentIsHeard
<1> SUFFICES ASSUME AnsweringInv, HearingInv, kind = "comparison", todo = <<>>,
                    NEW n \in DOMAIN hits, NEW i \in DOMAIN results, NEW j \in DOMAIN results,
                    results[i] # <<>>, results[j] # <<>>
             PROVE  LET Heard(d) == Cardinality({k \in 1 .. n : hits[k][1] = d})
                    IN Heard(results[i][1][1]) < Len(results[i])
                         => Heard(results[j][1][1]) <= Heard(results[i][1][1]) + 1
    BY DEF EveryComparedDocumentIsHeard
<1>1. /\ results \in Seq(Seq(Findable)) /\ hits \in Seq(Findable) /\ scope \in Seq(Docs)
      /\ IsInjective(scope) /\ hits = Interleaved(results)
    BY DEF AnsweringInv, SearchInv, ScopeInv, HearingInv, OnceInv, CompareInv
<1>2. PICK m \in Nat : m = Len(results) /\ DOMAIN results = 1 .. m /\ DOMAIN scope = 1 .. m
  <2>1. Len(results) + Len(todo) = Len(scope) /\ Len(todo) = 0
      BY DEF HearingInv, CompareInv
  <2> QED  BY <1>1, <2>1
<1>3. \A k \in 1 .. m : \A g \in DOMAIN results[k] : results[k][g][1] = scope[k]
  <2> SUFFICES ASSUME NEW k \in 1 .. m, NEW g \in DOMAIN results[k] PROVE results[k][g][1] = scope[k]
      OBVIOUS
  <2>1. results[k] \in Seq(ChunksFrom(library, {scope[k]}))
      BY <1>2 DEF HearingInv, CompareInv
  <2>2. results[k][g] \in ChunksFrom(library, {scope[k]})
      BY <2>1
  <2> QED  BY <2>2 DEF ChunksFrom
<1>4. Apart(results, scope, Findable, Docs)
  <2>1. \A y \in Findable : y[1] \in Docs
      BY DEF Findable, ChunksFrom
  <2>2. \A k \in 1 .. m : scope[k] \in Docs
      BY <1>1, <1>2
  <2>3. \A k, l \in 1 .. m : scope[k] = scope[l] => k = l
      BY <1>1, <1>2 DEF IsInjective
  <2> QED  BY <1>1, <1>2, <1>3, <2>1, <2>2, <2>3 DEF Apart
<1>5. results # <<>>
    OBVIOUS
<1>6. PICK p \in Nat : p = Len(hits) /\ DOMAIN hits = 1 .. p
    BY <1>1
<1>7. PICK c \in Nat : Even(results, scope, DocsOf(hits), n, c)
  <2>1. \A h \in 0 .. Len(hits) : \E c \in Nat : Even(results, scope, DocsOf(hits), h, c)
      BY <1>1, <1>4, <1>5, InterleavedIsEven
  <2> QED  BY <1>6, <2>1
<1>8. \A d : Count(DocsOf(hits), n, d) = Cardinality({k \in 1 .. n : hits[k][1] = d})
  <2> SUFFICES ASSUME NEW d PROVE Count(DocsOf(hits), n, d) = Cardinality({k \in 1 .. n : hits[k][1] = d})
      OBVIOUS
  <2>1. \A k \in 1 .. n : k \in DOMAIN hits
      BY <1>6
  <2>2. {k \in 1 .. n : DocsOf(hits)[k] = d} = {k \in 1 .. n : hits[k][1] = d}
      BY <2>1 DEF DocsOf
  <2> QED  BY <2>2 DEF Count
<1>9. results[i][1][1] = scope[i] /\ results[j][1][1] = scope[j]
  <2>1. 1 \in DOMAIN results[i] /\ 1 \in DOMAIN results[j]
      BY <1>1
  <2> QED  BY <1>2, <1>3, <2>1
<1>10. PICK a \in Nat, b \in Nat : a = Count(DocsOf(hits), n, scope[i]) /\ b = Count(DocsOf(hits), n, scope[j])
  <2>1. n \in Nat
      BY <1>6
  <2> QED  BY <2>1, CountGrows
<1>11. a < Len(results[i]) => b <= a + 1
  <2>1. b <= c /\ (a < Len(results[i]) => c <= a + 1)
      BY <1>7, <1>10 DEF Even
  <2> QED  BY <2>1
<1> QED  BY <1>8, <1>9, <1>10, <1>11

\* In a comparison, at every length the hits are cut to, no document has two more hits
\* than another that has hits left (interleave in retriever.py).
THEOREM DocumentsAreHeard == Spec => []EveryComparedDocumentIsHeard
<1>1. HearingInv /\ AnsweringInv /\ [Next]_vars => HearingInv'
    BY OnceStays, CompareStays DEF HearingInv
<1>2. AnsweringInv /\ HearingInv => EveryComparedDocumentIsHeard
    BY HeardFollows
<1> QED  BY <1>1, <1>2, AnsweringInit, AnsweringStep, HearingInit, PTL DEF Spec

-----------------------------------------------------------------------------
(* Overview: the places that are taken, and the gaps between them *)

\* The section at place i of b, and where it lies between its neighbours.
LEMMA PlaceBounds ==
    ASSUME NEW i \in Nat, NEW n \in Nat, NEW b \in Nat \ {0}
    PROVE  /\ Place(i, n, b) \in Nat
           /\ Place(i, n, b) * b <= i * n
           /\ i * n < (Place(i, n, b) + 1) * b
<1>1. PICK p \in Nat : p = i * n
    OBVIOUS
<1>2. PICK q \in Int : q = p \div b
    OBVIOUS
<1>3. q * b <= p /\ p < (q + 1) * b /\ 0 <= q
    BY <1>2
<1> QED  BY <1>1, <1>2, <1>3 DEF Place

\* Sections in a row that are all skipped are fewer than a budget-th of them.
LEMMA GapIsBounded ==
    ASSUME NEW n \in Nat, NEW b \in Nat \ {0}, b < n, NEW k \in 1 .. n, NEW m \in k .. n,
           \A i \in 0 .. b - 1 : Place(i, n, b) + 1 \notin k .. m
    PROVE  (m - k + 1) * b < n
<1>1. PICK c \in Nat : b = c + 1
  <2>1. b - 1 \in Nat /\ b = (b - 1) + 1
      OBVIOUS
  <2> QED  BY <2>1
<1>2. \A i \in Nat : Place(i, n, b) \in Nat
    BY PlaceBounds
<1> DEFINE I == {i \in Nat : Place(i, n, b) + 1 < k}
<1>3. 0 \in I
  <2>1. PICK q \in Nat : q = Place(0, n, b)
      BY <1>2
  <2>2. q * b <= 0
      BY <2>1, PlaceBounds
  <2>3. q = 0
    <3> SUFFICES ASSUME q >= 1 PROVE FALSE
        OBVIOUS
    <3>1. q * b >= b
        OBVIOUS
    <3> QED  BY <2>2, <3>1
  <2>4. 1 \notin k .. m
      BY <2>1, <2>3
  <2> QED  BY <2>1, <2>3, <2>4
<1>4. PICK i \in 0 .. c : i \in I /\ (i = c \/ i + 1 \notin I)
  <2> SUFFICES ASSUME \A i \in 0 .. c : i \in I => i # c /\ i + 1 \in I PROVE FALSE
      OBVIOUS
  <2>1. \A i \in 0 .. c - 1 : i \in I => i + 1 \in I
      OBVIOUS
  <2>2. \A i \in 0 .. c : i \in I
    <3> HIDE DEF I
    <3> QED  BY ONLY c \in Nat, <1>3, <2>1, Filters!NatsOfSet
  <2>3. c \in 0 .. c
      OBVIOUS
  <2> QED  BY <2>2, <2>3
<1>5. i * n < (k - 1) * b
  <2>1. PICK q \in Nat : q = Place(i, n, b)
      BY <1>2
  <2>2. i * n < (q + 1) * b /\ q + 1 <= k - 1
      BY <1>4, <2>1, PlaceBounds
  <2>3. PICK e \in Nat : k - 1 = q + 1 + e
    <3>1. (k - 1) - (q + 1) \in Nat /\ k - 1 = q + 1 + ((k - 1) - (q + 1))
        BY <2>2
    <3> QED  BY <3>1
  <2>4. (k - 1) * b = (q + 1) * b + e * b /\ e * b \in Nat
      BY <2>3
  <2>5. PICK x \in Nat, y \in Nat, z \in Nat : x = i * n /\ y = (q + 1) * b /\ z = e * b
      OBVIOUS
  <2> QED  BY <2>2, <2>4, <2>5
<1>6. m * b <= (i + 1) * n
  <2>1. CASE i = c
    <3>1. PICK e \in Nat : n = m + e
      <4>1. n - m \in Nat /\ n = m + (n - m)
          OBVIOUS
      <4> QED  BY <4>1
    <3>2. n * b = m * b + e * b /\ e * b \in Nat
        BY <3>1
    <3>3. (i + 1) * n = n * b
        BY <1>1, <2>1
    <3> QED  BY <3>2, <3>3
  <2>2. CASE i # c
    <3>1. PICK q \in Nat : q = Place(i + 1, n, b)
        BY <1>2
    <3>2. q * b <= (i + 1) * n
        BY <3>1, PlaceBounds
    <3>3. i + 1 \in 0 .. b - 1 /\ ~(q + 1 < k)
        BY <1>1, <1>4, <2>2, <3>1
    <3>4. q >= m
        BY <3>1, <3>3
    <3>5. PICK e \in Nat : q = m + e
      <4>1. q - m \in Nat /\ q = m + (q - m)
          BY <3>4
      <4> QED  BY <4>1
    <3>6. q * b = m * b + e * b /\ e * b \in Nat
        BY <3>5
    <3>7. PICK x \in Nat, y \in Nat : x = m * b /\ y = e * b
        OBVIOUS
    <3> QED  BY <3>2, <3>6, <3>7
  <2> QED  BY <2>1, <2>2
<1>7. (m - k + 1) * b = m * b - (k - 1) * b /\ (i + 1) * n = i * n + n
    OBVIOUS
<1>8. PICK x \in Int, y \in Int, z \in Int : x = m * b /\ y = (k - 1) * b /\ z = i * n
    OBVIOUS
<1> QED  BY <1>5, <1>6, <1>7, <1>8

\* What is taken of the rows: no more than the budget, the first of them, and some of
\* any so many in a row.
LEMMA SpreadTakes ==
    ASSUME NEW T, NEW rows \in Seq(T), NEW b \in Nat \ {0}
    PROVE  /\ Spread(rows, b) \in Seq(T) /\ Len(Spread(rows, b)) <= b
           /\ ToSet(Spread(rows, b)) \subseteq ToSet(rows)
           /\ rows # <<>> => rows[1] \in ToSet(Spread(rows, b))
           /\ \A k \in DOMAIN rows : \A m \in k .. Len(rows) :
                 (\A j \in k .. m : rows[j] \notin ToSet(Spread(rows, b))) => (m - k + 1) * b < Len(rows)
<1>1. PICK n \in Nat : n = Len(rows) /\ DOMAIN rows = 1 .. n /\ ToSet(rows) = {rows[i] : i \in 1 .. n}
    BY Elements
<1>2. CASE n <= b
  <2>1. Spread(rows, b) = rows
      BY <1>1, <1>2 DEF Spread
  <2>2. rows # <<>> => 1 \in 1 .. n
      BY <1>1
  <2>3. \A k \in 1 .. n : \A m \in k .. n : k \in k .. m
      OBVIOUS
  <2> QED  BY <1>1, <1>2, <2>1, <2>2, <2>3
<1>3. CASE b < n
  <2>1. PICK o : o = Spread(rows, b)
      OBVIOUS
  <2>2. o = [i \in 1 .. b |-> rows[Place(i - 1, n, b) + 1]]
      BY <1>1, <1>3, <2>1 DEF Spread
  <2>3. \A i \in 1 .. b : Place(i - 1, n, b) + 1 \in 1 .. n
    <3> SUFFICES ASSUME NEW i \in 1 .. b PROVE Place(i - 1, n, b) + 1 \in 1 .. n
        OBVIOUS
    <3>1. i - 1 \in Nat /\ i - 1 < b
        OBVIOUS
    <3>2. PICK q \in 0 .. n - 1 : q = Place(i - 1, n, b)
        BY <1>3, <3>1, PlaceInside
    <3> QED  BY <3>2
  <2>4. o \in Seq(T) /\ Len(o) = b /\ DOMAIN o = 1 .. b
      BY <1>1, <2>2, <2>3
  <2>5. ToSet(o) = {rows[Place(i - 1, n, b) + 1] : i \in 1 .. b}
      BY <2>2, <2>4 DEF ToSet
  <2>6. rows[1] \in ToSet(o)
    <3>1. PICK q \in Nat : q = Place(0, n, b)
        BY PlaceBounds
    <3>2. q * b <= 0
        BY <3>1, PlaceBounds
    <3>3. q = 0
      <4> SUFFICES ASSUME q >= 1 PROVE FALSE
          OBVIOUS
      <4>1. q * b >= b
          OBVIOUS
      <4> QED  BY <3>2, <4>1
    <3>4. 1 \in 1 .. b /\ 1 - 1 = 0 /\ Place(1 - 1, n, b) + 1 = 1
        BY <3>1, <3>3
    <3> QED  BY <2>5, <3>4
  <2>7. ASSUME NEW k \in 1 .. n, NEW m \in k .. n, \A j \in k .. m : rows[j] \notin ToSet(o)
        PROVE  (m - k + 1) * b < n
    <3>1. ASSUME NEW i \in 0 .. b - 1 PROVE Place(i, n, b) + 1 \notin k .. m
      <4>1. i + 1 \in 1 .. b /\ (i + 1) - 1 = i
          OBVIOUS
      <4>2. rows[Place(i, n, b) + 1] \in ToSet(o)
          BY <2>5, <4>1
      <4> QED  BY <2>7, <4>2
    <3> QED  BY <1>3, <3>1, GapIsBounded
  <2>8. ToSet(o) \subseteq ToSet(rows)
      BY <1>1, <2>3, <2>5
  <2>9. Len(o) <= b
      BY <2>4
  <2> QED  BY ONLY <1>1, <2>1, <2>4, <2>6, <2>7, <2>8, <2>9
<1> QED  BY <1>1, <1>2, <1>3

-----------------------------------------------------------------------------
(* Overview: the first chunk of each section *)

\* One element more is filtered after the others.
LEMMA FilteredMore ==
    ASSUME NEW T, NEW s \in Seq(T), NEW x \in T, NEW S
    PROVE  Filtered(Append(s, x), S) = KeepIn(S, Filtered(s, S), x)
<1>1. Filters!Fold(S, <<>>, Append(s, x)) = KeepIn(S, Filters!Fold(S, <<>>, s), x)
    BY Filters!FoldOfAppend
<1> QED  BY <1>1, FilteredFolds

\* Of nothing, nothing is kept.
LEMMA FilteredNothing ==
    ASSUME NEW S PROVE Filtered(<<>>, S) = <<>>
<1>1. <<>> \in Seq({}) /\ ToSet(<<>>) = {}
    BY NoElements
<1>2. Filtered(<<>>, S) \in Seq({})
    BY <1>1, FilteredIn
<1> QED  BY <1>2

\* The first j chunks of section s of a text.
Upto(text, s, j) == [k \in 1 .. j |-> <<text.id, text.version, s, k>>]

\* One chunk more of a section.
LEMMA UptoMore ==
    ASSUME NEW T, NEW text, NEW s, NEW j \in Nat,
           \A k \in 1 .. j + 1 : <<text.id, text.version, s, k>> \in T
    PROVE  /\ Upto(text, s, j) \in Seq(T)
           /\ Upto(text, s, j + 1) = Append(Upto(text, s, j), <<text.id, text.version, s, j + 1>>)
<1>1. PICK c \in T : c = <<text.id, text.version, s, j + 1>>
  <2>1. j + 1 \in 1 .. j + 1
      OBVIOUS
  <2> QED  BY <2>1
<1>2. PICK a : a = Upto(text, s, j)
    OBVIOUS
<1>3. PICK b : b = Upto(text, s, j + 1)
    OBVIOUS
<1>4. a \in Seq(T) /\ Len(a) = j
    BY <1>2 DEF Upto
<1>5. b \in Seq(T) /\ Len(b) = j + 1
    BY <1>3 DEF Upto
<1>6. \A k \in 1 .. j : b[k] = a[k] /\ k \in 1 .. j + 1
    BY <1>2, <1>3 DEF Upto
<1>7. b[j + 1] = c
    BY <1>1, <1>3 DEF Upto
<1>8. b = Append(a, c)
    BY ONLY j \in Nat, c \in T, <1>4, <1>5, <1>6, <1>7
<1> QED  BY <1>1, <1>2, <1>3, <1>4, <1>8

\* One element more of the second of two sequences.
LEMMA JoinedMore ==
    ASSUME NEW T, NEW s \in Seq(T), NEW t \in Seq(T), NEW x \in T
    PROVE  s \o t \in Seq(T) /\ s \o Append(t, x) = Append(s \o t, x)
OBVIOUS

\* Of the chunks of a section the first is kept.
LEMMA FirstIsKept ==
    ASSUME NEW T, NEW base \in Seq(T), NEW text, NEW s, NEW F, NEW m \in Nat,
           \A k \in 1 .. m : /\ <<text.id, text.version, s, k>> \in T
                             /\ <<text.id, text.version, s, k>> \in F <=> k = 1
    PROVE  /\ base \o Upto(text, s, m) \in Seq(T)
           /\ Filtered(base \o Upto(text, s, m), F)
                = IF m = 0 THEN Filtered(base, F)
                  ELSE Append(Filtered(base, F), <<text.id, text.version, s, 1>>)
<1> DEFINE c(k) == <<text.id, text.version, s, k>>
           Kept(j) == /\ base \o Upto(text, s, j) \in Seq(T)
                      /\ Upto(text, s, j) \in Seq(T)
                      /\ j = 0 => Filtered(base \o Upto(text, s, j), F) = Filtered(base, F)
                      /\ j # 0 => Filtered(base \o Upto(text, s, j), F) = Append(Filtered(base, F), c(1))
           I == {j \in Nat : Kept(j)}
<1>1. 0 \in I
  <2>1. Upto(text, s, 0) = <<>>
      BY DEF Upto
  <2>2. base \o <<>> = base /\ <<>> \in Seq(T)
      OBVIOUS
  <2> QED  BY <2>1, <2>2
<1>2. ASSUME NEW j \in 0 .. m - 1, j \in I PROVE j + 1 \in I
  <2>1. \A k \in 1 .. j + 1 : c(k) \in T
      OBVIOUS
  <2>2. j + 1 \in 1 .. m /\ c(j + 1) \in T /\ (c(j + 1) \in F <=> j + 1 = 1)
      OBVIOUS
  <2>3. PICK a, b, x : a = Upto(text, s, j) /\ b = Upto(text, s, j + 1) /\ x = c(j + 1)
      OBVIOUS
  <2>4. a \in Seq(T) /\ b = Append(a, x)
    <3> HIDE DEF I
    <3>1. j \in Nat
        OBVIOUS
    <3> QED  BY <2>1, <2>3, <3>1, UptoMore
  <2>5. base \o a \in Seq(T) /\ base \o b = Append(base \o a, x) /\ b \in Seq(T) /\ x \in T
    <3>1. x \in T
        BY <2>2, <2>3
    <3>2. base \o a \in Seq(T) /\ base \o Append(a, x) = Append(base \o a, x)
        BY <2>4, <3>1, JoinedMore
    <3> QED  BY <2>4, <3>1, <3>2
  <2>6. Append(base \o a, x) \in Seq(T) /\ Filtered(base \o b, F) = KeepIn(F, Filtered(base \o a, F), x)
    <3>1. PICK more : more = base \o a
        OBVIOUS
    <3>2. Append(more, x) \in Seq(T)
        BY <2>5, <3>1, Appends
    <3>3. Filtered(Append(more, x), F) = KeepIn(F, Filtered(more, F), x)
        BY <2>5, <3>1, FilteredMore
    <3> QED  BY <2>5, <3>1, <3>2, <3>3
  <2>7. CASE j = 0
    <3>1. x \in F /\ x = c(1) /\ Filtered(base \o a, F) = Filtered(base, F)
        BY <1>2, <2>2, <2>3, <2>7
    <3>2. Filtered(base \o b, F) = Append(Filtered(base, F), c(1))
        BY <2>6, <3>1 DEF KeepIn
    <3> QED  BY <2>3, <2>5, <2>6, <3>2
  <2>8. CASE j # 0
    <3>1. x \notin F /\ Filtered(base \o a, F) = Append(Filtered(base, F), c(1))
        BY <1>2, <2>2, <2>3, <2>8
    <3>2. Filtered(base \o b, F) = Append(Filtered(base, F), c(1))
        BY <2>6, <3>1 DEF KeepIn
    <3> QED  BY <2>3, <2>5, <2>6, <3>2
  <2> QED  BY <2>7, <2>8
<1>3. m \in I
  <2> HIDE DEF I
  <2>1. \A j \in 0 .. m : j \in I
      BY ONLY m \in Nat, <1>1, <1>2, Filters!NatsOfSet
  <2>2. m \in 0 .. m
      OBVIOUS
  <2> QED  BY <2>1, <2>2
<1> QED  BY <1>3

\* The first chunks of some sections.
Titles(id, v, sections) == [k \in DOMAIN sections |-> <<id, v, sections[k], 1>>]

\* One section more has one first chunk more.
LEMMA TitlesMore ==
    ASSUME NEW N, NEW a \in Seq(N), NEW s \in N, NEW id, NEW v
    PROVE  Titles(id, v, Append(a, s)) = Append(Titles(id, v, a), <<id, v, s, 1>>)
<1>1. PICK n \in Nat : n = Len(a) /\ DOMAIN a = 1 .. n
    OBVIOUS
<1>2. PICK b : b = Append(a, s)
    OBVIOUS
<1>0. b \in Seq(N) /\ Len(b) = n + 1 /\ DOMAIN b = 1 .. n + 1 /\ b[n + 1] = s /\ \A k \in 1 .. n : b[k] = a[k]
  <2>1. b \in Seq(N) /\ Len(b) = n + 1 /\ b[n + 1] = s /\ \A k \in 1 .. n : b[k] = a[k]
      BY <1>1, <1>2, AppendProperties
  <2> QED  BY <2>1, Elements
<1>3. PICK T : T = {<<id, v, h, 1>> : h \in N}
    OBVIOUS
<1>4. PICK x \in T : x = <<id, v, s, 1>>
    BY <1>3
<1>5. PICK t : t = Titles(id, v, a)
    OBVIOUS
<1>6. PICK w : w = Titles(id, v, b)
    OBVIOUS
<1>7. \A k \in 1 .. n : a[k] \in N
    BY <1>1
<1>8. t \in Seq(T) /\ Len(t) = n /\ \A k \in 1 .. n : t[k] = <<id, v, a[k], 1>>
    BY <1>1, <1>3, <1>5, <1>7 DEF Titles
<1>9. w \in Seq(T) /\ Len(w) = n + 1 /\ w[n + 1] = x /\ \A k \in 1 .. n : w[k] = t[k]
  <2>1. \A k \in 1 .. n + 1 : b[k] \in N
      BY <1>0
  <2>2. w = [k \in 1 .. n + 1 |-> <<id, v, b[k], 1>>]
      BY <1>0, <1>6 DEF Titles
  <2>3. w \in Seq(T) /\ Len(w) = n + 1
    <3>1. \A k \in 1 .. n + 1 : <<id, v, b[k], 1>> \in T
        BY <1>3, <2>1
    <3> QED  BY <2>2, <3>1
  <2>4. n + 1 \in 1 .. n + 1 /\ \A k \in 1 .. n : k \in 1 .. n + 1
      OBVIOUS
  <2> QED  BY <1>0, <1>4, <1>8, <2>2, <2>3, <2>4
<1>10. w = Append(t, x)
    BY ONLY n \in Nat, x \in T, <1>8, <1>9
<1> QED  BY <1>2, <1>4, <1>5, <1>6, <1>10

\* A text whose chunks have names in T.
Named(text, n, T) ==
    /\ DOMAIN text.sections = 1 .. n
    /\ \A s \in 1 .. n : /\ text.sections[s].passages \in Seq(Nat)
                         /\ \A k \in DOMAIN text.sections[s].passages :
                               <<text.id, text.version, s, k>> \in T

\* The loop over a text adds the chunks of the section, if it has any.
LEMMA SectionIsUpto ==
    ASSUME NEW text, NEW n \in Nat, NEW T, Named(text, n, T), NEW s \in 1 .. n
    PROVE  \E m \in Nat :
              /\ DOMAIN text.sections[s].passages = 1 .. m
              /\ m = 0 <=> text.sections[s].passages = <<>>
              /\ \A all : WithSection(text, all, s) = all \o Upto(text, s, m)
<1>1. PICK m \in Nat : m = Len(text.sections[s].passages) /\ DOMAIN text.sections[s].passages = 1 .. m
    BY DEF Named
<1>2. text.sections[s].passages \in Seq(Nat)
    BY DEF Named
<1>3. m = 0 <=> text.sections[s].passages = <<>>
    BY <1>1, <1>2
<1> QED  BY <1>1, <1>3 DEF WithSection, Upto

\* Every passage has its chunk.
LEMMA ChunksAreThere ==
    ASSUME NEW text, NEW n \in Nat, NEW T, Named(text, n, T), NEW r,
           Texts!IsRun(text, <<>>, [s \in DOMAIN text.sections |-> s], n, r)
    PROVE  \A s \in 0 .. n : /\ r[s] \in Seq(T)
                             /\ \A h \in 1 .. s : \A k \in DOMAIN text.sections[h].passages :
                                   <<text.id, text.version, h, k>> \in ToSet(r[s])
<1> DEFINE I == {s \in Nat : /\ r[s] \in Seq(T)
                             /\ \A h \in 1 .. s : \A k \in DOMAIN text.sections[h].passages :
                                   <<text.id, text.version, h, k>> \in ToSet(r[s])}
<1>1. 0 \in I
  <2>1. r[0] = <<>>
      BY DEF Texts!IsRun
  <2>2. r[0] \in Seq(T)
      BY <2>1
  <2>3. \A h \in 1 .. 0 : FALSE
      OBVIOUS
  <2> QED  BY <2>2, <2>3
<1>2. ASSUME NEW s \in 0 .. n - 1, s \in I PROVE s + 1 \in I
  <2>1. PICK h \in 1 .. n : h = s + 1 /\ h - 1 = s
      OBVIOUS
  <2>2. r[h] = WithSection(text, r[s], h)
      BY <2>1 DEF Texts!IsRun, Named
  <2>3. PICK m \in Nat : /\ DOMAIN text.sections[h].passages = 1 .. m
                         /\ r[h] = r[s] \o Upto(text, h, m)
      BY <2>2, SectionIsUpto
  <2>4. PICK p : p = Upto(text, h, m)
      OBVIOUS
  <2>5. p \in Seq(T) /\ ToSet(p) = {<<text.id, text.version, h, k>> : k \in 1 .. m}
    <3>1. \A k \in 1 .. m : <<text.id, text.version, h, k>> \in T
        BY <2>3 DEF Named
    <3>2. p \in Seq(T) /\ DOMAIN p = 1 .. m
        BY <2>4, <3>1 DEF Upto
    <3> QED  BY <2>4, <3>2 DEF Upto, ToSet
  <2>6. PICK q \in Seq(T) : q = r[s]
      BY <1>2
  <2>7. r[h] \in Seq(T) /\ ToSet(r[h]) = ToSet(r[s]) \cup ToSet(p)
      BY <2>3, <2>4, <2>5, <2>6, JoinedSets
  <2>8. \A g \in 1 .. h : g \in 1 .. s \/ g = h
      BY <2>1
  <2>9. ASSUME NEW g \in 1 .. h, NEW k \in DOMAIN text.sections[g].passages
        PROVE  <<text.id, text.version, g, k>> \in ToSet(r[h])
    <3>1. CASE g \in 1 .. s
        BY <1>2, <2>7, <3>1
    <3>2. CASE g = h
        BY <2>3, <2>5, <2>7, <3>2
    <3> QED  BY <2>8, <3>1, <3>2
  <2> QED  BY <2>1, <2>7, <2>9
<1>3. \A s \in 0 .. n : s \in I
  <2> HIDE DEF I
  <2> QED  BY ONLY n \in Nat, <1>1, <1>2, Filters!NatsOfSet
<1> QED  BY <1>3

\* The first chunks of a text are those of its sections that have any.
LEMMA FirstsOfText ==
    ASSUME NEW text, NEW n \in Nat, NEW T, Named(text, n, T), NEW F,
           \A s \in 1 .. n : \A k \in DOMAIN text.sections[s].passages :
               <<text.id, text.version, s, k>> \in F <=> k = 1
    PROVE  /\ Filtered(ChunksIn(text), F) = Titles(text.id, text.version, WithPassages(text.sections))
           /\ WithPassages(text.sections) \in Seq(1 .. n)
<1>1. PICK places : places = [s \in DOMAIN text.sections |-> s]
    OBVIOUS
<1>2. DOMAIN places = 1 .. n /\ \A s \in 1 .. n : places[s] = s
    BY <1>1 DEF Named
<1>3. PICK S : S = {s \in DOMAIN text.sections : text.sections[s].passages # <<>>}
    OBVIOUS
<1>4. PICK r : Texts!IsRun(text, <<>>, places, n, r) /\ Texts!Fold(text, <<>>, places) = r[n]
    BY <1>2, Texts!FoldRuns
<1>5. PICK q : Filters!IsRun(S, <<>>, places, n, q) /\ Filters!Fold(S, <<>>, places) = q[n]
    BY <1>2, Filters!FoldRuns
<1>6. \A s \in 0 .. n : r[s] \in Seq(T)
    BY <1>1, <1>4, ChunksAreThere
<1>7. ChunksIn(text) = r[n] /\ WithPassages(text.sections) = q[n]
  <2>1. ChunksIn(text) = r[n]
      BY <1>1, <1>4, ChunksInFolds
  <2>2. WithPassages(text.sections) = Filtered(places, S)
      BY <1>1, <1>3 DEF WithPassages
  <2> QED  BY <1>5, <2>1, <2>2, FilteredFolds
<1> DEFINE I == {s \in Nat : /\ q[s] \in Seq(1 .. n)
                             /\ Filtered(r[s], F) = Titles(text.id, text.version, q[s])}
<1>8. 0 \in I
  <2>1. r[0] = <<>> /\ q[0] = <<>>
      BY <1>4, <1>5 DEF Texts!IsRun, Filters!IsRun
  <2>2. Filtered(<<>>, F) = <<>>
      BY FilteredNothing
  <2>3. Titles(text.id, text.version, <<>>) = <<>>
      BY DEF Titles
  <2>4. <<>> \in Seq(1 .. n)
      OBVIOUS
  <2> QED  BY <2>1, <2>2, <2>3, <2>4
<1>9. ASSUME NEW s \in 0 .. n - 1, s \in I PROVE s + 1 \in I
  <2>1. PICK h \in 1 .. n : h = s + 1 /\ h - 1 = s
      OBVIOUS
  <2>2. r[h] = WithSection(text, r[s], h)
      BY <1>2, <1>4, <2>1 DEF Texts!IsRun
  <2>3. q[h] = KeepIn(S, q[s], h)
      BY <1>2, <1>5, <2>1 DEF Filters!IsRun
  <2>4. PICK m \in Nat : /\ DOMAIN text.sections[h].passages = 1 .. m
                         /\ m = 0 <=> text.sections[h].passages = <<>>
                         /\ r[h] = r[s] \o Upto(text, h, m)
      BY <2>2, SectionIsUpto
  <2>5. PICK base \in Seq(T) : base = r[s]
      BY <1>6
  <2>6. \A k \in 1 .. m : /\ <<text.id, text.version, h, k>> \in T
                          /\ <<text.id, text.version, h, k>> \in F <=> k = 1
      BY <2>4 DEF Named
  <2>7. Filtered(r[h], F) = IF m = 0 THEN Filtered(base, F)
                            ELSE Append(Filtered(base, F), <<text.id, text.version, h, 1>>)
    <3>1. Filtered(base \o Upto(text, h, m), F)
            = IF m = 0 THEN Filtered(base, F)
              ELSE Append(Filtered(base, F), <<text.id, text.version, h, 1>>)
        BY ONLY m \in Nat, base \in Seq(T), <2>6, FirstIsKept
    <3> QED  BY <2>4, <2>5, <3>1
  <2>8. h \in S <=> m # 0
      BY <1>3, <2>4 DEF Named
  <2>9. q[s] \in Seq(1 .. n) /\ Filtered(base, F) = Titles(text.id, text.version, q[s])
      BY <1>9, <2>5
  <2>10. CASE m = 0
    <3>1. q[h] = q[s] /\ Filtered(r[h], F) = Filtered(base, F)
        BY <2>3, <2>7, <2>8, <2>10 DEF KeepIn
    <3> QED  BY <2>1, <2>9, <3>1
  <2>11. CASE m # 0
    <3>1. q[h] = Append(q[s], h) /\ Filtered(r[h], F) = Append(Filtered(base, F), <<text.id, text.version, h, 1>>)
        BY <2>3, <2>7, <2>8, <2>11 DEF KeepIn
    <3>2. Titles(text.id, text.version, Append(q[s], h))
            = Append(Titles(text.id, text.version, q[s]), <<text.id, text.version, h, 1>>)
      <4>1. PICK N, a : N = 1 .. n /\ a = q[s]
          OBVIOUS
      <4>2. a \in Seq(N) /\ h \in N
          BY <2>9, <4>1
      <4> QED  BY <4>1, <4>2, TitlesMore, SMTT(30)
    <3>3. Append(q[s], h) \in Seq(1 .. n)
      <4>1. PICK N, a : N = 1 .. n /\ a = q[s]
          OBVIOUS
      <4>2. a \in Seq(N) /\ h \in N
          BY <2>9, <4>1
      <4> QED  BY <4>1, <4>2, Appends
    <3>4. q[h] \in Seq(1 .. n)
        BY ONLY <3>1, <3>3
    <3>5. Filtered(r[h], F) = Titles(text.id, text.version, q[h])
        BY ONLY <2>9, <3>1, <3>2
    <3>6. h = s + 1 /\ h \in Nat
        BY <2>1
    <3> QED  BY ONLY <3>4, <3>5, <3>6
  <2> QED  BY <2>10, <2>11
<1>10. n \in I
  <2> HIDE DEF I
  <2>1. \A s \in 0 .. n : s \in I
      BY ONLY n \in Nat, <1>8, <1>9, Filters!NatsOfSet
  <2>2. n \in 0 .. n
      OBVIOUS
  <2> QED  BY <2>1, <2>2
<1> QED  BY <1>7, <1>10

\* What the overview's statement returns for a document: the first passage of each section.
LEMMA OpeningsAre ==
    ASSUME LibraryInv, NEW d \in Docs
    PROVE  \/ Openings(d) = <<>>
           \/ \E v \in DOMAIN library[d] :
                 /\ WithPassages(library[d][v]) \in Seq(Nat)
                 /\ Openings(d) = Titles(d, v, WithPassages(library[d][v]))
<1>1. CASE ~Exists(d) \/ docs[d].version = 0
  <2>1. ChunksOf(d) = <<>>
      BY <1>1 DEF ChunksOf
  <2> QED  BY <2>1, FilteredNothing DEF Openings
<1>2. CASE ~(~Exists(d) \/ docs[d].version = 0)
  <2>1. PICK v \in Nat \ {0} : v = docs[d].version
      BY <1>2 DEF LibraryInv
  <2>2. v \in DOMAIN library[d] /\ library[d][v] \in Seq(SectionText)
    <3>1. library[d] \in Seq(Seq(SectionText)) /\ v <= Len(library[d])
        BY <2>1 DEF LibraryInv
    <3> QED  BY <3>1
  <2>3. PICK text : text = [id |-> d, version |-> v, sections |-> library[d][v]]
      OBVIOUS
  <2>4. PICK n \in Nat : n = Len(library[d][v]) /\ DOMAIN text.sections = 1 .. n
      BY <2>2, <2>3
  <2>5. ChunksOf(d) = ChunksIn(text)
      BY <1>2, <2>1, <2>3 DEF ChunksOf
  <2>6. PICK T : T = {text.id} \X {text.version} \X Nat \X Nat
      OBVIOUS
  <2>7. Named(text, n, T)
    <3>1. ASSUME NEW s \in 1 .. n
          PROVE  /\ text.sections[s].passages \in Seq(Nat)
                 /\ \A k \in DOMAIN text.sections[s].passages : <<text.id, text.version, s, k>> \in T
      <4>1. library[d][v][s] \in SectionText
        <5>1. \A y \in Seq(SectionText) : \A i \in DOMAIN y : y[i] \in SectionText
            OBVIOUS
        <5> QED  BY <2>2, <2>3, <2>4, <5>1
      <4>2. text.sections[s].passages \in Seq(Nat)
          BY <2>3, <4>1 DEF SectionText
      <4>3. \A k \in DOMAIN text.sections[s].passages : k \in Nat
          BY <4>2
      <4> QED  BY <2>6, <4>2, <4>3
    <3> QED  BY <2>4, <3>1 DEF Named
  <2>8. PICK F : F = {c \in ToSet(ChunksOf(d)) : c[4] = 1}
      OBVIOUS
  <2>9. ASSUME NEW s \in 1 .. n, NEW k \in DOMAIN text.sections[s].passages
        PROVE  <<text.id, text.version, s, k>> \in F <=> k = 1
    <3>1. <<text.id, text.version, s, k>> \in ToSet(ChunksIn(text))
      <4>0. PICK places : places = [i \in DOMAIN text.sections |-> i]
          OBVIOUS
      <4>1. places = [i \in DOMAIN text.sections |-> i] /\ DOMAIN places = 1 .. n
          BY <2>4, <4>0
      <4>2. PICK r : Texts!IsRun(text, <<>>, places, n, r) /\ Texts!Fold(text, <<>>, places) = r[n]
          BY <4>1, Texts!FoldRuns, SMTT(30)
      <4>3. n \in 0 .. n
          OBVIOUS
      <4>4. <<text.id, text.version, s, k>> \in ToSet(r[n])
          BY <2>7, <4>1, <4>2, <4>3, ChunksAreThere
      <4> QED  BY <4>1, <4>2, <4>4, ChunksInFolds
    <3> QED  BY <2>5, <2>8, <3>1
  <2>10. /\ Filtered(ChunksIn(text), F) = Titles(text.id, text.version, WithPassages(text.sections))
         /\ WithPassages(text.sections) \in Seq(1 .. n)
      BY <2>7, <2>9, FirstsOfText
  <2>11. Openings(d) = Titles(d, v, WithPassages(library[d][v]))
      BY <2>3, <2>5, <2>8, <2>10 DEF Openings
  <2>12. WithPassages(library[d][v]) \in Seq(Nat)
    <3>1. 1 .. n \subseteq Nat
        OBVIOUS
    <3> QED  BY <2>3, <2>10, <3>1, WiderSeq
  <2> QED  BY <2>2, <2>11, <2>12
<1> QED  BY <1>1, <1>2

-----------------------------------------------------------------------------
(* Overview: what is shown of a document *)

\* The openings of the documents together are those of each.
LEMMA OpenedElements ==
    ASSUME NEW D, NEW ids \in Seq(D), NEW T, NEW opening, \A d \in D : opening[d] \in Seq(T)
    PROVE  ToSet(Opened(opening, ids)) = UNION {ToSet(opening[d]) : d \in ToSet(ids)}
<1>1. PICK n \in Nat : n = Len(ids)
    OBVIOUS
<1>2. DOMAIN ids = 1 .. n /\ (\A i \in 1 .. n : ids[i] \in D) /\ ToSet(ids) = {ids[i] : i \in 1 .. n}
    BY <1>1, Elements
<1>3. PICK r : Overviews!IsRun(opening, <<>>, ids, n, r) /\ Overviews!Fold(opening, <<>>, ids) = r[n]
    BY <1>2, Overviews!FoldRuns
<1>4. r[0] = <<>> /\ \A k \in 1 .. n : r[k] = r[k - 1] \o opening[ids[k]]
    BY <1>3 DEF Overviews!IsRun, WithOpenings
<1> DEFINE I == {k \in Nat : /\ r[k] \in Seq(T)
                             /\ ToSet(r[k]) = UNION {ToSet(opening[ids[i]]) : i \in 1 .. k}}
<1>5. 0 \in I
  <2>1. <<>> \in Seq(T) /\ ToSet(<<>>) = {}
      BY NoElements
  <2>2. {ToSet(opening[ids[i]]) : i \in 1 .. 0} = {}
      OBVIOUS
  <2> QED  BY <1>4, <2>1, <2>2
<1>6. ASSUME NEW k \in 0 .. n - 1, k \in I PROVE k + 1 \in I
  <2>1. PICK h \in 1 .. n : h = k + 1 /\ h - 1 = k
      OBVIOUS
  <2>2. PICK a, b : a = r[k] /\ b = opening[ids[h]]
      OBVIOUS
  <2>3. a \in Seq(T) /\ b \in Seq(T)
      BY <1>2, <1>6, <2>2
  <2>4. r[h] = a \o b
      BY <1>4, <2>1, <2>2
  <2>5. r[h] \in Seq(T) /\ ToSet(r[h]) = ToSet(a) \cup ToSet(b)
      BY <2>3, <2>4, JoinedSets
  <2>6. \A i : i \in 1 .. h <=> i \in 1 .. k \/ i = h
      BY <2>1
  <2>7. ToSet(r[h]) = UNION {ToSet(opening[ids[i]]) : i \in 1 .. h}
      BY <1>6, <2>2, <2>5, <2>6
  <2> QED  BY <2>1, <2>5, <2>7
<1>7. n \in I
  <2> HIDE DEF I
  <2>1. \A k \in 0 .. n : k \in I
      BY ONLY n \in Nat, <1>5, <1>6, Filters!NatsOfSet
  <2>2. n \in 0 .. n
      OBVIOUS
  <2> QED  BY <2>1, <2>2
<1>8. Opened(opening, ids) = r[n]
    BY <1>3, OpenedFolds
<1>9. ToSet(r[n]) = UNION {ToSet(opening[ids[i]]) : i \in 1 .. n}
    BY <1>7
<1>10. UNION {ToSet(opening[ids[i]]) : i \in 1 .. n} = UNION {ToSet(opening[d]) : d \in ToSet(ids)}
  <2>1. ASSUME NEW x PROVE (\E i \in 1 .. n : x \in ToSet(opening[ids[i]])) <=> \E d \in ToSet(ids) : x \in ToSet(opening[d])
      BY ONLY <1>2
  <2> QED  BY ONLY <2>1
<1> QED  BY ONLY <1>8, <1>9, <1>10

\* The sections of some chunks.
SectionsOf(chunks) == {x[3] : x \in ToSet(chunks)}

\* What an overview shows of a document d, of which it takes o out of the titles of
\* the sections all.
LEMMA TitlesAreSpread ==
    ASSUME NEW d, NEW v, NEW all \in Seq(Nat), NEW b \in Nat \ {0},
           NEW c \in ToSet(Spread(Titles(d, v, all), b))
    PROVE  /\ c[1] = d /\ c[2] = v /\ c[4] = 1
           /\ Cardinality(SectionsOf(Spread(Titles(d, v, all), b))) <= b
           /\ all[1] \in SectionsOf(Spread(Titles(d, v, all), b))
           /\ \A k \in DOMAIN all : \A m \in k .. Len(all) :
                 (\A j \in k .. m : all[j] \notin SectionsOf(Spread(Titles(d, v, all), b)))
                    => (m - k + 1) * b < Len(all)
<1>0. PICK o, shown : o = Spread(Titles(d, v, all), b) /\ shown = SectionsOf(o)
    OBVIOUS
<1>00. shown = {x[3] : x \in ToSet(o)} /\ c \in ToSet(o)
    BY <1>0 DEF SectionsOf
<1>1. PICK T : T = {d} \X {v} \X Nat \X {1}
    OBVIOUS
<1>2. PICK n \in Nat : n = Len(all) /\ DOMAIN all = 1 .. n /\ \A k \in 1 .. n : all[k] \in Nat
    BY Elements
<1>3. PICK rows : rows = Titles(d, v, all)
    OBVIOUS
<1>4. rows \in Seq(T) /\ Len(rows) = n /\ DOMAIN rows = 1 .. n /\ \A k \in 1 .. n : rows[k] = <<d, v, all[k], 1>>
  <2>1. \A k \in 1 .. n : <<d, v, all[k], 1>> \in T
      BY <1>1, <1>2
  <2>2. rows = [k \in 1 .. n |-> <<d, v, all[k], 1>>]
      BY <1>2, <1>3 DEF Titles
  <2> QED  BY <2>1, <2>2
<1>5. /\ o \in Seq(T) /\ Len(o) <= b /\ ToSet(o) \subseteq ToSet(rows)
      /\ rows # <<>> => rows[1] \in ToSet(o)
      /\ \A k \in DOMAIN rows : \A m \in k .. Len(rows) :
            (\A j \in k .. m : rows[j] \notin ToSet(o)) => (m - k + 1) * b < Len(rows)
  <2>1. o = Spread(rows, b)
      BY <1>0, <1>3
  <2> QED  BY <1>4, <2>1, SpreadTakes
<1>6. PICK p \in 1 .. n : c = <<d, v, all[p], 1>>
  <2>1. c \in ToSet(rows)
      BY <1>00, <1>5
  <2> QED  BY <1>4, <2>1 DEF ToSet
<1>7. \A k \in 1 .. n : rows[k] \in ToSet(o) => all[k] \in shown
  <2> SUFFICES ASSUME NEW k \in 1 .. n, rows[k] \in ToSet(o) PROVE all[k] \in shown
      OBVIOUS
  <2>1. rows[k][3] = all[k]
      BY <1>4
  <2> QED  BY <1>00, <2>1
<1>8. all[1] \in shown
  <2>1. 1 \in 1 .. n /\ rows # <<>>
      BY <1>4
  <2> QED  BY <1>5, <1>7, <2>1
<1>9. IsFiniteSet(shown) /\ Cardinality(shown) <= b
  <2>1. PICK l \in Nat : l = Len(o) /\ ToSet(o) = {o[i] : i \in 1 .. l}
      BY <1>5, Elements
  <2> DEFINE f == [i \in 1 .. l |-> o[i][3]]
  <2>2. shown = {f[i] : i \in 1 .. l}
      BY <1>00, <2>1
  <2>3. IsFiniteSet(1 .. l) /\ Cardinality(1 .. l) = l
    <3>1. 1 \in Int /\ l \in Int /\ (IF 1 > l THEN 0 ELSE l - 1 + 1) = l
        OBVIOUS
    <3> QED  BY <3>1, FS_Interval
  <2>4. f \in Surjection(1 .. l, shown)
    <3>1. f \in [1 .. l -> shown] /\ \A y \in shown : \E i \in 1 .. l : f[i] = y
        BY <2>2
    <3> HIDE DEF f
    <3> QED  BY <3>1 DEF Surjection
  <2>5. IsFiniteSet(shown) /\ Cardinality(shown) <= l
    <3> HIDE DEF f
    <3> QED  BY <2>3, <2>4, FS_Surjection
  <2>6. PICK e \in Nat : e = Cardinality(shown)
      BY <2>5, FS_CardinalityType
  <2> QED  BY <1>5, <2>1, <2>5, <2>6
<1>10. ASSUME NEW k \in 1 .. n, NEW m \in k .. n, \A j \in k .. m : all[j] \notin shown
       PROVE  (m - k + 1) * b < n
  <2>1. \A j \in k .. m : j \in 1 .. n
      OBVIOUS
  <2>2. \A j \in k .. m : rows[j] \notin ToSet(o)
      BY <1>7, <1>10, <2>1
  <2> QED  BY <1>4, <1>5, <2>2
<1>11. \A k \in DOMAIN all : \A m \in k .. Len(all) :
          (\A j \in k .. m : all[j] \notin shown) => (m - k + 1) * b < Len(all)
    BY <1>2, <1>10
<1>12. c[1] = d /\ c[2] = v /\ c[4] = 1
    BY <1>6
<1> QED  BY ONLY <1>0, <1>8, <1>9, <1>11, <1>12

-----------------------------------------------------------------------------
(* Overview: the hits are spread *)

\* The overview is spread when it is made,
LEMMA OverviewGives == AnsweringInv /\ Overview => OverviewIsSpread'
<1> SUFFICES ASSUME AnsweringInv, Overview PROVE OverviewIsSpread'
    OBVIOUS
<1>1. /\ UNCHANGED <<library, docs, scope>> /\ scope # <<>> /\ LibraryInv
      /\ scope \in Seq(Docs) /\ library' = library
    BY DEF Overview, Turn, AnsweringInv, ControlInv, ScopeInv, CorpusInv, corpus
<1>2. PICK b \in Nat \ {0} : b = Budget(Len(scope))
  <2>1. PICK n \in Nat \ {0} : n = Len(scope)
      BY <1>1
  <2> QED  BY <2>1, Shares
<1>3. PICK opening : opening = [d \in Docs |-> Spread(Openings(d), b)]
    OBVIOUS
<1>4. ToSet(scope) \subseteq Docs /\ ToSet(scope) \in SUBSET Nat /\ IsFiniteSet(ToSet(scope))
  <2>1. ToSet(scope) \subseteq Docs
      BY <1>1, Elements
  <2> QED  BY <2>1, AnsweringAssumption, FS_Subset
<1>5. PICK D, ids : D = ToSet(scope) /\ ids = InOrder(ToSet(scope))
    OBVIOUS
<1>6. ids \in Seq(D) /\ ToSet(ids) \subseteq Docs
  <2>1. ids \in Seq(D)
      BY <1>4, <1>5, InOrderStays
  <2>2. ToSet(ids) \subseteq D
      BY <2>1, Elements
  <2> QED  BY <1>4, <1>5, <2>1, <2>2
<1>7. \A d \in Docs : /\ opening[d] = Spread(Openings(d), b)
                      /\ opening[d] \in Seq(ChunksFrom(library, {d}))
                      /\ opening[d] \in Seq(Findable \cup ChunksFrom(library, Docs))
  <2> SUFFICES ASSUME NEW d \in Docs
               PROVE  /\ opening[d] = Spread(Openings(d), b)
                      /\ opening[d] \in Seq(ChunksFrom(library, {d}))
                      /\ opening[d] \in Seq(Findable \cup ChunksFrom(library, Docs))
      OBVIOUS
  <2>1. opening[d] = Spread(Openings(d), b)
      BY <1>3
  <2>2. Spread(Openings(d), b) \in Seq(ChunksFrom(library, {d}))
      BY <1>1, OpeningsStay
  <2>3. ChunksFrom(library, {d}) \subseteq ChunksFrom(library, Docs)
      BY FromWider
  <2>4. Spread(Openings(d), b) \in Seq(Findable \cup ChunksFrom(library, Docs))
    <3>1. ChunksFrom(library, {d}) \subseteq Findable \cup ChunksFrom(library, Docs)
        BY <2>3
    <3> QED  BY <2>2, <3>1, WiderSeq
  <2> QED  BY <2>1, <2>2, <2>4
<1>8. hits' = Opened(opening, ids)
    BY <1>2, <1>3, <1>5 DEF Overview
<1>9. PICK T : T = Findable \cup ChunksFrom(library, Docs)
    OBVIOUS
<1>10. hits' \in Seq(T) /\ ToSet(hits') = UNION {ToSet(opening[d]) : d \in ToSet(ids)}
  <2>1. D \subseteq Docs /\ \A d \in D : opening[d] \in Seq(T)
      BY <1>4, <1>5, <1>7, <1>9
  <2>2. Opened(opening, ids) \in Seq(T)
      BY <1>6, <2>1, OpenedStay
  <2>3. ToSet(Opened(opening, ids)) = UNION {ToSet(opening[d]) : d \in ToSet(ids)}
      BY <1>6, <2>1, OpenedElements
  <2> QED  BY <1>8, <2>2, <2>3
<1>11. \A d \in Docs : \A x \in ToSet(opening[d]) : x[1] = d
  <2> SUFFICES ASSUME NEW d \in Docs, NEW x \in ToSet(opening[d]) PROVE x[1] = d
      OBVIOUS
  <2>1. x \in ChunksFrom(library, {d})
      BY <1>7, Elements
  <2> QED  BY <2>1 DEF ChunksFrom
<1>12. SUFFICES ASSUME NEW i \in DOMAIN hits'
       PROVE LET d == hits'[i][1]  v == hits'[i][2]
                 shown == {hits'[j][3] : j \in {j \in DOMAIN hits' : hits'[j][1] = d}}
                 all == WithPassages(library[d][v])
             IN /\ hits'[i][4] = 1
                /\ Cardinality(shown) <= b
                /\ all[1] \in shown
                /\ \A k \in DOMAIN all : \A m \in k .. Len(all) :
                     (\A j \in k .. m : all[j] \notin shown) => (m - k + 1) * b < Len(all)
    BY <1>1, <1>2 DEF OverviewIsSpread
<1>13. PICK c : c = hits'[i]
    OBVIOUS
<1>14. PICK d \in ToSet(ids) : c \in ToSet(opening[d])
  <2>1. c \in ToSet(hits')
      BY <1>13 DEF ToSet
  <2> QED  BY <1>10, <2>1
<1>15. d \in Docs /\ c[1] = d
    BY <1>6, <1>11, <1>14
<1>16. PICK shown : shown = {hits'[j][3] : j \in {j \in DOMAIN hits' : hits'[j][1] = d}}
    OBVIOUS
<1>17. PICK o : o = opening[d]
    OBVIOUS
<1>18. shown = SectionsOf(o)
  <2>1. ASSUME NEW j \in DOMAIN hits', hits'[j][1] = d PROVE hits'[j] \in ToSet(o)
    <3>1. hits'[j] \in ToSet(hits')
        BY DEF ToSet
    <3>2. PICK e \in ToSet(ids) : hits'[j] \in ToSet(opening[e])
        BY <1>10, <3>1
    <3>3. e = d
        BY <1>6, <1>11, <2>1, <3>2
    <3> QED  BY <1>17, <3>2, <3>3
  <2>2. ASSUME NEW x \in ToSet(o) PROVE \E j \in DOMAIN hits' : hits'[j] = x /\ hits'[j][1] = d
    <3>1. x \in ToSet(hits') /\ x[1] = d
        BY <1>10, <1>11, <1>14, <1>15, <1>17
    <3> QED  BY <3>1 DEF ToSet
  <2>3. \A y : y \in shown <=> \E x \in ToSet(o) : y = x[3]
      BY ONLY <1>16, <2>1, <2>2
  <2> QED  BY ONLY <2>3 DEF SectionsOf
<1>19. Openings(d) # <<>>
  <2>1. o \in Seq(ChunksFrom(library, {d})) /\ o = Spread(Openings(d), b)
      BY <1>7, <1>15, <1>17
  <2>2. SUFFICES ASSUME Openings(d) = <<>> PROVE FALSE
      OBVIOUS
  <2>3. \A S : <<>> \in Seq(S)
      OBVIOUS
  <2>4. ToSet(Spread(<<>>, b)) \subseteq ToSet(<<>>)
      BY <2>3, SpreadTakes
  <2>5. ToSet(<<>>) = {}
      BY NoElements
  <2> QED  BY <1>14, <1>17, <2>1, <2>2, <2>4, <2>5
<1>20. PICK w \in DOMAIN library[d] :
          /\ WithPassages(library[d][w]) \in Seq(Nat)
          /\ Openings(d) = Titles(d, w, WithPassages(library[d][w]))
    BY <1>1, <1>15, <1>19, OpeningsAre
<1>21. PICK all : all = WithPassages(library[d][w])
    OBVIOUS
<1>22. all \in Seq(Nat) /\ o = Spread(Titles(d, w, all), b) /\ c \in ToSet(o)
    BY <1>7, <1>14, <1>15, <1>17, <1>20, <1>21
<1>23. /\ c[1] = d /\ c[2] = w /\ c[4] = 1
       /\ Cardinality(shown) <= b
       /\ all[1] \in shown
       /\ \A k \in DOMAIN all : \A m \in k .. Len(all) :
             (\A j \in k .. m : all[j] \notin shown) => (m - k + 1) * b < Len(all)
  <2>1. c \in ToSet(Spread(Titles(d, w, all), b))
      BY <1>22
  <2>2. /\ c[1] = d /\ c[2] = w /\ c[4] = 1
        /\ Cardinality(SectionsOf(Spread(Titles(d, w, all), b))) <= b
        /\ all[1] \in SectionsOf(Spread(Titles(d, w, all), b))
        /\ \A k \in DOMAIN all : \A m \in k .. Len(all) :
              (\A j \in k .. m : all[j] \notin SectionsOf(Spread(Titles(d, w, all), b)))
                 => (m - k + 1) * b < Len(all)
      BY <1>22, <2>1, TitlesAreSpread
  <2>3. shown = SectionsOf(Spread(Titles(d, w, all), b))
      BY <1>18, <1>22
  <2> QED  BY ONLY <2>2, <2>3
<1> QED  BY <1>13, <1>15, <1>16, <1>21, <1>23

\* OverviewIsSpread, of any hits.
SpreadInv(lib, found, documents) ==
    \A i \in DOMAIN found :
        LET d == found[i][1]  v == found[i][2]
            shown == {found[j][3] : j \in {j \in DOMAIN found : found[j][1] = d}}
            all == WithPassages(lib[d][v])
            budget == Budget(Len(documents))
        IN /\ found[i][4] = 1
           /\ Cardinality(shown) <= budget
           /\ all[1] \in shown
           /\ \A k \in DOMAIN all : \A m \in k .. Len(all) :
                (\A j \in k .. m : all[j] \notin shown) => (m - k + 1) * budget < Len(all)

\* OverviewIsSpread depends on the kind, the library, the hits and the scope only,
LEMMA SpreadsOf ==
    /\ OverviewIsSpread <=> (kind = "summary" => SpreadInv(library, hits, scope))
    /\ OverviewIsSpread' <=> (kind' = "summary" => SpreadInv(library', hits', scope'))
BY DEF OverviewIsSpread, SpreadInv

\* A summary takes none of the steps of a search, and its hits are spread.
OverviewInv == (pc \in {"ranked", "matched"} => kind # "summary") /\ OverviewIsSpread

\* holds of no hits,
LEMMA NoHitsYet == hits = <<>> => OverviewIsSpread
BY DEF OverviewIsSpread

\* and stays while they do.
LEMMA OverviewKept ==
    ASSUME OverviewInv, UNCHANGED <<library, kind, hits, scope>>,
           pc' = pc \/ pc' \notin {"ranked", "matched"} \/ kind # "summary"
    PROVE  OverviewInv'
<1>1. (pc \in {"ranked", "matched"} => kind # "summary")'
    BY DEF OverviewInv
<1>2. /\ library' = library /\ kind' = kind /\ hits' = hits /\ scope' = scope
      /\ OverviewIsSpread
    BY DEF OverviewInv
<1>3. OverviewIsSpread'
    BY ONLY <1>2, SpreadsOf
<1> QED  BY <1>1, <1>3 DEF OverviewInv

\* Every step keeps the overview spread.
LEMMA OverviewStep == AnsweringInv /\ OverviewInv /\ [Next]_vars => OverviewInv'
<1> SUFFICES ASSUME AnsweringInv, OverviewInv, [Next]_vars PROVE OverviewInv'
    OBVIOUS
<1>1. CASE Environment
  <2>1. library' = library /\ UNCHANGED turn
      BY <1>1 DEF Environment, Ingest, Delete, FindSelection, StoreSelection
  <2> QED  BY <2>1, OverviewKept DEF turn
<1>2. CASE ReadSelection \/ NothingSelected \/ NothingReady \/ Abstain \/ Expand
  <2>1. UNCHANGED <<library, kind, hits, scope>> /\ pc' \notin {"ranked", "matched"}
      BY <1>2 DEF ReadSelection, NothingSelected, NothingReady, Abstain, Expand, Turn, corpus
  <2> QED  BY <2>1, OverviewKept
<1>3. ASSUME NEW ids \in Lists(Docs), ResolveQuery(ids) PROVE OverviewInv'
  <2>1. UNCHANGED <<library, kind, hits, scope>> /\ pc' \notin {"ranked", "matched"}
      BY <1>3 DEF ResolveQuery, Turn, corpus
  <2> QED  BY <2>1, OverviewKept
<1>4. CASE FindReady
  <2>1. hits' = <<>> /\ pc' \notin {"ranked", "matched"}
      BY <1>4 DEF FindReady, Turn, AnsweringInv, ControlInv
  <2> QED  BY <2>1, NoHitsYet DEF OverviewInv, OverviewIsSpread
<1>5. CASE RankByVectors \/ RankByWords
  <2>1. UNCHANGED <<library, kind, hits, scope>> /\ kind # "summary"
      BY <1>5 DEF RankByVectors, RankByWords, Turn, corpus, OverviewInv
  <2> QED  BY <2>1, OverviewKept
<1>6. CASE Detail
  <2>1. kind # "summary" /\ kind' = kind
      BY <1>6 DEF Detail, Turn, OverviewInv
  <2> QED  BY <2>1 DEF OverviewInv, OverviewIsSpread
<1>7. CASE Overview
  <2>1. OverviewIsSpread' /\ pc' \notin {"ranked", "matched"}
      BY <1>7, OverviewGives DEF Overview, Turn
  <2> QED  BY <2>1 DEF OverviewInv
<1>8. ASSUME NEW s \in Mentions, Answer(s) PROVE OverviewInv'
  <2>1. UNCHANGED <<library, kind, hits, scope>> /\ pc' \notin {"ranked", "matched"}
      BY <1>8 DEF Answer, Turn, corpus
  <2> QED  BY <2>1, OverviewKept
<1>9. CASE UNCHANGED vars
    BY <1>9, OverviewKept DEF vars, corpus, turn
<1> QED  BY <1>1, <1>2, <1>3, <1>4, <1>5, <1>6, <1>7, <1>8, <1>9 DEF Next

\* A summary shows of each document in its hits the opening passage of the first section
\* that has one, no more sections than the document's share of summary_sections, and
\* never skips as many in a row as would be that share of them (retrieve_overview and
\* the stride in retriever.py).
THEOREM OverviewsAreSpread == Spec => []OverviewIsSpread
<1>1. Init => OverviewInv
    BY DEF Init, OverviewInv, OverviewIsSpread
<1>2. OverviewInv => OverviewIsSpread
    BY DEF OverviewInv
<1> QED  BY <1>1, <1>2, AnsweringInit, AnsweringStep, OverviewStep, PTL DEF Spec
================================================================================
