------------------------------- MODULE FoldLaws -------------------------------
(***************************************************************************)
(* What a left fold over a sequence computes, for the proofs about the     *)
(* loops of the program.  A loop is FoldLeft(LAMBDA acc, x : Op(ctx, acc,  *)
(* x), base, s), where ctx is what the loop body reads beside its          *)
(* accumulator.  A proof takes this module by INSTANCE with its loop body  *)
(* for Op, and gets the run of the loop: the accumulators after each       *)
(* element, as a function it can reason about by induction.  The module    *)
(* extends no more than it must: every instance repeats what it extends.   *)
(***************************************************************************)
EXTENDS Integers, Sequences, WellFoundedInduction

CONSTANT Op(_, _, _)

Greatest(t) == CHOOSE i \in t : \A j \in t : i >= j

\* What FoldLeft stands for when its definition and those it rests on are expanded.
Fold(ctx, base, s) ==
    LET run[t \in SUBSET DOMAIN s] ==
            IF t = {} THEN base ELSE Op(ctx, run[t \ {Greatest(t)}], s[Greatest(t)])
    IN  run[DOMAIN s]

-----------------------------------------------------------------------------
(* Induction over the numbers of a set *)

LEMMA NatsOfSet ==
    ASSUME NEW n \in Nat, NEW T, 0 \in T, \A k \in 0 .. n - 1 : k \in T => k + 1 \in T
    PROVE  \A k \in 0 .. n : k \in T
<1> DEFINE rest == {k \in Nat : k <= n /\ k \notin T}
<1> SUFFICES ASSUME rest # {} PROVE FALSE
    OBVIOUS
<1>1. PICK m \in rest : \A k \in rest : ~(<<k, m>> \in OpToRel(<, Nat))
    BY NatLessThanWellFounded, WFMin
<1>2. m \in Nat /\ m <= n /\ m # 0 /\ m \notin T
    OBVIOUS
<1>3. m - 1 \in 0 .. n - 1 /\ m - 1 < m /\ (m - 1) + 1 = m
    BY <1>2
<1>4. m - 1 \notin rest
    BY <1>1, <1>2, <1>3 DEF OpToRel
<1> QED  BY <1>2, <1>3, <1>4

\* Induction over the sequences over a set, which are built by appending.
LEMMA SeqsOfSet ==
    ASSUME NEW T, NEW A, <<>> \in A, \A s \in Seq(T), x \in T : s \in A => Append(s, x) \in A
    PROVE  \A s \in Seq(T) : s \in A
<1> SUFFICES ASSUME NEW s \in Seq(T) PROVE s \in A
    OBVIOUS
<1> DEFINE I == {k \in Nat : \A t \in Seq(T) : Len(t) = k => t \in A}
<1>1. PICK n \in Nat : n = Len(s)
    OBVIOUS
<1>2. 0 \in I
    OBVIOUS
<1>3. ASSUME NEW k \in 0 .. n - 1, k \in I PROVE k + 1 \in I
  <2>1. SUFFICES ASSUME NEW t \in Seq(T), Len(t) = k + 1 PROVE t \in A
      OBVIOUS
  <2>2. t # <<>>
      BY <2>1
  <2>3. PICK u \in Seq(T), x \in T : t = Append(u, x)
    <3> DEFINE u == [i \in 1 .. k |-> t[i]]
    <3>1. u \in Seq(T) /\ Len(u) = k /\ t[k + 1] \in T
        BY <2>1
    <3>2. t = Append(u, t[k + 1])
        BY <2>1, <3>1
    <3> QED  BY <3>1, <3>2
  <2>4. Len(u) = k
      BY <2>1, <2>3
  <2> QED  BY <1>3, <2>3, <2>4
<1>4. \A k \in 0 .. n : k \in I
  <2> HIDE DEF I
  <2> QED  BY <1>2, <1>3, NatsOfSet
<1> QED  BY <1>1, <1>4

LEMMA GreatestOfPrefix ==
    ASSUME NEW m \in Nat, NEW t \in SUBSET (1 .. m + 1), m + 1 \in t
    PROVE  Greatest(t) = m + 1
<1>1. \A x \in t : x \in 1 .. m + 1
    OBVIOUS
<1>2. \A y \in t : y <= m + 1
    BY <1>1
<1>3. \A x \in t : (\A y \in t : y <= x) => x = m + 1
    BY <1>1
<1>4. PICK x \in t : x = Greatest(t) /\ \A y \in t : y <= x
    BY <1>2 DEF Greatest
<1> QED  BY <1>3, <1>4

-----------------------------------------------------------------------------
(* The recursive function by which FoldLeft is defined exists *)

Step(ctx, base, s, f, t) ==
    IF t = {} THEN base ELSE Op(ctx, f[t \ {Greatest(t)}], s[Greatest(t)])

Computes(ctx, base, s, f, S) == f = [t \in SUBSET S |-> Step(ctx, base, s, f, t)]

LEMMA Unfold ==
    ASSUME NEW ctx, NEW base, NEW s
    PROVE  Fold(ctx, base, s) = (CHOOSE f : Computes(ctx, base, s, f, DOMAIN s))[DOMAIN s]
BY DEF Fold, Computes, Step

LEMMA ExtendsByOne ==
    ASSUME NEW ctx, NEW base, NEW s, NEW m \in Nat, NEW f, Computes(ctx, base, s, f, 1 .. m)
    PROVE  \E g : Computes(ctx, base, s, g, 1 .. m + 1)
<1> DEFINE g == [t \in SUBSET (1 .. m + 1) |->
                   IF m + 1 \in t THEN Op(ctx, f[t \ {m + 1}], s[m + 1]) ELSE f[t]]
<1>1. ASSUME NEW t \in SUBSET (1 .. m + 1), m + 1 \in t
      PROVE  g[t] = Step(ctx, base, s, g, t)
  <2>1. Greatest(t) = m + 1
      BY <1>1, GreatestOfPrefix
  <2>2. t \ {m + 1} \in SUBSET (1 .. m + 1) /\ m + 1 \notin t \ {m + 1}
      OBVIOUS
  <2>3. g[t \ {m + 1}] = f[t \ {m + 1}]
      BY <2>2
  <2>4. g[t] = Op(ctx, f[t \ {m + 1}], s[m + 1])
      BY <1>1
  <2> HIDE DEF g
  <2> QED  BY <1>1, <2>1, <2>3, <2>4 DEF Step
<1>2. ASSUME NEW t \in SUBSET (1 .. m + 1), m + 1 \notin t
      PROVE  g[t] = Step(ctx, base, s, g, t)
  <2>1. t \in SUBSET (1 .. m)
      BY <1>2
  <2>2. g[t] = f[t] /\ f[t] = Step(ctx, base, s, f, t)
      BY <1>2, <2>1 DEF Computes
  <2>3. t # {} => g[t \ {Greatest(t)}] = f[t \ {Greatest(t)}]
      BY <1>2
  <2> HIDE DEF g
  <2> QED  BY <2>2, <2>3 DEF Step
<1>3. g = [t \in SUBSET (1 .. m + 1) |-> Step(ctx, base, s, g, t)]
  <2>1. \A t \in SUBSET (1 .. m + 1) : g[t] = Step(ctx, base, s, g, t)
      BY <1>1, <1>2
  <2>2. g = [t \in SUBSET (1 .. m + 1) |-> g[t]]
      OBVIOUS
  <2> HIDE DEF g
  <2> QED  BY <2>1, <2>2
<1> HIDE DEF g
<1> QED  BY <1>3 DEF Computes

LEMMA Computable ==
    ASSUME NEW ctx, NEW base, NEW s, NEW n \in Nat
    PROVE  \E f : Computes(ctx, base, s, f, 1 .. n)
<1> DEFINE T == {m \in Nat : \E f : Computes(ctx, base, s, f, 1 .. m)}
<1>1. 0 \in T
  <2> DEFINE f == [t \in SUBSET (1 .. 0) |-> base]
  <2>1. \A t \in SUBSET (1 .. 0) : t = {}
      OBVIOUS
  <2>2. f = [t \in SUBSET (1 .. 0) |-> Step(ctx, base, s, f, t)]
      BY <2>1 DEF Step
  <2> HIDE DEF f
  <2> QED  BY <2>2 DEF Computes
<1>2. \A m \in 0 .. n - 1 : m \in T => m + 1 \in T
    BY ExtendsByOne
<1>3. \A k \in 0 .. n : k \in T
  <2> HIDE DEF T
  <2> QED  BY <1>1, <1>2, NatsOfSet
<1> QED  BY <1>3

-----------------------------------------------------------------------------
(* The run of a loop *)

IsRun(ctx, base, s, n, r) ==
    /\ r[0] = base
    /\ \A k \in 1 .. n : r[k] = Op(ctx, r[k - 1], s[k])

\* The fold is the last accumulator of a run that starts with the base.
LEMMA FoldRuns ==
    ASSUME NEW ctx, NEW base, NEW s, NEW n \in Nat, DOMAIN s = 1 .. n
    PROVE  \E r : IsRun(ctx, base, s, n, r) /\ Fold(ctx, base, s) = r[n]
<1> DEFINE f == CHOOSE f : Computes(ctx, base, s, f, 1 .. n)
           r == [k \in 0 .. n |-> f[1 .. k]]
<1>1. Computes(ctx, base, s, f, 1 .. n)
    BY Computable
<1>2. Fold(ctx, base, s) = f[1 .. n]
    BY Unfold
<1> HIDE DEF f
<1>3. \A t \in SUBSET (1 .. n) : f[t] = Step(ctx, base, s, f, t)
    BY <1>1 DEF Computes
<1>4. r[0] = base
  <2>1. 1 .. 0 = {} /\ 0 \in 0 .. n
      OBVIOUS
  <2>2. {} \in SUBSET (1 .. n)
      OBVIOUS
  <2>3. f[{}] = base
      BY <1>3, <2>2 DEF Step
  <2> QED  BY <2>1, <2>3
<1>5. ASSUME NEW k \in 1 .. n PROVE r[k] = Op(ctx, r[k - 1], s[k])
  <2>1. Greatest(1 .. k) = k
    <3>1. k - 1 \in Nat /\ k \in 1 .. k /\ (k - 1) + 1 = k
        OBVIOUS
    <3> QED  BY <3>1, GreatestOfPrefix
  <2>a. (1 .. k) \ {k} = 1 .. k - 1
      OBVIOUS
  <2>b. 1 .. k \in SUBSET (1 .. n) /\ k \in 1 .. k
      OBVIOUS
  <2>c. k \in 0 .. n /\ k - 1 \in 0 .. n
      OBVIOUS
  <2>2. /\ 1 .. k \in SUBSET (1 .. n) /\ 1 .. k # {}
        /\ (1 .. k) \ {k} = 1 .. k - 1
        /\ k \in 0 .. n /\ k - 1 \in 0 .. n
      BY <2>a, <2>b, <2>c
  <2>3. f[1 .. k] = Op(ctx, f[1 .. k - 1], s[k])
      BY <1>3, <2>1, <2>2 DEF Step
  <2> QED  BY <2>2, <2>3
<1>6. Fold(ctx, base, s) = r[n]
    BY <1>2
<1> HIDE DEF r
<1>7. IsRun(ctx, base, s, n, r)
    BY <1>4, <1>5 DEF IsRun
<1> QED  BY <1>6, <1>7

\* A loop over nothing leaves the base.
LEMMA FoldOfNothing ==
    ASSUME NEW ctx, NEW base PROVE Fold(ctx, base, <<>>) = base
<1>1. PICK none : none = <<>> /\ DOMAIN none = 1 .. 0
    OBVIOUS
<1>2. PICK r : IsRun(ctx, base, none, 0, r) /\ Fold(ctx, base, none) = r[0]
    BY <1>1, FoldRuns
<1> QED  BY <1>1, <1>2 DEF IsRun

\* What holds of the base, and after each element if it held before, holds of the fold.
LEMMA FoldStaysIn ==
    ASSUME NEW ctx, NEW base, NEW s, NEW n \in Nat, DOMAIN s = 1 .. n, NEW T, NEW A,
           \A i \in 1 .. n : s[i] \in T,
           base \in A, \A acc \in A, x \in T : Op(ctx, acc, x) \in A
    PROVE  Fold(ctx, base, s) \in A
<1>1. PICK r : IsRun(ctx, base, s, n, r) /\ Fold(ctx, base, s) = r[n]
    BY FoldRuns
<1> DEFINE I == {k \in Nat : r[k] \in A}
<1>2. 0 \in I
    BY <1>1 DEF IsRun
<1>3. ASSUME NEW k \in 0 .. n - 1, k \in I PROVE k + 1 \in I
  <2>1. k + 1 \in 1 .. n /\ (k + 1) - 1 = k /\ k + 1 \in Nat
      OBVIOUS
  <2>2. r[k + 1] = Op(ctx, r[k], s[k + 1])
      BY <1>1, <2>1 DEF IsRun
  <2> QED  BY <1>3, <2>1, <2>2
<1>4. n \in I
  <2>1. \A k \in 0 .. n : k \in I
    <3> HIDE DEF I
    <3> QED  BY <1>2, <1>3, NatsOfSet
  <2> QED  BY <2>1
<1> QED  BY <1>1, <1>4

\* One element more is one more turn of the loop.
LEMMA FoldOfAppend ==
    ASSUME NEW ctx, NEW base, NEW T, NEW s \in Seq(T), NEW x \in T
    PROVE  Fold(ctx, base, Append(s, x)) = Op(ctx, Fold(ctx, base, s), x)
<1>a. PICK w : w = Append(s, x)
    OBVIOUS
<1>0. \A v, k : k \in Nat /\ DOMAIN v = 1 .. k =>
          \E r : IsRun(ctx, base, v, k, r) /\ Fold(ctx, base, v) = r[k]
    BY FoldRuns
<1>1. PICK n \in Nat : n = Len(s)
    OBVIOUS
<1>2. DOMAIN s = 1 .. n
    BY <1>1
<1>3. w \in Seq(T) /\ Len(w) = n + 1 /\ w[n + 1] = x /\ \A i \in 1 .. n : w[i] = s[i]
    BY <1>a, <1>1
<1>4. PICK m \in Nat : m = n + 1 /\ DOMAIN w = 1 .. m
  <2>1. DOMAIN w = 1 .. Len(w)
      BY <1>3
  <2> QED  BY <1>3, <2>1
<1>5. PICK r : IsRun(ctx, base, s, n, r) /\ Fold(ctx, base, s) = r[n]
    BY <1>2, FoldRuns
<1>6. PICK t : IsRun(ctx, base, w, m, t) /\ Fold(ctx, base, w) = t[m]
    BY <1>0, <1>4
<1> DEFINE I == {k \in Nat : t[k] = r[k]}
<1>7. 0 \in I
    BY <1>5, <1>6 DEF IsRun
<1>8. ASSUME NEW k \in 0 .. n - 1, k \in I PROVE k + 1 \in I
  <2>1. k + 1 \in 1 .. n /\ k + 1 \in 1 .. m /\ (k + 1) - 1 = k /\ k + 1 \in Nat
      BY <1>4
  <2>2. r[k + 1] = Op(ctx, r[k], s[k + 1])
      BY <1>5, <2>1 DEF IsRun
  <2>3. t[k + 1] = Op(ctx, t[k], w[k + 1])
      BY <1>6, <2>1 DEF IsRun
  <2>4. w[k + 1] = s[k + 1]
      BY <1>3, <2>1
  <2>5. t[k] = r[k]
      BY <1>8
  <2> QED  BY <2>1, <2>2, <2>3, <2>4, <2>5
<1>9. n \in I
  <2>1. \A k \in 0 .. n : k \in I
    <3> HIDE DEF I
    <3> QED  BY <1>7, <1>8, NatsOfSet
  <2> QED  BY <2>1
<1>10. t[m] = Op(ctx, t[n], x)
  <2>1. m \in 1 .. m /\ m - 1 = n /\ w[m] = x
      BY <1>3, <1>4
  <2> QED  BY <1>6, <2>1 DEF IsRun
<1> QED  BY <1>a, <1>5, <1>6, <1>9, <1>10
=============================================================================
