------------------------- MODULE DocumentStoreProofs -------------------------
(***************************************************************************)
(* Proofs about DocumentStore, for any number of uploads, contents and     *)
(* faults and any limits.                                                  *)
(***************************************************************************)
EXTENDS DocumentStore, FiniteSetTheorems, NaturalsInduction, WellFoundedInduction, TLAPS

-----------------------------------------------------------------------------
(* Types.  A request that asks for, or restores, the object of a known     *)
(* document has one to name.                                               *)

NamesExisting ==
    \A u \in Uploads : pc[u] \in {"known", "repairing"} => existing[u] \in Uploads

TypeInv == TypeOK /\ NamesExisting

LEMMA TypeInit == Init => TypeInv
BY LimitAssumption DEF Init, TypeInv, TypeOK, NamesExisting, PCs, Locked, Answered

LEMMA FaultTyped ==
    ASSUME faults \in 0 .. MaxFaults, Fault
    PROVE  faults' \in 0 .. MaxFaults /\ faults' # 0
BY LimitAssumption DEF Fault

\* A request that only moves, and frees the lock or keeps it.
LEMMA MoveTyped ==
    ASSUME TypeInv, NEW u \in Uploads,
           NEW where \in PCs \ {"known", "repairing"}, Goto(u, where),
           lock' \in {lock, None, u},
           UNCHANGED <<row, file, content, existing, purging, late, wiped>>,
           UNCHANGED faults \/ Fault
    PROVE  TypeInv'
BY FaultTyped DEF TypeInv, TypeOK, NamesExisting, Goto

LEMMA RejectTyped ==
    ASSUME TypeInv, NEW u \in Uploads, RejectUnread(u)
    PROVE  TypeInv'
<1>1. "rejected" \in PCs \ {"known", "repairing"}
    BY DEF PCs, Answered
<1> QED  BY <1>1, MoveTyped DEF RejectUnread

LEMMA AskTyped ==
    ASSUME TypeInv, NEW u \in Uploads, NEW c \in Contents, Lookup(u, c)
    PROVE  TypeInv'
<1> USE DEF TypeInv
<1>1. "unknown" \in PCs /\ "known" \in PCs
    BY DEF PCs
<1>2. Holding(c) \subseteq Uploads
    BY DEF Holding, TypeOK
<1> QED  BY <1>1, <1>2 DEF Lookup, TypeOK, NamesExisting, Goto

LEMMA RequestTyped ==
    ASSUME TypeInv, NEW u \in Uploads, Request(u)
    PROVE  TypeInv'
<1> USE DEF TypeInv
<1>1. {"rejected", "failed", "duplicate", "waiting", "counting", "reserved", "inserted",
       "clashed", "undoing", "dead"} \subseteq PCs \ {"known", "repairing"}
    BY DEF PCs, Locked, Answered
<1>2. {"duplicate", "repairing", "resetting", "stored", "accepted"} \subseteq PCs
    BY DEF PCs, Locked, Answered
<1>3. CASE \/ RejectFile(u) \/ Validated(u) \/ RepairFails(u) \/ AnswerKnown(u)
           \/ Acquire(u) \/ RejectQuota(u) \/ Reserve(u) \/ Insert(u) \/ Clash(u) \/ PutFails(u)
           \/ CommitFails(u) \/ UndoFails(u) \/ Kill(u)
    BY <1>1, <1>3, MoveTyped
    DEF RejectFile, Validated, RepairFails, AnswerKnown, Acquire, RejectQuota, Reserve,
        Insert, Clash, PutFails, CommitFails, UndoFails, Kill, Unlock
<1>4. CASE CheckStored(u)
    BY <1>2, <1>4 DEF CheckStored, TypeOK, NamesExisting, Goto
<1>5. CASE Repair(u)
    BY <1>2, <1>5 DEF Repair, KeyOfExisting, TypeOK, NamesExisting, Goto
<1>6. CASE AnswerClash(u)
  <2>1. Holding(content[u]) \subseteq Uploads
      BY DEF Holding, TypeOK
  <2> QED  BY <1>1, <1>2, <1>6, <2>1 DEF AnswerClash, TypeOK, NamesExisting, Goto
<1>7. CASE Put(u)
    BY <1>2, <1>7 DEF Put, TypeOK, NamesExisting, Goto
<1>8. CASE PutAbandoned(u)
    BY <1>1, <1>8, FaultTyped DEF PutAbandoned, Unlock, TypeOK, NamesExisting, Goto
<1>9. CASE Commit(u)
    BY <1>2, <1>9 DEF Commit, Unlock, TypeOK, NamesExisting, Goto
<1>10. CASE CommitAnswerLost(u)
    BY <1>1, <1>10, FaultTyped DEF CommitAnswerLost, Unlock, TypeOK, NamesExisting, Goto
<1>11. CASE Undo(u)
    BY <1>1, <1>11 DEF Undo, Undone, TypeOK, NamesExisting, Goto
<1> QED
    BY <1>3, <1>4, <1>5, <1>6, <1>7, <1>8, <1>9, <1>10, <1>11 DEF Request

LEMMA WorldTyped ==
    ASSUME TypeInv, NEW d \in Uploads,
           LateWrite(d) \/ DeleteRow(d) \/ Purge(d) \/ PurgeFails(d) \/ Wipe(d)
    PROVE  TypeInv'
BY FaultTyped
DEF LateWrite, DeleteRow, Purge, PurgeFails, Wipe, TypeInv, TypeOK, NamesExisting

LEMMA TypeStep == TypeInv /\ [Next]_vars => TypeInv'
<1> SUFFICES ASSUME TypeInv, [Next]_vars PROVE TypeInv'
    OBVIOUS
<1>1. ASSUME NEW u \in Uploads, NEW c \in Contents, Lookup(u, c) PROVE TypeInv'
    BY <1>1, AskTyped
<1>2. ASSUME NEW u \in Uploads, RejectUnread(u) PROVE TypeInv'
    BY <1>2, RejectTyped
<1>3. ASSUME NEW u \in Uploads, Request(u) PROVE TypeInv'
    BY <1>3, RequestTyped
<1>4. ASSUME NEW d \in Uploads,
             LateWrite(d) \/ DeleteRow(d) \/ Purge(d) \/ PurgeFails(d) \/ Wipe(d)
      PROVE  TypeInv'
    BY <1>4, WorldTyped
<1>5. CASE UNCHANGED vars
    BY <1>5 DEF vars, TypeInv, TypeOK, NamesExisting
<1> QED  BY <1>1, <1>2, <1>3, <1>4, <1>5 DEF Next

\* Every reachable state is well formed: in particular no request asks the
\* storage for the object of a document it did not find (create_document).
THEOREM TypeCorrect == Spec => []TypeOK
<1>1. Spec => []TypeInv
    BY TypeInit, TypeStep, PTL DEF Spec
<1> QED  BY <1>1, PTL DEF TypeInv

-----------------------------------------------------------------------------
(* The quota.  The count is one statement and the row is committed several  *)
(* steps later: what makes the check hold until then is that the requests  *)
(* between the two hold the lock, hence are one, and that a delete, which  *)
(* takes no lock, only makes room.                                         *)

LockHeld == \A u \in Uploads : pc[u] \in Locked => lock = u

RoomReserved ==
    \A u \in Uploads : pc[u] \in Locked \ {"counting"} => Cardinality(row) < MaxDocs

QuotaInv == IsFiniteSet(row) /\ LockHeld /\ RoomReserved /\ DocsWithinLimit

LEMMA QuotaInit == Init => QuotaInv
BY FS_EmptySet, LimitAssumption
DEF Init, QuotaInv, LockHeld, RoomReserved, DocsWithinLimit, Locked

\* A request outside the locked part, or leaving it without committing.
LEMMA LeaveKeepsQuota ==
    ASSUME TypeInv, QuotaInv, NEW u \in Uploads,
           NEW where \in PCs \ Locked, Goto(u, where), UNCHANGED row,
           lock' = lock \/ pc[u] \in Locked \/ lock = u
    PROVE  QuotaInv'
BY DEF TypeInv, TypeOK, QuotaInv, LockHeld, RoomReserved, DocsWithinLimit, Goto

\* A request going on within the locked part.
LEMMA HoldKeepsQuota ==
    ASSUME TypeInv, QuotaInv, NEW u \in Uploads, pc[u] \in Locked,
           NEW where \in Locked, Goto(u, where), UNCHANGED <<row, lock>>,
           pc[u] # "counting" \/ Cardinality(row) < MaxDocs
    PROVE  QuotaInv'
BY DEF TypeInv, TypeOK, QuotaInv, LockHeld, RoomReserved, DocsWithinLimit, Goto

\* The row of a request that reserved room for it.
LEMMA CommitKeepsQuota ==
    ASSUME TypeInv, QuotaInv, NEW u \in Uploads, pc[u] = "stored",
           NEW where \in PCs \ Locked, Goto(u, where), row' = row \cup {u}
    PROVE  QuotaInv'
<1>1. IsFiniteSet(row) /\ Cardinality(row) \in Nat /\ Cardinality(row) < MaxDocs
    BY FS_CardinalityType DEF QuotaInv, RoomReserved, Locked
<1>2. IsFiniteSet(row') /\ Cardinality(row') <= MaxDocs
  <2>1. /\ IsFiniteSet(row \cup {u})
        /\ Cardinality(row \cup {u}) = IF u \in row THEN Cardinality(row) ELSE Cardinality(row) + 1
      BY <1>1, FS_AddElement, Zenon
  <2> QED  BY <1>1, <2>1, LimitAssumption
<1>3. \A v \in Uploads : pc'[v] \notin Locked
    BY DEF TypeInv, TypeOK, QuotaInv, LockHeld, Locked, Goto
<1> QED  BY <1>2, <1>3 DEF QuotaInv, LockHeld, RoomReserved, DocsWithinLimit

LEMMA RequestKeepsQuota ==
    ASSUME TypeInv, QuotaInv, NEW u \in Uploads, Request(u)
    PROVE  QuotaInv'
<1>1. {"rejected", "failed", "waiting", "duplicate", "repairing", "resetting", "accepted",
       "clashed", "undoing", "dead"} \subseteq PCs \ Locked
    BY DEF PCs, Locked, Answered
<1>2. {"counting", "reserved", "inserted", "stored"} \subseteq Locked
    BY DEF Locked
<1>3. CASE \/ RejectFile(u) \/ Validated(u) \/ CheckStored(u) \/ Repair(u)
           \/ RepairFails(u) \/ AnswerKnown(u) \/ AnswerClash(u) \/ Undo(u) \/ UndoFails(u)
    BY <1>1, <1>3, LeaveKeepsQuota
    DEF RejectFile, Validated, CheckStored, Repair, RepairFails, AnswerKnown, AnswerClash,
        Undo, UndoFails
<1>4. CASE \/ RejectQuota(u) \/ Clash(u) \/ PutFails(u) \/ PutAbandoned(u) \/ CommitFails(u)
    BY <1>1, <1>2, <1>4, LeaveKeepsQuota
    DEF RejectQuota, Clash, PutFails, PutAbandoned, CommitFails
<1>5. CASE Kill(u)
    BY <1>1, <1>5, LeaveKeepsQuota DEF Kill
<1>6. CASE Acquire(u)
  <2>1. \A v \in Uploads : pc[v] \notin Locked
      BY <1>6, LimitAssumption DEF Acquire, QuotaInv, LockHeld
  <2>2. \A v \in Uploads : pc'[v] \in Locked => v = u /\ pc'[v] = "counting"
      BY <1>6, <2>1 DEF Acquire, Goto, TypeInv, TypeOK
  <2> QED  BY <1>6, <2>2 DEF Acquire, QuotaInv, LockHeld, RoomReserved, DocsWithinLimit
<1>7. CASE Reserve(u)
  <2>1. Cardinality(row) \in Nat
      BY FS_CardinalityType DEF QuotaInv
  <2>2. Cardinality(row) < MaxDocs
      BY <1>7, <2>1, LimitAssumption DEF Reserve, DocsFull
  <2> QED  BY <1>2, <1>7, <2>2, HoldKeepsQuota DEF Reserve
<1>8. CASE Insert(u) \/ Put(u)
    BY <1>2, <1>8, HoldKeepsQuota DEF Insert, Put
<1>9. CASE Commit(u) \/ CommitAnswerLost(u)
    BY <1>1, <1>9, CommitKeepsQuota DEF Commit, CommitAnswerLost
<1> QED  BY <1>3, <1>4, <1>5, <1>6, <1>7, <1>8, <1>9 DEF Request

LEMMA DeleteKeepsQuota ==
    ASSUME QuotaInv, NEW d \in Uploads, DeleteRow(d)
    PROVE  QuotaInv'
<1>1. Cardinality(row) \in Nat
    BY FS_CardinalityType DEF QuotaInv
<1>2. /\ IsFiniteSet(row')
      /\ Cardinality(row') \in Nat
      /\ Cardinality(row') <= Cardinality(row)
  <2>1. /\ IsFiniteSet(row \ {d})
        /\ Cardinality(row \ {d}) = IF d \in row THEN Cardinality(row) - 1 ELSE Cardinality(row)
      BY FS_RemoveElement, Zenon DEF QuotaInv
  <2>2. Cardinality(row \ {d}) \in Nat
      BY <2>1, FS_CardinalityType, Zenon
  <2> QED  BY <1>1, <2>1, <2>2 DEF DeleteRow
<1>3. LockHeld'
    BY DEF DeleteRow, QuotaInv, LockHeld
<1>4. RoomReserved' /\ DocsWithinLimit'
    BY <1>1, <1>2, LimitAssumption DEF DeleteRow, QuotaInv, RoomReserved, DocsWithinLimit
<1> QED  BY <1>2, <1>3, <1>4 DEF QuotaInv

LEMMA QuotaStep == TypeInv /\ QuotaInv /\ [Next]_vars => QuotaInv'
<1> SUFFICES ASSUME TypeInv, QuotaInv, [Next]_vars PROVE QuotaInv'
    OBVIOUS
<1>1. ASSUME NEW u \in Uploads, NEW c \in Contents, Lookup(u, c) PROVE QuotaInv'
  <2>1. {"unknown", "known"} \subseteq PCs \ Locked
      BY DEF PCs, Locked
  <2> QED  BY <1>1, <2>1, LeaveKeepsQuota DEF Lookup
<1>2. ASSUME NEW u \in Uploads, RejectUnread(u) PROVE QuotaInv'
  <2>1. "rejected" \in PCs \ Locked
      BY DEF PCs, Locked, Answered
  <2> QED  BY <1>2, <2>1, LeaveKeepsQuota DEF RejectUnread
<1>3. ASSUME NEW u \in Uploads, Request(u) PROVE QuotaInv'
    BY <1>3, RequestKeepsQuota
<1>4. ASSUME NEW d \in Uploads, DeleteRow(d) PROVE QuotaInv'
    BY <1>4, DeleteKeepsQuota
<1>5. ASSUME NEW d \in Uploads, LateWrite(d) \/ Purge(d) \/ PurgeFails(d) \/ Wipe(d)
      PROVE  QuotaInv'
    BY <1>5 DEF LateWrite, Purge, PurgeFails, Wipe, QuotaInv, LockHeld, RoomReserved,
                DocsWithinLimit
<1>6. CASE UNCHANGED vars
    BY <1>6 DEF vars, QuotaInv, LockHeld, RoomReserved, DocsWithinLimit
<1> QED  BY <1>1, <1>2, <1>3, <1>4, <1>5, <1>6 DEF Next

-----------------------------------------------------------------------------
(* The bytes of a set of documents.  The sum is a fold over a finite set    *)
(* that takes its elements in an order of its own, so what it computes has  *)
(* to be shown: a fold exists, it is the same in any order, and a document  *)
(* more or less adds or takes away its size.                                *)

Used(c, S) == MapThenSumSet(LAMBDA d : Size[c[d]], S)

Any(t) == CHOOSE x \in t : TRUE
Weight(c, g, t) == IF t = {} THEN 0 ELSE Size[c[Any(t)]] + g[t \ {Any(t)}]
Weighs(c, S, g) == g = [t \in SUBSET S |-> Weight(c, g, t)]

Sized(c, S) == \A d \in S : Size[c[d]] \in Nat

LEMMA UsedUnfold ==
    ASSUME NEW c, NEW S
    PROVE  Used(c, S) = (CHOOSE g : Weighs(c, S, g))[S]
BY Zenon DEF Used, MapThenSumSet, MapThenFoldSet, Weighs, Weight, Any

LEMMA LeastNat ==
    ASSUME NEW N \in SUBSET Nat, N # {}
    PROVE  \E m \in N : \A k \in N : ~(k < m)
<1>1. PICK m \in N : \A k \in N : ~(<<k, m>> \in OpToRel(<, Nat))
    BY NatLessThanWellFounded, WFMin
<1> QED  BY <1>1 DEF OpToRel

LEMMA StillSubset ==
    ASSUME NEW S, NEW t \in SUBSET S, NEW x
    PROVE  t \ {x} \in SUBSET S
OBVIOUS

\* Induction over the subsets of a finite set: P is the set of the good ones.
LEMMA SubsetInduction ==
    ASSUME NEW S, IsFiniteSet(S), NEW P, {} \in P,
           \A t \in SUBSET S : t # {} /\ (\A x \in t : t \ {x} \in P) => t \in P
    PROVE  \A t \in SUBSET S : t \in P
<1> DEFINE bad == {n \in Nat : \E t \in SUBSET S : t \notin P /\ Cardinality(t) = n}
<1>1. SUFFICES ASSUME NEW t \in SUBSET S, t \notin P PROVE FALSE
    OBVIOUS
<1>2. bad # {} /\ bad \in SUBSET Nat
    BY <1>1, FS_Subset, FS_CardinalityType
<1>3. PICK m \in bad : \A k \in bad : ~(k < m)
  <2> HIDE DEF bad
  <2> QED  BY <1>2, LeastNat
<1>4. PICK u \in SUBSET S : u \notin P /\ Cardinality(u) = m
    BY <1>3
<1>5. PICK x \in u : u \ {x} \notin P
    BY <1>4
<1>6. IsFiniteSet(u) /\ IsFiniteSet(u \ {x}) /\ Cardinality(u \ {x}) = Cardinality(u) - 1
    BY FS_Subset, FS_RemoveElement
<1>7. u \ {x} \in SUBSET S /\ Cardinality(u \ {x}) \in Nat
  <2>1. Cardinality(u \ {x}) \in Nat
      BY <1>6, FS_CardinalityType, Zenon
  <2>2. u \ {x} \in SUBSET S
      BY StillSubset, Zenon
  <2> QED  BY <2>1, <2>2
<1>8. Cardinality(u \ {x}) \in bad
    BY <1>5, <1>7
<1>9. m \in Nat /\ Cardinality(u \ {x}) = m - 1
    BY <1>4, <1>6
<1> HIDE DEF bad
<1>10. ~(m - 1 < m)
    BY <1>3, <1>8, <1>9
<1> QED  BY <1>9, <1>10

LEMMA SmallerSubset ==
    ASSUME NEW S, IsFiniteSet(S), NEW t \in SUBSET S, t # {}
    PROVE  /\ Any(t) \in t
           /\ t \ {Any(t)} \in SUBSET S
           /\ Cardinality(t) \in Nat
           /\ Cardinality(t \ {Any(t)}) = Cardinality(t) - 1
<1>1. Any(t) \in t
    BY DEF Any
<1>2. IsFiniteSet(t)
    BY FS_Subset
<1> QED  BY <1>1, <1>2, FS_CardinalityType, FS_RemoveElement

LEMMA WeightExists ==
    ASSUME NEW S, IsFiniteSet(S), NEW c
    PROVE  \E g : Weighs(c, S, g)
<1> DEFINE Small(n) == {t \in SUBSET S : Cardinality(t) <= n}
           Defined == {n \in Nat : \E g : g = [t \in Small(n) |-> Weight(c, g, t)]}
           undefined == Nat \ Defined
<1>1. \A t \in SUBSET S : Cardinality(t) \in Nat /\ (Cardinality(t) = 0 <=> t = {})
    BY FS_Subset, FS_CardinalityType, FS_EmptySet
<1>2. 0 \in Defined
  <2> DEFINE g == [t \in Small(0) |-> 0]
  <2>1. \A t \in Small(0) : t = {}
      BY <1>1
  <2>2. g = [t \in Small(0) |-> Weight(c, g, t)]
      BY <2>1 DEF Weight
  <2> HIDE DEF g
  <2> QED  BY <2>2
<1>3. ASSUME NEW n \in Nat, n \in Defined PROVE n + 1 \in Defined
  <2>1. PICK g : g = [t \in Small(n) |-> Weight(c, g, t)]
      BY <1>3
  <2> DEFINE h == [t \in Small(n + 1) |-> IF t \in Small(n) THEN g[t] ELSE Weight(c, g, t)]
  <2>2. Small(n) \subseteq Small(n + 1)
      BY <1>1
  <2>3. \A t \in Small(n) : h[t] = g[t] /\ g[t] = Weight(c, g, t)
      BY <2>1, <2>2
  <2>4. \A t \in Small(n + 1) : t # {} => t \ {Any(t)} \in Small(n)
    <3> TAKE t \in Small(n + 1)
    <3> HAVE t # {}
    <3>1. Cardinality(t) <= n + 1
        OBVIOUS
    <3> QED  BY <3>1, SmallerSubset
  <2>5. \A t \in Small(n + 1) : h[t] = Weight(c, g, t)
      BY <2>3
  <2>6. \A t \in Small(n + 1) : Weight(c, g, t) = Weight(c, h, t)
    <3> HIDE DEF h, Small
    <3> QED  BY <2>3, <2>4 DEF Weight
  <2>7. h = [t \in Small(n + 1) |-> h[t]]
      OBVIOUS
  <2> HIDE DEF h, Small
  <2>8. h = [t \in Small(n + 1) |-> Weight(c, h, t)]
      BY <2>5, <2>6, <2>7
  <2> QED  BY <2>8
<1>4. Cardinality(S) \in Defined
  <2>1. SUFFICES ASSUME undefined # {} PROVE FALSE
      BY <1>1
  <2>2. PICK m \in undefined : \A k \in undefined : ~(k < m)
    <3>1. undefined \in SUBSET Nat
        OBVIOUS
    <3> HIDE DEF undefined
    <3> QED  BY <2>1, <3>1, LeastNat
  <2> HIDE DEF Defined
  <2>3. m \in Nat /\ m # 0
      BY <1>2
  <2>4. m - 1 \in Nat /\ (m - 1) + 1 = m
      BY <2>3
  <2>5. m - 1 \in undefined
      BY <1>3, <2>4
  <2> QED  BY <2>2, <2>3, <2>5
<1>5. Small(Cardinality(S)) = SUBSET S
    BY FS_Subset
<1>6. PICK g : g = [t \in Small(Cardinality(S)) |-> Weight(c, g, t)]
    BY <1>4
<1> HIDE DEF Small
<1> QED  BY <1>5, <1>6 DEF Weighs

\* From here on a sum is one of its weighing functions.
LEMMA UsedWeighs ==
    ASSUME NEW S, IsFiniteSet(S), NEW c
    PROVE  \E g : Weighs(c, S, g) /\ Used(c, S) = g[S]
BY UsedUnfold, WeightExists

LEMMA WeightIsNat ==
    ASSUME NEW S, IsFiniteSet(S), NEW c, Sized(c, S), NEW g, Weighs(c, S, g)
    PROVE  \A t \in SUBSET S : g[t] \in Nat
<1> DEFINE P == {t \in SUBSET S : g[t] \in Nat}
<1>1. \A t \in SUBSET S : g[t] = Weight(c, g, t)
    BY DEF Weighs
<1>2. {} \in P
    BY <1>1 DEF Weight
<1>3. ASSUME NEW t \in SUBSET S, t # {}, \A x \in t : t \ {x} \in P
      PROVE  t \in P
  <2>1. Any(t) \in t /\ Size[c[Any(t)]] \in Nat
      BY <1>3, SmallerSubset DEF Sized
  <2>2. g[t \ {Any(t)}] \in Nat
      BY <1>3, <2>1
  <2>3. g[t] = Size[c[Any(t)]] + g[t \ {Any(t)}]
      BY <1>1, <1>3 DEF Weight
  <2>4. g[t] \in Nat
      BY <2>1, <2>2, <2>3
  <2> QED  BY <2>4
<1> HIDE DEF P
<1>4. \A t \in SUBSET S : t \in P
    BY <1>2, <1>3, SubsetInduction
<1> QED  BY <1>4 DEF P

\* Any document may be taken first.
LEMMA WeightInAnyOrder ==
    ASSUME NEW S, IsFiniteSet(S), NEW c, Sized(c, S), NEW g, Weighs(c, S, g)
    PROVE  \A t \in SUBSET S : \A x \in t : g[t] = Size[c[x]] + g[t \ {x}]
<1> DEFINE P == {t \in SUBSET S : \A x \in t : g[t] = Size[c[x]] + g[t \ {x}]}
<1>1. \A t \in SUBSET S : g[t] = Weight(c, g, t) /\ g[t] \in Nat
    BY WeightIsNat DEF Weighs
<1>2. {} \in P
    OBVIOUS
<1>3. ASSUME NEW t \in SUBSET S, t # {}, \A x \in t : t \ {x} \in P
      PROVE  t \in P
  <2> DEFINE a == Any(t)
  <2>1. a \in t /\ g[t] = Size[c[a]] + g[t \ {a}]
    <3>1. a \in t
        BY <1>3, SmallerSubset
    <3>2. g[t] = Weight(c, g, t)
        BY <1>1
    <3>3. Weight(c, g, t) = Size[c[a]] + g[t \ {a}]
        BY <1>3 DEF Weight
    <3> QED  BY <3>1, <3>2, <3>3
  <2> HIDE DEF a
  <2>2. ASSUME NEW x \in t, x # a PROVE g[t] = Size[c[x]] + g[t \ {x}]
    <3>1. g[t \ {a}] = Size[c[x]] + g[(t \ {a}) \ {x}]
        BY <1>3, <2>1, <2>2
    <3>2. g[t \ {x}] = Size[c[a]] + g[(t \ {x}) \ {a}]
        BY <1>3, <2>1, <2>2
    <3>3. (t \ {a}) \ {x} = (t \ {x}) \ {a}
        OBVIOUS
    <3>4. Size[c[x]] \in Nat /\ Size[c[a]] \in Nat
        BY <2>1 DEF Sized
    <3>5. g[(t \ {a}) \ {x}] \in Nat
      <4>1. (t \ {a}) \ {x} \in SUBSET S
          OBVIOUS
      <4> QED  BY <1>1, <4>1
    <3>6. g[t] = Size[c[a]] + (Size[c[x]] + g[(t \ {a}) \ {x}])
        BY <2>1, <3>1
    <3>7. g[t \ {x}] = Size[c[a]] + g[(t \ {a}) \ {x}]
        BY <3>2, <3>3
    <3> QED  BY <3>4, <3>5, <3>6, <3>7
  <2> QED  BY <2>1, <2>2
<1> HIDE DEF P
<1>4. \A t \in SUBSET S : t \in P
    BY <1>2, <1>3, SubsetInduction
<1> QED  BY <1>4 DEF P

\* The sum depends on nothing but the sizes of the documents in it.
LEMMA WeightOfSame ==
    ASSUME NEW S, IsFiniteSet(S), NEW T, NEW c, NEW b, NEW g, NEW h,
           Weighs(c, S, g), Weighs(b, T, h), S \subseteq T, \A d \in S : c[d] = b[d]
    PROVE  \A t \in SUBSET S : g[t] = h[t]
<1> DEFINE P == {t \in SUBSET S : g[t] = h[t]}
<1>1. \A t \in SUBSET S : g[t] = Weight(c, g, t) /\ h[t] = Weight(b, h, t)
    BY DEF Weighs
<1>2. {} \in P
    BY <1>1 DEF Weight
<1>3. ASSUME NEW t \in SUBSET S, t # {}, \A x \in t : t \ {x} \in P
      PROVE  t \in P
  <2>1. Any(t) \in t
      BY <1>3, SmallerSubset
  <2>2. c[Any(t)] = b[Any(t)] /\ g[t \ {Any(t)}] = h[t \ {Any(t)}]
      BY <1>3, <2>1
  <2> QED  BY <1>1, <1>3, <2>2 DEF Weight
<1> HIDE DEF P
<1>4. \A t \in SUBSET S : t \in P
    BY <1>2, <1>3, SubsetInduction
<1> QED  BY <1>4 DEF P

LEMMA UsedIsNat ==
    ASSUME NEW S, IsFiniteSet(S), NEW c, Sized(c, S)
    PROVE  Used(c, S) \in Nat
BY UsedWeighs, WeightIsNat

LEMMA UsedNothing ==
    ASSUME NEW c
    PROVE  Used(c, {}) = 0
<1>1. IsFiniteSet({})
    BY FS_EmptySet
<1>2. PICK g : Weighs(c, {}, g) /\ Used(c, {}) = g[{}]
    BY <1>1, UsedWeighs
<1>3. {} \in SUBSET {} /\ g[{}] = Weight(c, g, {})
    BY <1>2 DEF Weighs
<1> QED  BY <1>2, <1>3 DEF Weight

LEMMA UsedOfSame ==
    ASSUME NEW S, IsFiniteSet(S), NEW c, NEW b, \A d \in S : c[d] = b[d]
    PROVE  Used(c, S) = Used(b, S)
<1>1. PICK g : Weighs(c, S, g) /\ Used(c, S) = g[S]
    BY UsedWeighs
<1>2. PICK h : Weighs(b, S, h) /\ Used(b, S) = h[S]
    BY UsedWeighs
<1>3. g[S] = h[S]
    BY <1>1, <1>2, WeightOfSame
<1> QED  BY <1>1, <1>2, <1>3

LEMMA UsedWithout ==
    ASSUME NEW S, IsFiniteSet(S), NEW c, Sized(c, S), NEW x \in S
    PROVE  Used(c, S) = Size[c[x]] + Used(c, S \ {x})
<1>1. IsFiniteSet(S \ {x})
    BY FS_RemoveElement
<1>2. PICK g : Weighs(c, S, g) /\ Used(c, S) = g[S]
    BY UsedWeighs
<1>3. PICK h : Weighs(c, S \ {x}, h) /\ Used(c, S \ {x}) = h[S \ {x}]
    BY <1>1, UsedWeighs
<1>4. g[S] = Size[c[x]] + g[S \ {x}]
    BY <1>2, WeightInAnyOrder
<1>5. h[S \ {x}] = g[S \ {x}]
    BY <1>1, <1>2, <1>3, WeightOfSame
<1> QED  BY <1>2, <1>3, <1>4, <1>5

-----------------------------------------------------------------------------
(* The quota in bytes, along the same argument.  A request between check    *)
(* and commit has room for its own bytes; what a document on record weighs  *)
(* does not change, since only a new request learns what it uploads.        *)

BytesKnown ==
    /\ \A d \in row : pc[d] # "new" /\ content[d] \in Contents
    /\ \A u \in Uploads :
         pc[u] \in Locked \cup {"unknown", "waiting"} => content[u] \in Contents

RoomForBytes ==
    \A u \in Uploads :
        pc[u] \in Locked \ {"counting"} => Used(content, row) + Size[content[u]] <= MaxBytes

BytesInv == BytesKnown /\ RoomForBytes /\ Used(content, row) <= MaxBytes

LEMMA BytesInit == Init => BytesInv
BY UsedNothing, LimitAssumption DEF Init, BytesInv, BytesKnown, RoomForBytes, Locked

\* What is on record weighs something, before a step and after it.
LEMMA RowWeighs ==
    ASSUME QuotaInv, BytesInv
    PROVE  IsFiniteSet(row) /\ Sized(content, row) /\ Used(content, row) \in Nat
<1>1. IsFiniteSet(row) /\ Sized(content, row)
    BY LimitAssumption DEF QuotaInv, BytesInv, BytesKnown, Sized
<1> QED  BY <1>1, UsedIsNat

\* A step of a request that learns nothing and commits nothing.
LEMMA MoveKeepsBytes ==
    ASSUME TypeInv, BytesInv, NEW u \in Uploads,
           NEW where \in PCs \ {"new"}, Goto(u, where), UNCHANGED <<row, content>>,
           where \in Locked \cup {"unknown", "waiting"} => content[u] \in Contents,
           where \in Locked \ {"counting"} =>
               Used(content, row) + Size[content[u]] <= MaxBytes
    PROVE  BytesInv'
BY DEF TypeInv, TypeOK, BytesInv, BytesKnown, RoomForBytes, Goto

\* The row of a request that reserved room for its bytes.
LEMMA CommitKeepsBytes ==
    ASSUME TypeInv, QuotaInv, BytesInv, NEW u \in Uploads, pc[u] = "stored",
           NEW where \in PCs \ (Locked \cup {"new", "unknown", "waiting"}), Goto(u, where),
           row' = row \cup {u}, UNCHANGED content
    PROVE  BytesInv'
<1>1. /\ content[u] \in Contents
      /\ Used(content, row) + Size[content[u]] <= MaxBytes
    BY DEF BytesInv, BytesKnown, RoomForBytes, Locked
<1>2. BytesKnown'
    BY <1>1 DEF TypeInv, TypeOK, BytesInv, BytesKnown, Goto
<1>3. Used(content, row \cup {u}) <= MaxBytes
  <2>1. CASE u \in row
    <3>1. row \cup {u} = row
        BY <2>1
    <3> QED  BY <3>1 DEF BytesInv
  <2>2. CASE u \notin row
    <3>1. IsFiniteSet(row \cup {u}) /\ Sized(content, row \cup {u})
      <4>1. IsFiniteSet(row \cup {u})
          BY RowWeighs, FS_AddElement
      <4>2. Sized(content, row \cup {u})
          BY <1>1, RowWeighs, LimitAssumption DEF Sized
      <4> QED  BY <4>1, <4>2
    <3>2. (row \cup {u}) \ {u} = row
        BY <2>2
    <3>3. u \in row \cup {u}
        OBVIOUS
    <3>4. Used(content, row \cup {u}) = Size[content[u]] + Used(content, (row \cup {u}) \ {u})
        BY <3>1, <3>3, UsedWithout
    <3>5. Size[content[u]] \in Nat /\ Used(content, row) \in Nat
        BY <1>1, RowWeighs, LimitAssumption
    <3>6. Used(content, row \cup {u}) = Size[content[u]] + Used(content, row)
        BY <3>2, <3>4
    <3> QED  BY <1>1, <3>5, <3>6, LimitAssumption
  <2> QED  BY <2>1, <2>2
<1>4. \A v \in Uploads : pc'[v] \notin Locked
    BY DEF TypeInv, TypeOK, QuotaInv, LockHeld, Locked, Goto
<1> QED  BY <1>2, <1>3, <1>4 DEF BytesInv, RoomForBytes

LEMMA RequestKeepsBytes ==
    ASSUME TypeInv, QuotaInv, BytesInv, NEW u \in Uploads, Request(u)
    PROVE  BytesInv'
<1>1. {"rejected", "failed", "duplicate", "repairing", "resetting", "accepted", "clashed",
       "undoing", "dead"} \subseteq PCs \ (Locked \cup {"new", "unknown", "waiting"})
    BY DEF PCs, Locked, Answered
<1>2. {"waiting", "counting", "reserved", "inserted", "stored"} \subseteq PCs \ {"new"}
    BY DEF PCs, Locked
<1>3. CASE \/ RejectFile(u) \/ CheckStored(u) \/ Repair(u) \/ RepairFails(u)
           \/ AnswerKnown(u) \/ RejectQuota(u) \/ Clash(u) \/ AnswerClash(u)
           \/ PutFails(u) \/ PutAbandoned(u) \/ CommitFails(u) \/ Undo(u) \/ UndoFails(u) \/ Kill(u)
    BY <1>1, <1>3, MoveKeepsBytes
    DEF RejectFile, CheckStored, Repair, RepairFails, AnswerKnown, RejectQuota, Clash,
        AnswerClash, PutFails, PutAbandoned, CommitFails, Undo, UndoFails, Kill
<1>4. CASE Validated(u) \/ Acquire(u)
  <2>1. content[u] \in Contents
      BY <1>4 DEF Validated, Acquire, BytesInv, BytesKnown
  <2>2. "waiting" \notin Locked /\ "counting" \notin Locked \ {"counting"}
      BY DEF Locked
  <2> QED  BY <1>2, <1>4, <2>1, <2>2, MoveKeepsBytes DEF Validated, Acquire
<1>5. CASE Reserve(u)
  <2>1. content[u] \in Contents
      BY <1>5 DEF Reserve, BytesInv, BytesKnown, Locked
  <2>2. BytesFull(content[u]) <=> Used(content, row) + Size[content[u]] > MaxBytes
      BY Zenon DEF BytesFull, Used
  <2>3. Size[content[u]] \in Nat /\ Used(content, row) \in Nat
      BY <2>1, RowWeighs, LimitAssumption
  <2>4. ~BytesFull(content[u])
      BY <1>5 DEF Reserve
  <2>5. Used(content, row) + Size[content[u]] <= MaxBytes
      BY <2>2, <2>3, <2>4, LimitAssumption
  <2> QED  BY <1>2, <1>5, <2>1, <2>5, MoveKeepsBytes DEF Reserve
<1>6. CASE Insert(u) \/ Put(u)
  <2>1. pc[u] \in {"reserved", "inserted"}
      BY <1>6 DEF Insert, Put
  <2>2. content[u] \in Contents /\ Used(content, row) + Size[content[u]] <= MaxBytes
      BY <2>1 DEF BytesInv, BytesKnown, RoomForBytes, Locked
  <2> QED  BY <1>2, <1>6, <2>2, MoveKeepsBytes DEF Insert, Put
<1>7. CASE Commit(u) \/ CommitAnswerLost(u)
    BY <1>1, <1>7, CommitKeepsBytes DEF Commit, CommitAnswerLost
<1> QED  BY <1>3, <1>4, <1>5, <1>6, <1>7 DEF Request

\* The request that learns what it uploads is on no record yet.
LEMMA LookupKeepsBytes ==
    ASSUME TypeInv, QuotaInv, BytesInv, NEW u \in Uploads, NEW c \in Contents, Lookup(u, c)
    PROVE  BytesInv'
<1>1. u \notin row /\ row' = row /\ content' = [content EXCEPT ![u] = c]
    BY DEF Lookup, BytesInv, BytesKnown
<1>2. \A d \in Uploads : d # u => content'[d] = content[d] /\ pc'[d] = pc[d]
    BY <1>1 DEF Lookup, Goto, TypeInv, TypeOK
<1>3. content'[u] \in Contents /\ pc'[u] \in {"unknown", "known"}
    BY <1>1 DEF Lookup, Goto, TypeInv, TypeOK
<1>4. row \subseteq Uploads
    BY DEF TypeInv, TypeOK
<1>5. \A d \in row : content[d] = content'[d]
    BY <1>1, <1>2, <1>4
<1>6. Used(content', row') = Used(content, row)
  <2>1. IsFiniteSet(row)
      BY DEF QuotaInv
  <2>2. Used(content, row) = Used(content', row)
      BY <1>5, <2>1, UsedOfSame
  <2> QED  BY <1>1, <2>2
<1>7. BytesKnown'
    BY <1>1, <1>2, <1>3, <1>4 DEF BytesInv, BytesKnown
<1>8. RoomForBytes'
    BY <1>2, <1>3, <1>6 DEF BytesInv, RoomForBytes, Locked
<1> QED  BY <1>6, <1>7, <1>8 DEF BytesInv

LEMMA DeleteKeepsBytes ==
    ASSUME TypeInv, QuotaInv, BytesInv, NEW d \in Uploads, DeleteRow(d)
    PROVE  BytesInv'
<1>1. d \in row /\ row' = row \ {d} /\ UNCHANGED <<pc, content>>
    BY DEF DeleteRow
<1>2. Used(content, row) = Size[content[d]] + Used(content, row \ {d})
    BY <1>1, RowWeighs, UsedWithout
<1>3. Size[content[d]] \in Nat /\ Used(content, row \ {d}) \in Nat
  <2>1. IsFiniteSet(row \ {d}) /\ Sized(content, row \ {d})
      BY RowWeighs, FS_RemoveElement DEF Sized
  <2> QED  BY <1>1, <2>1, RowWeighs, UsedIsNat DEF Sized
<1>4. Used(content', row') <= Used(content, row) /\ Used(content', row') \in Nat
    BY <1>1, <1>2, <1>3
<1>5. BytesKnown'
    BY <1>1 DEF BytesInv, BytesKnown
<1>6. RoomForBytes'
  <2> SUFFICES ASSUME NEW u \in Uploads, pc[u] \in Locked \ {"counting"}
               PROVE  Used(content', row') + Size[content[u]] <= MaxBytes
      BY <1>1 DEF RoomForBytes
  <2>1. Used(content, row) + Size[content[u]] <= MaxBytes
      BY DEF BytesInv, RoomForBytes
  <2>2. content[u] \in Contents
      BY DEF BytesInv, BytesKnown
  <2>3. Size[content[u]] \in Nat
      BY <2>2, LimitAssumption
  <2>4. Used(content, row) \in Nat
      BY RowWeighs
  <2> QED  BY <1>4, <2>1, <2>3, <2>4, LimitAssumption
<1>7. Used(content', row') <= MaxBytes
  <2>1. Used(content, row) \in Nat /\ Used(content, row) <= MaxBytes
      BY RowWeighs DEF BytesInv
  <2> QED  BY <1>4, <2>1, LimitAssumption
<1> QED  BY <1>5, <1>6, <1>7 DEF BytesInv

LEMMA BytesStep == TypeInv /\ QuotaInv /\ BytesInv /\ [Next]_vars => BytesInv'
<1> SUFFICES ASSUME TypeInv, QuotaInv, BytesInv, [Next]_vars PROVE BytesInv'
    OBVIOUS
<1>1. ASSUME NEW u \in Uploads, NEW c \in Contents, Lookup(u, c) PROVE BytesInv'
    BY <1>1, LookupKeepsBytes
<1>2. ASSUME NEW u \in Uploads, RejectUnread(u) PROVE BytesInv'
  <2>1. "rejected" \in PCs \ (Locked \cup {"new", "unknown", "waiting"})
      BY DEF PCs, Locked, Answered
  <2> QED  BY <1>2, <2>1, MoveKeepsBytes DEF RejectUnread
<1>3. ASSUME NEW u \in Uploads, Request(u) PROVE BytesInv'
    BY <1>3, RequestKeepsBytes
<1>4. ASSUME NEW d \in Uploads, DeleteRow(d) PROVE BytesInv'
    BY <1>4, DeleteKeepsBytes
<1>5. ASSUME NEW d \in Uploads, LateWrite(d) \/ Purge(d) \/ PurgeFails(d) \/ Wipe(d)
      PROVE  BytesInv'
    BY <1>5 DEF LateWrite, Purge, PurgeFails, Wipe, BytesInv, BytesKnown, RoomForBytes
<1>6. CASE UNCHANGED vars
    BY <1>6 DEF vars, BytesInv, BytesKnown, RoomForBytes
<1> QED  BY <1>1, <1>2, <1>3, <1>4, <1>5, <1>6 DEF Next

\* However many uploads of a user run at once, and however they end, neither the
\* user's documents nor their bytes ever exceed the quota (create_document reads
\* both well before it commits the row).
THEOREM QuotaHolds == Spec => []WithinLimits
<1>1. Init => TypeInv /\ QuotaInv /\ BytesInv
    BY TypeInit, QuotaInit, BytesInit
<1>2. TypeInv /\ QuotaInv /\ BytesInv /\ [Next]_vars => TypeInv' /\ QuotaInv' /\ BytesInv'
    BY TypeStep, QuotaStep, BytesStep
<1>3. QuotaInv /\ BytesInv => WithinLimits
  <2>1. BytesWithinLimit <=> Used(content, row) <= MaxBytes
      BY Zenon DEF BytesWithinLimit, Used
  <2> QED  BY <2>1 DEF QuotaInv, BytesInv, WithinLimits
<1> QED  BY <1>1, <1>2, <1>3, PTL DEF Spec

-----------------------------------------------------------------------------
(* Rows and files, while nothing was cancelled, lost or killed.  A document *)
(* once accepted stays so, and only an accepted document is found by a      *)
(* later upload or deleted: a request that undoes its own put can therefore *)
(* take no file of a row, nor a purge the file of another document.         *)

SettledRows ==
    /\ \A d \in row : pc[d] = "accepted"
    /\ \A d \in purging : pc[d] = "accepted" /\ d \notin row
    /\ \A u \in Uploads : existing[u] \in Uploads => pc[existing[u]] = "accepted"

FilesOfStored ==
    /\ late = {}
    /\ \A d \in file : pc[d] \in {"stored", "undoing", "accepted"}
    /\ \A d \in Uploads : pc[d] = "stored" => d \in file

NoStrays ==
    \A d \in file \ (row \cup purging) :
        \/ pc[d] \in {"stored", "undoing"}
        \/ \E u \in Uploads : existing[u] = d /\ pc[u] \in {"resetting", "duplicate", "failed"}

FileInv == SettledRows /\ FilesOfStored /\ row \subseteq file \cup wiped /\ NoStrays

LEMMA FileInit == Init => FileInv
BY LimitAssumption DEF Init, FileInv, SettledRows, FilesOfStored, NoStrays

\* A request that moves and touches neither storage nor rows.
LEMMA MoveKeepsFiles ==
    ASSUME TypeInv, FileInv, NEW u \in Uploads,
           NEW where \in PCs \ {"stored", "accepted"}, Goto(u, where),
           pc[u] \notin {"accepted", "duplicate", "failed", "undoing"},
           pc[u] # "stored" \/ where = "undoing",
           pc[u] # "resetting" \/ where \in {"duplicate", "failed"},
           UNCHANGED <<row, file, existing, purging, late, wiped>>
    PROVE  FileInv'
<1> USE DEF FileInv, Goto, TypeInv, TypeOK
<1>1. SettledRows'
    BY DEF SettledRows
<1>2. FilesOfStored'
    BY DEF FilesOfStored
<1>3. NoStrays'
    BY DEF NoStrays
<1> QED  BY <1>1, <1>2, <1>3

\* A request that finds the document holding its bytes.
LEMMA FindKeepsFiles ==
    ASSUME TypeInv, FileInv, NEW u \in Uploads, NEW d \in row,
           NEW where \in {"known", "duplicate"}, Goto(u, where),
           pc[u] \in {"new", "clashed"}, existing' = [existing EXCEPT ![u] = d],
           UNCHANGED <<row, file, purging, late, wiped>>
    PROVE  FileInv'
<1> USE DEF FileInv, Goto, TypeInv, TypeOK
<1>1. SettledRows'
    BY DEF SettledRows
<1>2. FilesOfStored'
    BY DEF FilesOfStored
<1>3. NoStrays'
    BY DEF NoStrays
<1> QED  BY <1>1, <1>2, <1>3

LEMMA RequestKeepsFiles ==
    ASSUME TypeInv, FileInv, NEW u \in Uploads, Request(u), UNCHANGED faults
    PROVE  FileInv'
<1>1. {"rejected", "failed", "waiting", "counting", "reserved", "inserted", "clashed",
       "duplicate", "repairing", "resetting", "undoing"} \subseteq PCs \ {"stored", "accepted"}
    BY DEF PCs, Locked, Answered
<1>2. ~Fault
    BY DEF Fault, TypeInv, TypeOK
<1>3. CASE \/ RejectFile(u) \/ Validated(u) \/ CheckStored(u) \/ RepairFails(u)
           \/ AnswerKnown(u) \/ Acquire(u) \/ RejectQuota(u) \/ Reserve(u) \/ Insert(u) \/ Clash(u)
           \/ PutFails(u) \/ CommitFails(u)
    BY <1>1, <1>3, MoveKeepsFiles
    DEF RejectFile, Validated, CheckStored, RepairFails, AnswerKnown, Acquire, RejectQuota,
        Reserve, Insert, Clash, PutFails, CommitFails
<1>4. CASE AnswerClash(u)
    BY <1>1, <1>4, MoveKeepsFiles, FindKeepsFiles DEF AnswerClash, Holding
<1>5. CASE Repair(u)
  <2> USE DEF Repair, KeyOfExisting, Goto, TypeInv, TypeOK, NamesExisting
  <2>1. existing[u] \in Uploads /\ pc[existing[u]] = "accepted"
      BY <1>5 DEF FileInv, SettledRows
  <2>2. SettledRows'
      BY <1>5 DEF FileInv, SettledRows
  <2>3. FilesOfStored'
      BY <1>5, <2>1 DEF FileInv, FilesOfStored
  <2>4. row' \subseteq file' \cup wiped'
      BY <1>5 DEF FileInv
  <2>5. NoStrays'
      BY <1>5 DEF FileInv, NoStrays
  <2> QED  BY <2>2, <2>3, <2>4, <2>5 DEF FileInv
<1>6. CASE Put(u)
  <2> USE DEF Put, Goto, TypeInv, TypeOK
  <2>1. SettledRows'
      BY <1>6 DEF FileInv, SettledRows
  <2>2. FilesOfStored'
      BY <1>6 DEF FileInv, FilesOfStored
  <2>3. NoStrays'
      BY <1>6 DEF FileInv, NoStrays
  <2> QED  BY <1>6, <2>1, <2>2, <2>3 DEF FileInv
<1>7. CASE Commit(u)
  <2> USE DEF Commit, Goto, TypeInv, TypeOK
  <2>1. SettledRows'
      BY <1>7 DEF FileInv, SettledRows
  <2>2. FilesOfStored'
      BY <1>7 DEF FileInv, FilesOfStored
  <2>3. row' \subseteq file' \cup wiped'
      BY <1>7 DEF FileInv, FilesOfStored
  <2>4. NoStrays'
      BY <1>7 DEF FileInv, NoStrays
  <2> QED  BY <2>1, <2>2, <2>3, <2>4 DEF FileInv
<1>8. CASE Undo(u)
  <2> USE DEF Undo, Undone, Goto, TypeInv, TypeOK
  <2>1. SettledRows' /\ u \notin row
      BY <1>8 DEF FileInv, SettledRows
  <2>2. FilesOfStored'
      BY <1>8 DEF FileInv, FilesOfStored
  <2>3. row' \subseteq file' \cup wiped'
      BY <1>8, <2>1 DEF FileInv
  <2>4. NoStrays'
      BY <1>8 DEF FileInv, NoStrays
  <2> QED  BY <2>1, <2>2, <2>3, <2>4 DEF FileInv
<1> QED
    BY <1>2, <1>3, <1>4, <1>5, <1>6, <1>7, <1>8
    DEF Request, PutAbandoned, CommitAnswerLost, UndoFails, Kill

LEMMA WorldKeepsFiles ==
    ASSUME TypeInv, FileInv, NEW d \in Uploads, UNCHANGED faults,
           LateWrite(d) \/ DeleteRow(d) \/ Purge(d) \/ PurgeFails(d) \/ Wipe(d)
    PROVE  FileInv'
<1> USE DEF FileInv, TypeInv, TypeOK
<1>1. ~Fault
    BY DEF Fault
<1>2. CASE LateWrite(d)
    BY <1>2 DEF LateWrite, FilesOfStored
<1>3. CASE DeleteRow(d)
    BY <1>3 DEF DeleteRow, SettledRows, FilesOfStored, NoStrays
<1>4. CASE Purge(d)
  <2>1. d \notin row /\ SettledRows'
      BY <1>4 DEF Purge, SettledRows
  <2>2. FilesOfStored'
      BY <1>4 DEF Purge, SettledRows, FilesOfStored
  <2>3. NoStrays'
      BY <1>4 DEF Purge, NoStrays
  <2> QED  BY <1>4, <2>1, <2>2, <2>3 DEF Purge
<1>5. CASE Wipe(d)
  <2>1. SettledRows'
      BY <1>5 DEF Wipe, SettledRows
  <2>2. FilesOfStored'
      BY <1>5 DEF Wipe, SettledRows, FilesOfStored
  <2>3. NoStrays'
      BY <1>5 DEF Wipe, NoStrays
  <2> QED  BY <1>5, <2>1, <2>2, <2>3 DEF Wipe
<1> QED  BY <1>1, <1>2, <1>3, <1>4, <1>5 DEF PurgeFails

LEMMA FileStep ==
    TypeInv /\ (faults = 0 => FileInv) /\ [Next]_vars => (faults' = 0 => FileInv')
<1> SUFFICES ASSUME TypeInv, faults = 0 => FileInv, [Next]_vars, faults' = 0
             PROVE  FileInv'
    OBVIOUS
<1>1. faults = 0 /\ UNCHANGED faults
    BY DEF TypeInv, TypeOK, Next, vars, Fault, Request, Lookup, RejectUnread, RejectFile,
           Validated, CheckStored, Repair, RepairFails, AnswerKnown, Acquire, RejectQuota, Reserve,
           Insert, Clash, AnswerClash, Put, PutFails, PutAbandoned, LateWrite, Commit,
           CommitFails, CommitAnswerLost, Undo, UndoFails, Kill, DeleteRow, Purge,
           PurgeFails, Wipe
<1>2. ASSUME NEW u \in Uploads, NEW c \in Contents, Lookup(u, c) PROVE FileInv'
  <2>1. "unknown" \in PCs \ {"stored", "accepted"}
      BY DEF PCs
  <2> QED  BY <1>1, <1>2, <2>1, MoveKeepsFiles, FindKeepsFiles DEF Lookup, Holding
<1>3. ASSUME NEW u \in Uploads, RejectUnread(u) PROVE FileInv'
  <2>1. "rejected" \in PCs \ {"stored", "accepted"}
      BY DEF PCs, Answered
  <2> QED  BY <1>1, <1>3, <2>1, MoveKeepsFiles DEF RejectUnread
<1>4. ASSUME NEW u \in Uploads, Request(u) PROVE FileInv'
    BY <1>1, <1>4, RequestKeepsFiles
<1>5. ASSUME NEW d \in Uploads,
             LateWrite(d) \/ DeleteRow(d) \/ Purge(d) \/ PurgeFails(d) \/ Wipe(d)
      PROVE  FileInv'
    BY <1>1, <1>5, WorldKeepsFiles
<1>6. CASE UNCHANGED vars
    BY <1>1, <1>6 DEF vars, FileInv, SettledRows, FilesOfStored, NoStrays
<1> QED  BY <1>2, <1>3, <1>4, <1>5, <1>6 DEF Next

LEMMA FileInvariant == Spec => [](faults = 0 => FileInv)
<1>1. Init => TypeInv /\ (faults = 0 => FileInv)
    BY TypeInit, FileInit
<1>2. TypeInv /\ (faults = 0 => FileInv) /\ [Next]_vars => TypeInv' /\ (faults' = 0 => FileInv')
    BY TypeStep, FileStep
<1>3. (faults = 0 => FileInv)' <=> (faults' = 0 => FileInv')
    OBVIOUS
<1> QED  BY <1>1, <1>2, <1>3, PTL DEF Spec

\* While nothing is cancelled, lost or killed, no undo, purge or repair of one
\* request takes the file of another's document (create_document, delete_document).
THEOREM FilesSafe == Spec => []RowsHaveFiles
<1>1. (faults = 0 => FileInv) => RowsHaveFiles
    BY DEF FileInv, RowsHaveFiles
<1> QED  BY <1>1, FileInvariant, PTL

\* Under the same condition a file without a row is the work of a repair that a
\* delete overtook, whatever that request is answered.
THEOREM StrayFilesExplained == Spec => []StrayFilesAreRepairs
<1>1. (faults = 0 => FileInv) => StrayFilesAreRepairs
    BY DEF FileInv, NoStrays, StrayFilesAreRepairs
<1> QED  BY <1>1, FileInvariant, PTL

\* And a failed upload leaves neither row nor file.
THEOREM FailuresClean == Spec => []CleanFailureLeavesNothing
<1>1. (faults = 0 => FileInv) => CleanFailureLeavesNothing
    BY DEF FileInv, SettledRows, FilesOfStored, CleanFailureLeavesNothing, FailureLeavesNothing
<1> QED  BY <1>1, FileInvariant, PTL
=============================================================================
