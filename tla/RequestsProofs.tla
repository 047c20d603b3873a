---------------------------- MODULE RequestsProofs ----------------------------
(***************************************************************************)
(* Proofs about the quota, the requests that draw on it and the rate       *)
(* limiter, for any users, questions and limits, any pool, and any clock   *)
(* whose days do not go backwards.                                         *)
(*                                                                         *)
(* The quota: the counters of the minute and the day that are running, and *)
(* of those to come, hold exactly the questions charged to them; those of  *)
(* the past may be purged.  A counter goes up only below its limit.        *)
(* Together these bound the questions themselves.                          *)
(*                                                                         *)
(* The requests: waiting for connections and giving up adds nothing to     *)
(* what the quota may do, so every behaviour of the requests is one of     *)
(* AIQuota, and what is proved of it holds of them.  The rate limiter is   *)
(* proved correct from the order of its hits and from what has been cut    *)
(* off being over.                                                         *)
(*                                                                         *)
(* The pool: a request takes one connection at a time and only when one is *)
(* idle, so what is out never exceeds what the pool has.                   *)
(***************************************************************************)
EXTENDS Requests, FiniteSetTheorems, WellFoundedInduction, TLAPS

-----------------------------------------------------------------------------
(* The invariant of the quota *)

AskedIn(u, m) == {c \in Calls : UserOf[c] = u /\ window[c] = m /\ charge[c] \in Counted}

MinutesExact ==
    \A u \in Users, m \in Minutes :
        m >= now => minuteCount[<<u, m>>] = Cardinality(AskedIn(u, m))
DaysExact ==
    \A u \in Users, d \in Days :
        d >= Today => dayCount[<<u, d>>] = Cardinality(PaidOn(u, d))
GlobalExact ==
    \A d \in Days : d >= Today => globalCount[d] = Cardinality(AskedOn(d))

WithinLimits ==
    /\ \A k \in Users \X Minutes : minuteCount[k] <= MinuteLimit
    /\ \A k \in Users \X Days : dayCount[k] <= DayLimit
    /\ \A d \in Days : globalCount[d] <= GlobalLimit

CounterInv == QuotaTypeOK /\ MinutesExact /\ DaysExact /\ GlobalExact /\ WithinLimits

-----------------------------------------------------------------------------
(* The clock and the sets of questions *)

LEMMA DayFacts ==
    /\ \A m \in Minutes : DayOf[m] \in Days
    /\ \A d \in Days : d \in Nat
    /\ \A m \in Minutes : m \in Nat
BY ClockAssumption, QuotaAssumption DEF Days, Minutes

LEMMA KeyFacts ==
    ASSUME QuotaTypeOK, NEW c \in Calls
    PROVE  /\ window[c] \in Minutes /\ DayOf[window[c]] \in Days
           /\ UserOf[c] \in Users
           /\ MinuteKey(c) \in Users \X Minutes
           /\ DayKey(c) \in Users \X Days
BY DayFacts, QuotaAssumption DEF QuotaTypeOK, MinuteKey, DayKey

\* Adding a question to a finite set of them, or taking one away, is counted.
LEMMA OneMore ==
    ASSUME NEW S \in SUBSET Calls, NEW c \in Calls, c \notin S
    PROVE  Cardinality(S \cup {c}) = Cardinality(S) + 1
<1>1. IsFiniteSet(S)
    BY QuotaAssumption, FS_Subset
<1> QED  BY <1>1, FS_AddElement

LEMMA OneFewer ==
    ASSUME NEW S \in SUBSET Calls, NEW c \in S
    PROVE  Cardinality(S \ {c}) = Cardinality(S) - 1 /\ Cardinality(S) > 0
<1>1. IsFiniteSet(S) /\ IsFiniteSet(S \ {c})
    BY QuotaAssumption, FS_Subset
<1>2. Cardinality(S) \in Nat /\ Cardinality(S \ {c}) \in Nat
    BY <1>1, FS_CardinalityType
<1> QED  BY <1>1, <1>2, FS_RemoveElement

-----------------------------------------------------------------------------
LEMMA CounterInit == QuotaInit => CounterInv
<1> SUFFICES ASSUME QuotaInit PROVE CounterInv
    OBVIOUS
<1>1. QuotaTypeOK
    BY QuotaAssumption DEF QuotaInit, QuotaTypeOK, Minutes, Charges
<1>2. \A c \in Calls : charge[c] = "none" /\ charge[c] \notin Counted
    BY DEF QuotaInit, Counted
<1>3. /\ \A u \in Users, m \in Minutes : AskedIn(u, m) = {}
      /\ \A d \in Days : AskedOn(d) = {}
      /\ \A u \in Users, d \in Days : PaidOn(u, d) = {}
    BY <1>2 DEF AskedIn, AskedOn, PaidOn
<1>4. MinutesExact /\ DaysExact /\ GlobalExact
    BY <1>3, FS_EmptySet DEF QuotaInit, MinutesExact, DaysExact, GlobalExact
<1>5. WithinLimits
    BY QuotaAssumption DEF QuotaInit, WithinLimits
<1> QED  BY <1>1, <1>4, <1>5 DEF CounterInv

-----------------------------------------------------------------------------
(* Steps *)

\* A step that leaves the counters and the clock alone and charges nobody.
LEMMA NothingCharged ==
    ASSUME CounterInv, QuotaTypeOK',
           UNCHANGED <<now, minuteCount, dayCount, globalCount>>,
           \A c \in Calls :
               \/ charge'[c] = charge[c] /\ window'[c] = window[c]
               \/ charge[c] \notin Counted /\ charge'[c] \notin Counted
               \/ /\ window'[c] = window[c]
                  /\ charge[c] = "held" /\ charge'[c] = "lost"
    PROVE  CounterInv'
<1>1. /\ \A u \in Users, m \in Minutes : AskedIn(u, m)' = AskedIn(u, m)
      /\ \A d \in Days : AskedOn(d)' = AskedOn(d)
    BY DEF AskedIn, AskedOn, Counted
<1>2. \A u \in Users, d \in Days : PaidOn(u, d)' = PaidOn(u, d)
    BY DEF AskedOn, PaidOn, Counted
<1> QED
    BY <1>1, <1>2
    DEF CounterInv, MinutesExact, DaysExact, GlobalExact, WithinLimits, Today

LEMMA TickKeeps == CounterInv /\ Tick => CounterInv'
<1> SUFFICES ASSUME CounterInv, Tick PROVE CounterInv'
    OBVIOUS
<1>1. QuotaTypeOK'
    BY QuotaAssumption DEF CounterInv, QuotaTypeOK, Tick, quota, Minutes
<1>2. now' >= now /\ Today' >= Today /\ Today' \in Nat /\ Today \in Nat
    BY <1>1, ClockAssumption, DayFacts DEF CounterInv, QuotaTypeOK, Tick, Today, Minutes
<1>3. /\ \A u \in Users, m \in Minutes : AskedIn(u, m)' = AskedIn(u, m)
      /\ \A d \in Days : AskedOn(d)' = AskedOn(d)
      /\ \A u \in Users, d \in Days : PaidOn(u, d)' = PaidOn(u, d)
    BY DEF Tick, quota, AskedIn, AskedOn, PaidOn
<1>4. MinutesExact'
    BY <1>1, <1>2, <1>3, DayFacts
    DEF CounterInv, QuotaTypeOK, MinutesExact, Tick, quota
<1>5. DaysExact' /\ GlobalExact'
    BY <1>2, <1>3, DayFacts DEF CounterInv, DaysExact, GlobalExact, Tick, quota
<1>6. WithinLimits'
    BY DEF CounterInv, WithinLimits, Tick, quota
<1> QED  BY <1>1, <1>4, <1>5, <1>6 DEF CounterInv

\* Purging takes no counter of a minute or day that is running.
LEMMA KeptFacts ==
    ASSUME QuotaTypeOK, NEW m \in [Users \X Minutes -> Nat],
           NEW d \in [Users \X Days -> Nat], NEW g \in [Days -> Nat]
    PROVE  LET km == Kept(m, {k \in DOMAIN m : k[2] < now})
               kd == Kept(d, {k \in DOMAIN d : PurgeDay(k[2])})
               kg == Kept(g, {k \in DOMAIN g : PurgeDay(k)})
           IN  /\ km \in [Users \X Minutes -> Nat]
               /\ kd \in [Users \X Days -> Nat]
               /\ kg \in [Days -> Nat]
               /\ \A k \in Users \X Minutes : km[k] = m[k] \/ (km[k] = 0 /\ k[2] < now)
               /\ \A k \in Users \X Days : kd[k] = d[k] \/ (kd[k] = 0 /\ k[2] < Today)
               /\ \A k \in Days : kg[k] = g[k] \/ (kg[k] = 0 /\ k < Today)
BY DEF Kept, PurgeDay

\* What a charge does to the counters, before any purge and after it.
LEMMA ConsumeCounts ==
    ASSUME CounterInv, NEW c \in Calls, Consume(c)
    PROVE  /\ minuteCount' \in [Users \X Minutes -> Nat]
           /\ dayCount' \in [Users \X Days -> Nat]
           /\ globalCount' \in [Days -> Nat]
           /\ \A k \in Users \X Minutes :
                \/ minuteCount'[k] = minuteCount[k] + IF k = MinuteKey(c) THEN 1 ELSE 0
                \/ minuteCount'[k] = 0 /\ k[2] < now
           /\ \A k \in Users \X Days :
                \/ dayCount'[k] = dayCount[k] + IF k = DayKey(c) THEN 1 ELSE 0
                \/ dayCount'[k] = 0 /\ k[2] < Today
           /\ \A d \in Days :
                \/ globalCount'[d] = globalCount[d] + IF d = DayOf[window[c]] THEN 1 ELSE 0
                \/ globalCount'[d] = 0 /\ d < Today
<1> DEFINE m == [minuteCount EXCEPT ![MinuteKey(c)] = @ + 1]
           d == [dayCount EXCEPT ![DayKey(c)] = @ + 1]
           g == [globalCount EXCEPT ![DayOf[window[c]]] = @ + 1]
<1>1. QuotaTypeOK
    BY DEF CounterInv
<1>2. /\ MinuteKey(c) \in Users \X Minutes /\ DayKey(c) \in Users \X Days
      /\ DayOf[window[c]] \in Days
    BY <1>1, KeyFacts
<1>3. /\ m \in [Users \X Minutes -> Nat] /\ d \in [Users \X Days -> Nat]
      /\ g \in [Days -> Nat]
    BY <1>1, <1>2 DEF QuotaTypeOK
<1>4. /\ \A k \in Users \X Minutes :
            m[k] = minuteCount[k] + IF k = MinuteKey(c) THEN 1 ELSE 0
      /\ \A k \in Users \X Days : d[k] = dayCount[k] + IF k = DayKey(c) THEN 1 ELSE 0
      /\ \A k \in Days : g[k] = globalCount[k] + IF k = DayOf[window[c]] THEN 1 ELSE 0
    BY <1>1, <1>2 DEF QuotaTypeOK
<1> HIDE DEF m, d, g
<1>5. CASE minuteCount' = m /\ dayCount' = d /\ globalCount' = g
    BY <1>3, <1>4, <1>5
<1>6. CASE /\ minuteCount' = Kept(m, {k \in DOMAIN m : k[2] < now})
           /\ dayCount' = Kept(d, {k \in DOMAIN d : PurgeDay(k[2])})
           /\ globalCount' = Kept(g, {k \in DOMAIN g : PurgeDay(k)})
  <2> DEFINE km == Kept(m, {k \in DOMAIN m : k[2] < now})
             kd == Kept(d, {k \in DOMAIN d : PurgeDay(k[2])})
             kg == Kept(g, {k \in DOMAIN g : PurgeDay(k)})
  <2>1. /\ km \in [Users \X Minutes -> Nat]
        /\ kd \in [Users \X Days -> Nat]
        /\ kg \in [Days -> Nat]
        /\ \A k \in Users \X Minutes : km[k] = m[k] \/ (km[k] = 0 /\ k[2] < now)
        /\ \A k \in Users \X Days : kd[k] = d[k] \/ (kd[k] = 0 /\ k[2] < Today)
        /\ \A k \in Days : kg[k] = g[k] \/ (kg[k] = 0 /\ k < Today)
      BY <1>1, <1>3, KeptFacts
  <2>2. minuteCount' = km /\ dayCount' = kd /\ globalCount' = kg
      BY <1>6
  <2> HIDE DEF km, kd, kg
  <2> QED  BY <1>4, <2>1, <2>2
<1>7. \/ minuteCount' = m /\ dayCount' = d /\ globalCount' = g
      \/ /\ minuteCount' = Kept(m, {k \in DOMAIN m : k[2] < now})
         /\ dayCount' = Kept(d, {k \in DOMAIN d : PurgeDay(k[2])})
         /\ globalCount' = Kept(g, {k \in DOMAIN g : PurgeDay(k)})
    BY DEF Consume, m, d, g
<1> QED  BY <1>5, <1>6, <1>7

\* The questions counted after a charge: the charged one is new.
LEMMA ConsumeAsked ==
    ASSUME CounterInv, NEW c \in Calls, Consume(c)
    PROVE  /\ \A u \in Users, m \in Minutes :
                Cardinality(AskedIn(u, m)')
                  = Cardinality(AskedIn(u, m)) + IF <<u, m>> = MinuteKey(c) THEN 1 ELSE 0
           /\ \A u \in Users, d \in Days :
                Cardinality(PaidOn(u, d)')
                  = Cardinality(PaidOn(u, d)) + IF <<u, d>> = DayKey(c) THEN 1 ELSE 0
           /\ \A d \in Days :
                Cardinality(AskedOn(d)')
                  = Cardinality(AskedOn(d)) + IF d = DayOf[window[c]] THEN 1 ELSE 0
<1>1. /\ charge[c] = "asking" /\ charge' = [charge EXCEPT ![c] = "held"]
      /\ window' = window /\ charge \in [Calls -> Charges]
    BY DEF Consume, Become, CounterInv, QuotaTypeOK
<1>2. /\ charge[c] \notin Counted /\ charge'[c] \in Counted /\ charge'[c] # "refunded"
      /\ \A e \in Calls \ {c} : charge'[e] = charge[e]
    BY <1>1 DEF Counted
<1>3. \A S \in SUBSET Calls : IsFiniteSet(S) /\ Cardinality(S) \in Nat
    BY QuotaAssumption, FS_Subset, FS_CardinalityType
<1>4. ASSUME NEW u \in Users, NEW m \in Minutes
      PROVE  Cardinality(AskedIn(u, m)')
               = Cardinality(AskedIn(u, m)) + IF <<u, m>> = MinuteKey(c) THEN 1 ELSE 0
  <2>1. AskedIn(u, m) \in SUBSET Calls /\ c \notin AskedIn(u, m)
      BY <1>2 DEF AskedIn
  <2>2. CASE <<u, m>> = MinuteKey(c)
    <3>1. AskedIn(u, m)' = AskedIn(u, m) \cup {c}
        BY <1>1, <1>2, <2>2 DEF AskedIn, MinuteKey
    <3> QED  BY <2>1, <2>2, <3>1, OneMore
  <2>3. CASE <<u, m>> # MinuteKey(c)
    <3>1. AskedIn(u, m)' = AskedIn(u, m)
        BY <1>1, <1>2, <2>3 DEF AskedIn, MinuteKey
    <3> QED  BY <1>3, <2>1, <2>3, <3>1
  <2> QED  BY <2>2, <2>3
<1>5. ASSUME NEW u \in Users, NEW d \in Days
      PROVE  Cardinality(PaidOn(u, d)')
               = Cardinality(PaidOn(u, d)) + IF <<u, d>> = DayKey(c) THEN 1 ELSE 0
  <2>1. PaidOn(u, d) \in SUBSET Calls /\ c \notin PaidOn(u, d)
      BY <1>2 DEF PaidOn, AskedOn
  <2>2. CASE <<u, d>> = DayKey(c)
    <3>1. PaidOn(u, d)' = PaidOn(u, d) \cup {c}
        BY <1>1, <1>2, <2>2 DEF PaidOn, AskedOn, DayKey
    <3> QED  BY <2>1, <2>2, <3>1, OneMore
  <2>3. CASE <<u, d>> # DayKey(c)
    <3>1. PaidOn(u, d)' = PaidOn(u, d)
        BY <1>1, <1>2, <2>3 DEF PaidOn, AskedOn, DayKey
    <3> QED  BY <1>3, <2>1, <2>3, <3>1
  <2> QED  BY <2>2, <2>3
<1>6. ASSUME NEW d \in Days
      PROVE  Cardinality(AskedOn(d)')
               = Cardinality(AskedOn(d)) + IF d = DayOf[window[c]] THEN 1 ELSE 0
  <2>1. AskedOn(d) \in SUBSET Calls /\ c \notin AskedOn(d)
      BY <1>2 DEF AskedOn
  <2>2. CASE d = DayOf[window[c]]
    <3>1. AskedOn(d)' = AskedOn(d) \cup {c}
        BY <1>1, <1>2, <2>2 DEF AskedOn
    <3> QED  BY <2>1, <2>2, <3>1, OneMore
  <2>3. CASE d # DayOf[window[c]]
    <3>1. AskedOn(d)' = AskedOn(d)
        BY <1>1, <1>2, <2>3 DEF AskedOn
    <3> QED  BY <1>3, <2>1, <2>3, <3>1
  <2> QED  BY <2>2, <2>3
<1> QED  BY <1>4, <1>5, <1>6

LEMMA ConsumeKeeps ==
    ASSUME CounterInv, NEW c \in Calls, Consume(c)
    PROVE  CounterInv'
<1>1. /\ QuotaTypeOK /\ Free(c)
      /\ charge' = [charge EXCEPT ![c] = "held"] /\ now' = now /\ window' = window
    BY DEF Consume, Become, CounterInv
<1>2. now \in Nat /\ Today \in Nat /\ Today' = Today
    BY <1>1, DayFacts DEF QuotaTypeOK, Today
<1>3. QuotaTypeOK'
    BY <1>1, ConsumeCounts DEF QuotaTypeOK, Charges
<1>4. MinutesExact'
  <2> SUFFICES ASSUME NEW u \in Users, NEW m \in Minutes, m >= now
               PROVE  minuteCount'[<<u, m>>] = Cardinality(AskedIn(u, m)')
      BY <1>1 DEF MinutesExact
  <2>1. m \in Nat /\ <<u, m>> \in Users \X Minutes /\ <<u, m>>[2] = m
      BY DayFacts
  <2>2. minuteCount'[<<u, m>>]
          = minuteCount[<<u, m>>] + IF <<u, m>> = MinuteKey(c) THEN 1 ELSE 0
      BY <1>2, <2>1, ConsumeCounts
  <2> QED  BY <2>2, ConsumeAsked DEF CounterInv, MinutesExact
<1>5. DaysExact'
  <2> SUFFICES ASSUME NEW u \in Users, NEW d \in Days, d >= Today
               PROVE  dayCount'[<<u, d>>] = Cardinality(PaidOn(u, d)')
      BY <1>2 DEF DaysExact
  <2>1. d \in Nat /\ <<u, d>> \in Users \X Days /\ <<u, d>>[2] = d
      BY DayFacts
  <2>2. dayCount'[<<u, d>>] = dayCount[<<u, d>>] + IF <<u, d>> = DayKey(c) THEN 1 ELSE 0
      BY <1>2, <2>1, ConsumeCounts
  <2> QED  BY <2>2, ConsumeAsked DEF CounterInv, DaysExact
<1>6. GlobalExact'
  <2> SUFFICES ASSUME NEW d \in Days, d >= Today
               PROVE  globalCount'[d] = Cardinality(AskedOn(d)')
      BY <1>2 DEF GlobalExact
  <2>1. d \in Nat
      BY DayFacts
  <2>2. globalCount'[d] = globalCount[d] + IF d = DayOf[window[c]] THEN 1 ELSE 0
      BY <1>2, <2>1, ConsumeCounts
  <2> QED  BY <2>2, ConsumeAsked DEF CounterInv, GlobalExact
<1>7. WithinLimits'
  <2>1. \A k \in Users \X Minutes : minuteCount'[k] <= MinuteLimit
      BY <1>1, ConsumeCounts, QuotaAssumption
      DEF Free, CounterInv, WithinLimits, QuotaTypeOK
  <2>2. \A k \in Users \X Days : dayCount'[k] <= DayLimit
      BY <1>1, ConsumeCounts, QuotaAssumption
      DEF Free, CounterInv, WithinLimits, QuotaTypeOK
  <2>3. \A d \in Days : globalCount'[d] <= GlobalLimit
      BY <1>1, ConsumeCounts, QuotaAssumption
      DEF Free, CounterInv, WithinLimits, QuotaTypeOK
  <2> QED  BY <2>1, <2>2, <2>3 DEF WithinLimits
<1> QED  BY <1>3, <1>4, <1>5, <1>6, <1>7 DEF CounterInv

\* The refunded question was counted, so the floor is not reached.
LEMMA RefundKeeps ==
    ASSUME CounterInv, NEW c \in Calls, Refund(c)
    PROVE  CounterInv'
<1>1. /\ charge[c] = "held" /\ charge' = [charge EXCEPT ![c] = "refunded"]
      /\ dayCount' = [dayCount EXCEPT ![DayKey(c)] = OneLess(@)]
      /\ UNCHANGED <<now, minuteCount, globalCount, window>>
      /\ QuotaTypeOK
    BY DEF Refund, RefundKey, Become, CounterInv
<1>2. /\ DayKey(c) \in Users \X Days /\ dayCount[DayKey(c)] \in Nat
      /\ OneLess(dayCount[DayKey(c)]) \in Nat
      /\ OneLess(dayCount[DayKey(c)]) <= dayCount[DayKey(c)]
    BY <1>1, KeyFacts DEF QuotaTypeOK, OneLess
<1>3. QuotaTypeOK'
    BY <1>1, <1>2 DEF QuotaTypeOK, Charges
<1>4. /\ \A u \in Users, m \in Minutes : AskedIn(u, m)' = AskedIn(u, m)
      /\ \A d \in Days : AskedOn(d)' = AskedOn(d)
    BY <1>1 DEF AskedIn, AskedOn, Counted, QuotaTypeOK
<1>5. MinutesExact' /\ GlobalExact'
    BY <1>1, <1>4 DEF CounterInv, MinutesExact, GlobalExact, Today
<1>6. DaysExact'
  <2> SUFFICES ASSUME NEW u \in Users, NEW d \in Days, d >= Today
               PROVE  dayCount'[<<u, d>>] = Cardinality(PaidOn(u, d)')
      BY <1>1 DEF DaysExact, Today
  <2>1. dayCount[<<u, d>>] = Cardinality(PaidOn(u, d))
      BY DEF CounterInv, DaysExact
  <2>2. CASE <<u, d>> = DayKey(c)
    <3>1. c \in PaidOn(u, d)
        BY <1>1, <2>2 DEF PaidOn, AskedOn, DayKey, Counted
    <3>2. PaidOn(u, d)' = PaidOn(u, d) \ {c}
        BY <1>1 DEF PaidOn, AskedOn, Counted, QuotaTypeOK
    <3>3. PaidOn(u, d) \in SUBSET Calls
        BY DEF PaidOn, AskedOn
    <3>4. /\ Cardinality(PaidOn(u, d)') = Cardinality(PaidOn(u, d)) - 1
          /\ Cardinality(PaidOn(u, d)) > 0
        BY <3>1, <3>2, <3>3, OneFewer
    <3>5. dayCount'[<<u, d>>] = OneLess(dayCount[<<u, d>>])
        BY <1>1, <1>2, <2>2 DEF QuotaTypeOK
    <3> QED  BY <2>1, <3>4, <3>5 DEF OneLess
  <2>3. CASE <<u, d>> # DayKey(c)
    <3>1. PaidOn(u, d)' = PaidOn(u, d)
        BY <1>1, <2>3 DEF PaidOn, AskedOn, DayKey, Counted, QuotaTypeOK
    <3>2. dayCount'[<<u, d>>] = dayCount[<<u, d>>]
        BY <1>1, <2>3 DEF QuotaTypeOK
    <3> QED  BY <2>1, <3>1, <3>2
  <2> QED  BY <2>2, <2>3
<1>7. WithinLimits'
    BY <1>1, <1>2, QuotaAssumption DEF CounterInv, WithinLimits, QuotaTypeOK
<1> QED  BY <1>3, <1>5, <1>6, <1>7 DEF CounterInv

LEMMA CounterStep == CounterInv /\ [QuotaNext]_quotaVars => CounterInv'
<1> SUFFICES ASSUME CounterInv, [QuotaNext]_quotaVars PROVE CounterInv'
    OBVIOUS
<1>1. QuotaTypeOK
    BY DEF CounterInv
<1>2. ASSUME NEW c \in Calls, Ask(c) PROVE CounterInv'
  <2>1. QuotaTypeOK'
      BY <1>1, <1>2 DEF Ask, Become, QuotaTypeOK, Charges
  <2> QED  BY <1>1, <1>2, <2>1, NothingCharged DEF Ask, Become, QuotaTypeOK, Counted
<1>3. ASSUME NEW c \in Calls, Refuse(c) \/ RefundFails(c) PROVE CounterInv'
  <2>1. QuotaTypeOK'
      BY <1>1, <1>3 DEF Refuse, RefundFails, Become, QuotaTypeOK, Charges
  <2> QED
      BY <1>1, <1>3, <2>1, NothingCharged
      DEF Refuse, RefundFails, Become, QuotaTypeOK, Counted
<1>4. CASE UNCHANGED quotaVars
  <2>1. QuotaTypeOK'
      BY <1>1, <1>4 DEF quotaVars, quota, QuotaTypeOK
  <2> QED  BY <1>4, <2>1, NothingCharged DEF quotaVars, quota
<1> QED
    BY <1>2, <1>3, <1>4, ConsumeKeeps, RefundKeeps, TickKeeps DEF QuotaNext

-----------------------------------------------------------------------------
(* Theorems *)

LEMMA CounterInvariant == QuotaSpec => []CounterInv
BY CounterInit, CounterStep, PTL DEF QuotaSpec

\* The counters of today are the questions charged and not given back.
THEOREM CountersExact == QuotaSpec => []CountersAreExact
<1>1. CounterInv => CountersAreExact
    BY DayFacts
    DEF CounterInv, QuotaTypeOK, DaysExact, GlobalExact, CountersAreExact, Today
<1> QED  BY <1>1, CounterInvariant, PTL

\* No interleaving of charges, refunds and purges, at whatever moment the clock
\* moves, lets a user or all users together ask more than the limits allow.
THEOREM LimitsHold == QuotaSpec => []QuotasHold
<1>1. CounterInv => QuotasHold
  <2> SUFFICES ASSUME CounterInv PROVE QuotasHold
      OBVIOUS
  <2>1. now \in Minutes /\ now \in Nat /\ Today \in Days /\ Today \in Nat
      BY DayFacts DEF CounterInv, QuotaTypeOK, Today
  <2>2. \A u \in Users : AskedThisMinute(u) = AskedIn(u, now)
      BY DEF AskedThisMinute, AskedIn
  <2>3. \A u \in Users : <<u, now>> \in Users \X Minutes /\ <<u, Today>> \in Users \X Days
      BY <2>1
  <2>4. /\ \A u \in Users : /\ minuteCount[<<u, now>>] <= MinuteLimit
                            /\ dayCount[<<u, Today>>] <= DayLimit
        /\ globalCount[Today] <= GlobalLimit
      BY <2>1, <2>3 DEF CounterInv, WithinLimits
  <2>5. /\ \A u \in Users : minuteCount[<<u, now>>] = Cardinality(AskedIn(u, now))
        /\ \A u \in Users : dayCount[<<u, Today>>] = Cardinality(PaidOn(u, Today))
        /\ globalCount[Today] = Cardinality(AskedOn(Today))
      BY <2>1 DEF CounterInv, MinutesExact, DaysExact, GlobalExact
  <2> QED
      BY <2>2, <2>4, <2>5 DEF QuotasHold, MinuteQuotaHolds, DayQuotaHolds, GlobalQuotaHolds
<1> QED  BY <1>1, CounterInvariant, PTL

-----------------------------------------------------------------------------
(* The quota under the connection pool *)

\* A step of a request is a step of the quota or leaves it alone.
LEMMA StepIsQuotaStep == [Next]_vars => [QuotaNext]_quotaVars
<1> SUFFICES ASSUME [Next]_vars PROVE [QuotaNext]_quotaVars
    OBVIOUS
<1>1. ASSUME NEW c \in Calls, Question(c) PROVE [QuotaNext]_quotaVars
    BY <1>1 DEF Question, FindUser, Reserve, Charge, Generated, SaveStream, GiveBack, QuotaNext
<1>2. ASSUME NEW r \in Plain, Limited(r) \/ Serve(r) PROVE [QuotaNext]_quotaVars
    BY <1>2 DEF Limited, Serve
<1>3. CASE Clock
    BY <1>3 DEF Clock, QuotaNext
<1>4. CASE UNCHANGED vars
    BY <1>4 DEF vars
<1> QED  BY <1>1, <1>2, <1>3, <1>4 DEF Next

\* Requests that wait for connections refine the quota they are charged to.
THEOREM RequestsImplementQuota == Spec => QuotaSpec
BY StepIsQuotaStep, PTL DEF Spec, Init, QuotaSpec

\* However requests race for connections, time out while they hold a charge or
\* fail to give it back, no limit is exceeded.
THEOREM LimitsHoldUnderPool == Spec => []QuotasHold
BY RequestsImplementQuota, LimitsHold, PTL

\* ... and no counter of today is off by one.
THEOREM CountersExactUnderPool == Spec => []CountersAreExact
BY RequestsImplementQuota, CountersExact, PTL

-----------------------------------------------------------------------------
(* The connection pool *)

Places == {"new", "admitted"} \cup Over \cup HoldsOne \cup HoldsTwo

\* The connections a request holds in a state.
Holds(s) == IF s \in HoldsTwo THEN 2 ELSE IF s \in HoldsOne THEN 1 ELSE 0

\* The connections that are out are never more than the pool has.
PoolNeverOverdrawn == IdleConnections \in 0 .. PoolSize

\* The sets of holders are finite though the requests need not be.
PoolInv ==
    /\ at \in [Calls \cup Plain -> Places]
    /\ IsFiniteSet(InState(HoldsOne)) /\ IsFiniteSet(InState(HoldsTwo))
    /\ PoolNeverOverdrawn

\* Those that f has in S; one set is another but for one element.
Among(R, f, S) == {q \in R : f[q] \in S}

OneApart(before, after, left, joined) ==
    /\ IsFiniteSet(after)
    /\ Cardinality(before) \in Nat /\ Cardinality(after) \in Nat
    /\ Cardinality(after) =
           Cardinality(before) - (IF left THEN 1 ELSE 0) + (IF joined THEN 1 ELSE 0)

LEMMA OneMoves ==
    ASSUME NEW R, NEW P, NEW f \in [R -> P], NEW r \in R, NEW to \in P, NEW S,
           IsFiniteSet(Among(R, f, S))
    PROVE  OneApart(Among(R, f, S), Among(R, [f EXCEPT ![r] = to], S), f[r] \in S, to \in S)
<1> DEFINE before == Among(R, f, S)
           after == Among(R, [f EXCEPT ![r] = to], S)
<1> DEFINE others == before \ {r}
<1>1. (r \in before <=> f[r] \in S) /\ r \notin others
    BY DEF Among
<1>2. after = IF to \in S THEN others \cup {r} ELSE others
    BY Zenon DEF Among
<1>3. /\ IsFiniteSet(others) /\ Cardinality(before) \in Nat /\ Cardinality(others) \in Nat
      /\ Cardinality(others) = IF r \in before THEN Cardinality(before) - 1 ELSE Cardinality(before)
    BY FS_RemoveElement, FS_CardinalityType
<1>4. /\ IsFiniteSet(others \cup {r})
      /\ Cardinality(others \cup {r}) = Cardinality(others) + 1
    BY <1>1, <1>3, FS_AddElement
<1> HIDE DEF others, before, after
<1> DEFINE b == Cardinality(before)
           o == Cardinality(others)
           o1 == Cardinality(others \cup {r})
<1>5. /\ b \in Nat /\ o \in Nat /\ o1 = o + 1
      /\ o = IF f[r] \in S THEN b - 1 ELSE b
      /\ Cardinality(after) = IF to \in S THEN o1 ELSE o
      /\ IsFiniteSet(after)
    BY <1>1, <1>2, <1>3, <1>4, Zenon
<1> QED  BY <1>5 DEF OneApart, before, after

LEMMA MoveKeepsPool ==
    ASSUME PoolInv, NEW r \in Calls \cup Plain, NEW from, NEW to \in Places,
           Move(r, from, to),
           \/ Holds(to) <= Holds(from)
           \/ Holds(to) = Holds(from) + 1 /\ IdleConnections > 0
    PROVE  PoolInv'
<1>0. at \in [Calls \cup Plain -> Places]
    BY DEF PoolInv
<1>1. /\ at \in [Calls \cup Plain -> Places] /\ at' \in [Calls \cup Plain -> Places]
      /\ at[r] = from /\ at' = [at EXCEPT ![r] = to]
    BY DEF PoolInv, Move
<1> DEFINE R == Calls \cup Plain
           moved == [at EXCEPT ![r] = to]
<1>2. OneApart(InState(HoldsOne), InState(HoldsOne)', from \in HoldsOne, to \in HoldsOne)
  <2>1. InState(HoldsOne) = Among(R, at, HoldsOne) /\ InState(HoldsOne)' = Among(R, moved, HoldsOne)
      BY <1>1 DEF InState, Among
  <2>2. OneApart(Among(R, at, HoldsOne), Among(R, moved, HoldsOne), at[r] \in HoldsOne, to \in HoldsOne)
      BY <1>0, <2>1, OneMoves, Zenon DEF PoolInv
  <2> QED  BY <1>1, <2>1, <2>2, Zenon
<1>3. OneApart(InState(HoldsTwo), InState(HoldsTwo)', from \in HoldsTwo, to \in HoldsTwo)
  <2>1. InState(HoldsTwo) = Among(R, at, HoldsTwo) /\ InState(HoldsTwo)' = Among(R, moved, HoldsTwo)
      BY <1>1 DEF InState, Among
  <2>2. OneApart(Among(R, at, HoldsTwo), Among(R, moved, HoldsTwo), at[r] \in HoldsTwo, to \in HoldsTwo)
      BY <1>0, <2>1, OneMoves, Zenon DEF PoolInv
  <2> QED  BY <1>1, <2>1, <2>2, Zenon
<1>5. \A s : ~(s \in HoldsOne /\ s \in HoldsTwo)
    BY DEF HoldsOne, HoldsTwo
<1>6. PoolSize \in Nat
    BY RequestsAssumption
<1>7. PoolNeverOverdrawn'
    BY <1>2, <1>3, <1>5, <1>6
    DEF PoolInv, OneApart, PoolNeverOverdrawn, IdleConnections, Holds
<1> QED  BY <1>1, <1>2, <1>3, <1>7 DEF PoolInv, OneApart

LEMMA PoolStep == PoolInv /\ [Next]_vars => PoolInv'
<1> SUFFICES ASSUME PoolInv, [Next]_vars PROVE PoolInv'
    OBVIOUS
<1>1. ASSUME NEW r \in Calls \cup Plain, NEW from, NEW to \in Places, Take(r, from, to),
             Holds(to) = Holds(from) + 1
      PROVE  PoolInv'
    BY <1>1, MoveKeepsPool DEF Take
<1>2. ASSUME NEW r \in Calls \cup Plain, NEW from, NEW to \in Places, Move(r, from, to),
             Holds(to) <= Holds(from)
      PROVE  PoolInv'
    BY <1>2, MoveKeepsPool
<1>3. /\ Holds("new") = 0 /\ Holds("admitted") = 0
      /\ \A s \in Over : Holds(s) = 0 /\ s \in Places
      /\ \A s \in HoldsOne : Holds(s) = 1 /\ s \in Places
      /\ \A s \in HoldsTwo : Holds(s) = 2 /\ s \in Places
    BY DEF Places, Holds, Over, HoldsOne, HoldsTwo
<1>4. ASSUME NEW c \in Calls, Question(c) PROVE PoolInv'
  <2>1. CASE FindUser(c)
      BY <1>1, <1>2, <1>3, <2>1 DEF FindUser, GiveUp, Over, HoldsOne
  <2>2. CASE Reserve(c)
      BY <1>1, <1>2, <1>3, <2>2 DEF Reserve, GiveUp, Over, HoldsOne, HoldsTwo
  <2>3. CASE Charge(c)
      BY <1>2, <1>3, <2>3 DEF Charge, Over, HoldsOne, HoldsTwo
  <2>4. CASE Generated(c)
    <3>1. PICK to \in {"answered", "saving", "refunding"} : Move(c, "generating", to)
        BY <2>4 DEF Generated
    <3>2. Holds(to) <= Holds("generating") /\ to \in Places
        BY <1>3 DEF Over, HoldsOne
    <3> QED  BY <1>2, <3>1, <3>2
  <2>5. CASE SaveStream(c)
      BY <1>1, <1>2, <1>3, <2>5 DEF SaveStream, GiveUp, Over, HoldsOne, HoldsTwo
  <2>6. CASE GiveBack(c)
      BY <1>1, <1>2, <1>3, <2>6 DEF GiveBack, GiveUp, Over, HoldsOne, HoldsTwo
  <2> QED  BY <1>4, <2>1, <2>2, <2>3, <2>4, <2>5, <2>6 DEF Question
<1>5. ASSUME NEW r \in Plain, Limited(r) PROVE PoolInv'
  <2>1. PICK to \in {"admitted", "error", "refused"} : Move(r, "new", to)
      BY <1>5 DEF Limited
  <2>2. Holds(to) <= Holds("new") /\ to \in Places
      BY <1>3 DEF Places, Over
  <2> QED  BY <1>2, <2>1, <2>2
<1>6. ASSUME NEW r \in Plain, Serve(r) PROVE PoolInv'
    BY <1>1, <1>2, <1>3, <1>6 DEF Serve, GiveUp, Over, HoldsOne
<1>7. CASE UNCHANGED at
    BY <1>7 DEF PoolInv, PoolNeverOverdrawn, IdleConnections, InState
<1> QED  BY <1>4, <1>5, <1>6, <1>7 DEF Next, Clock, vars

\* However requests take connections, give them back and give up waiting, those
\* that are out never number more than the pool has: whoever waits, waits for a
\* connection that somebody holds.
THEOREM PoolHolds == Spec => []PoolNeverOverdrawn
<1>1. Init => PoolInv
  <2> SUFFICES ASSUME Init PROVE PoolInv
      OBVIOUS
  <2>1. at \in [Calls \cup Plain -> Places]
      BY DEF Init, Places
  <2>2. InState(HoldsOne) = {} /\ InState(HoldsTwo) = {}
      BY DEF Init, InState, HoldsOne, HoldsTwo
  <2>3. PoolNeverOverdrawn
      BY <2>2, FS_EmptySet, RequestsAssumption DEF PoolNeverOverdrawn, IdleConnections
  <2> QED  BY <2>1, <2>2, <2>3, FS_EmptySet DEF PoolInv
<1>2. PoolInv => PoolNeverOverdrawn
    BY DEF PoolInv
<1> QED  BY <1>1, <1>2, PoolStep, PTL DEF Spec

-----------------------------------------------------------------------------
(* The rate limiter *)

\* The hits of a key are in the order of their times, none is of the future, and
\* those that the deque has dropped are over.
HitsInOrder ==
    /\ accepted \in [Keys -> Seq(Nat)]
    /\ oldest \in [Keys -> Nat \ {0}]
    /\ \A k \in Keys :
         /\ oldest[k] <= Len(accepted[k]) + 1
         /\ \A i \in 1 .. Len(accepted[k]) : accepted[k][i] <= now
         /\ \A i, j \in 1 .. Len(accepted[k]) : i <= j => accepted[k][i] <= accepted[k][j]
         /\ \A i \in 1 .. oldest[k] - 1 : IsOver(accepted[k][i], now)

LimiterInv == now \in Nat /\ HitsInOrder /\ WindowNeverOverfull

LEMMA LeastExists ==
    ASSUME NEW S \in SUBSET Nat, S # {}
    PROVE  \E m \in S : \A i \in S : m <= i
<1>1. PICK m \in S : \A i \in S : <<i, m>> \notin OpToRel(<, Nat)
    BY WFMin, NatLessThanWellFounded, Zenon
<1>2. \A i \in S : ~(i < m)
    BY <1>1, Zenon DEF OpToRel
<1>3. m \in Nat /\ \A i \in S : i \in Nat
    OBVIOUS
<1> QED  BY <1>2, <1>3

\* The deque can be cut: there is a first hit that is not over, or none is left.
LEMMA FirstExists ==
    ASSUME LimiterInv, NEW k \in Keys
    PROVE  /\ First(k, now) \in oldest[k] .. Len(accepted[k]) + 1
           /\ \A j \in 1 .. First(k, now) - 1 : IsOver(accepted[k][j], now)
<1> DEFINE len == Len(accepted[k])
           Young == {i \in oldest[k] .. len + 1 : i <= len => ~IsOver(accepted[k][i], now)}
<1>1. /\ len \in Nat /\ oldest[k] \in Nat \ {0} /\ oldest[k] <= len + 1
      /\ \A i \in 1 .. oldest[k] - 1 : IsOver(accepted[k][i], now)
    BY DEF LimiterInv, HitsInOrder
<1>2. Young \in SUBSET Nat /\ len + 1 \in Young
    BY <1>1
<1>3. PICK m \in Young : \A i \in Young : m <= i
    BY <1>2, LeastExists
<1>4. /\ m \in oldest[k] .. len + 1
      /\ \A j \in oldest[k] .. m - 1 : IsOver(accepted[k][j], now)
      /\ m <= len => ~IsOver(accepted[k][m], now)
    BY <1>1, <1>3
<1>5. /\ First(k, now) \in oldest[k] .. len + 1
      /\ \A j \in oldest[k] .. First(k, now) - 1 : IsOver(accepted[k][j], now)
    BY <1>4 DEF First
<1> QED  BY <1>1, <1>5

LEMMA AdmitKeeps ==
    ASSUME LimiterInv, NEW k \in Keys, Admit(k, now), now' = now
    PROVE  LimiterInv'
<1> DEFINE f == First(k, now)
           len == Len(accepted[k])
<1>1. /\ now \in Nat /\ len \in Nat /\ f \in 1 .. len + 1
      /\ accepted[k] \in Seq(Nat)
      /\ \A j \in 1 .. f - 1 : IsOver(accepted[k][j], now)
    BY FirstExists DEF LimiterInv, HitsInOrder
<1>2. /\ len + 1 - f < HitLimit[k]
      /\ accepted' = [accepted EXCEPT ![k] = Append(@, now)]
      /\ oldest' = [oldest EXCEPT ![k] = f]
      /\ HitLimit[k] \in Nat /\ HitWindow \in Nat \ {0}
    BY LimiterAssumption DEF Admit, Held
<1> HIDE DEF f, len
<1>3. /\ accepted' \in [Keys -> Seq(Nat)] /\ oldest' \in [Keys -> Nat \ {0}]
      /\ accepted'[k] = Append(accepted[k], now) /\ oldest'[k] = f
      /\ \A h \in Keys \ {k} : accepted'[h] = accepted[h] /\ oldest'[h] = oldest[h]
    BY <1>1, <1>2 DEF LimiterInv, HitsInOrder
<1>4. /\ Len(accepted'[k]) = len + 1
      /\ \A i \in 1 .. len : accepted'[k][i] = accepted[k][i]
      /\ accepted'[k][len + 1] = now
    BY <1>1, <1>3 DEF len
<1>5. /\ \A i \in 1 .. len : accepted[k][i] \in Nat /\ accepted[k][i] <= now
      /\ \A i, j \in 1 .. len : i <= j => accepted[k][i] <= accepted[k][j]
    BY <1>1 DEF LimiterInv, HitsInOrder, len
<1>6. HitsInOrder'
  <2>1. oldest'[k] <= Len(accepted'[k]) + 1
      BY <1>1, <1>3, <1>4
  <2>2. \A i \in 1 .. len + 1 : i \in 1 .. len \/ i = len + 1
      BY <1>1
  <2>3. \A i \in 1 .. Len(accepted'[k]) : accepted'[k][i] <= now
      BY <1>1, <1>4, <1>5, <2>2
  <2>4. \A i, j \in 1 .. Len(accepted'[k]) : i <= j => accepted'[k][i] <= accepted'[k][j]
      BY <1>1, <1>4, <1>5, <2>2
  <2>5. \A i \in 1 .. oldest'[k] - 1 : IsOver(accepted'[k][i], now)
    <3>1. \A i \in 1 .. f - 1 : i \in 1 .. len
        BY <1>1
    <3> QED  BY <1>1, <1>3, <1>4, <3>1
  <2> QED  BY <1>3, <2>1, <2>3, <2>4, <2>5 DEF LimiterInv, HitsInOrder
<1>7. /\ HitLimit[k] = 0 => accepted'[k] = <<>>
      /\ \A i \in 1 .. Len(accepted'[k]) - HitLimit[k] :
           accepted'[k][i + HitLimit[k]] >= accepted'[k][i] + HitWindow
  <2>1. HitLimit[k] > 0 /\ HitLimit[k] \in Nat /\ len \in Nat
      BY <1>1, <1>2
  <2>2. ASSUME NEW i \in 1 .. len + 1 - HitLimit[k]
        PROVE  accepted'[k][i + HitLimit[k]] >= accepted'[k][i] + HitWindow
    <3>1. CASE i + HitLimit[k] <= len
      <4>1. i \in 1 .. len - HitLimit[k] /\ i \in 1 .. len /\ i + HitLimit[k] \in 1 .. len
          BY <1>1, <1>2, <3>1
      <4>2. accepted[k][i + HitLimit[k]] >= accepted[k][i] + HitWindow
          BY <4>1 DEF LimiterInv, WindowNeverOverfull, len
      <4> QED  BY <1>4, <4>1, <4>2
    <3>2. CASE i + HitLimit[k] = len + 1
      <4>1. i \in 1 .. f - 1 /\ i \in 1 .. len
          BY <1>1, <1>2, <2>1, <3>2
      <4>2. accepted[k][i] <= now - HitWindow /\ accepted[k][i] \in Nat
          BY <1>1, <1>5, <4>1 DEF IsOver
      <4>3. accepted'[k][i + HitLimit[k]] = now /\ accepted'[k][i] = accepted[k][i]
          BY <1>4, <3>2, <4>1
      <4>4. now >= accepted[k][i] + HitWindow
          BY <1>1, <4>2, LimiterAssumption
      <4> QED  BY <4>3, <4>4
    <3>3. i + HitLimit[k] <= len \/ i + HitLimit[k] = len + 1
        BY <2>1
    <3> QED  BY <3>1, <3>2, <3>3
  <2>3. \A i \in 1 .. Len(accepted'[k]) - HitLimit[k] : i \in 1 .. len + 1 - HitLimit[k]
      BY <1>4, <2>1
  <2>4. HitLimit[k] # 0
      BY <2>1
  <2> QED  BY <2>2, <2>3, <2>4, Zenon
<1>8. WindowNeverOverfull'
    BY <1>3, <1>7 DEF LimiterInv, WindowNeverOverfull
<1> QED  BY <1>1, <1>6, <1>8 DEF LimiterInv

LEMMA RejectKeeps ==
    ASSUME LimiterInv, NEW k \in Keys, Reject(k, now), now' = now
    PROVE  LimiterInv'
<1>1. /\ First(k, now) \in Nat \ {0} /\ First(k, now) <= Len(accepted[k]) + 1
      /\ \A j \in 1 .. First(k, now) - 1 : IsOver(accepted[k][j], now)
    BY FirstExists DEF LimiterInv, HitsInOrder
<1>2. oldest' = [oldest EXCEPT ![k] = First(k, now)] /\ accepted' = accepted
    BY DEF Reject
<1>3. HitsInOrder'
    BY <1>1, <1>2 DEF LimiterInv, HitsInOrder
<1> QED  BY <1>2, <1>3 DEF LimiterInv, WindowNeverOverfull

LEMMA StaysOver ==
    ASSUME NEW t \in Nat, NEW time \in Nat, IsOver(t, time)
    PROVE  IsOver(t, time + 1)
BY LimiterAssumption DEF IsOver

LEMMA ClockKeeps ==
    ASSUME LimiterInv, Tick, UNCHANGED limiterVars
    PROVE  LimiterInv'
<1>1. now' = now + 1 /\ now \in Nat /\ accepted' = accepted /\ oldest' = oldest
    BY DEF Tick, limiterVars, LimiterInv
<1>2. HitsInOrder'
  <2> SUFFICES ASSUME NEW k \in Keys
               PROVE  /\ \A i \in 1 .. Len(accepted[k]) : accepted[k][i] <= now + 1
                      /\ \A i \in 1 .. oldest[k] - 1 : IsOver(accepted[k][i], now + 1)
      BY <1>1 DEF LimiterInv, HitsInOrder
  <2>1. /\ accepted[k] \in Seq(Nat) /\ oldest[k] \in Nat /\ oldest[k] <= Len(accepted[k]) + 1
        /\ Len(accepted[k]) \in Nat
        /\ \A i \in 1 .. Len(accepted[k]) : accepted[k][i] \in Nat
      BY DEF LimiterInv, HitsInOrder
  <2>2. \A i \in 1 .. oldest[k] - 1 : i \in 1 .. Len(accepted[k])
      BY <2>1
  <2>3. /\ \A i \in 1 .. Len(accepted[k]) : accepted[k][i] <= now
        /\ \A i \in 1 .. oldest[k] - 1 : IsOver(accepted[k][i], now)
      BY DEF LimiterInv, HitsInOrder
  <2>4. \A i \in 1 .. Len(accepted[k]) : accepted[k][i] <= now + 1
      BY <1>1, <2>1, <2>3
  <2>5. \A i \in 1 .. oldest[k] - 1 : IsOver(accepted[k][i], now + 1)
      BY <1>1, <2>1, <2>2, <2>3, StaysOver
  <2> QED  BY <2>4, <2>5
<1> QED  BY <1>1, <1>2 DEF LimiterInv, WindowNeverOverfull

LEMMA LimiterStep == LimiterInv /\ [Next]_vars => LimiterInv'
<1> SUFFICES ASSUME LimiterInv, [Next]_vars PROVE LimiterInv'
    OBVIOUS
<1>1. ASSUME NEW r \in Plain, Limited(r) PROVE LimiterInv'
  <2>1. KeyOf[r] \in Keys
      BY RequestsAssumption
  <2>2. now' = now /\ (Admit(KeyOf[r], now) \/ Reject(KeyOf[r], now))
      BY <1>1 DEF Limited, quotaVars
  <2> QED  BY <2>1, <2>2, AdmitKeeps, RejectKeeps
<1>2. CASE Clock
    BY <1>2, ClockKeeps DEF Clock
<1>3. ASSUME UNCHANGED <<now, limiterVars>> PROVE LimiterInv'
    BY <1>3 DEF limiterVars, LimiterInv, HitsInOrder, WindowNeverOverfull
<1>4. ASSUME NEW c \in Calls, Question(c) PROVE UNCHANGED <<now, limiterVars>>
    BY <1>4
    DEF Question, FindUser, Reserve, Charge, Generated, SaveStream, GiveBack,
        Ask, Consume, Refuse, Refund, RefundFails, quotaVars, quota
<1>5. ASSUME NEW r \in Plain, Serve(r) PROVE UNCHANGED <<now, limiterVars>>
    BY <1>5 DEF Serve, quotaVars
<1>6. CASE UNCHANGED vars
    BY <1>3, <1>6 DEF vars, quotaVars
<1> QED  BY <1>1, <1>2, <1>3, <1>4, <1>5, <1>6 DEF Next

\* Whatever the times of the requests and the cuts of the deques, no window holds
\* more accepted hits of a key than the limit.
THEOREM WindowsHold == Spec => []WindowNeverOverfull
<1>1. Init => LimiterInv
    BY LimiterAssumption
    DEF Init, QuotaInit, LimiterInit, LimiterInv, HitsInOrder, WindowNeverOverfull
<1>2. LimiterInv => WindowNeverOverfull
    BY DEF LimiterInv
<1> QED  BY <1>1, <1>2, LimiterStep, PTL DEF Spec
=============================================================================
